-------------------------- MODULE ReviewJobProofs --------------------------
(***************************************************************************)
(* ReviewJob, for any number of pushes, merged events, runs of the row and *)
(* experiments.  Reviews are only ever added, so what is on record stays   *)
(* true; a run that has read the row's progress knows every review posted  *)
(* since the last event was merged, or one before it lost track of one;    *)
(* and an experiment leaves the row only when it is over, cancelled or     *)
(* among the exceptions.                                                   *)
(***************************************************************************)
EXTENDS ReviewJob, TLAPS

-----------------------------------------------------------------------------
(* What a run knows at each of its steps.                                  *)

Early   == {"context", "files", "load", "verdict"}
Spoken  == {"save", "posting", "tie", "tie_reviewed", "record_tie"}
Decides == Spoken \cup {"verdict", "submitted", "collect", "clear"}

Shape ==
    /\ at = "idle" => job = NoJob /\ unsaved = FALSE
    /\ at # "idle" => row.state = "leased" /\ leases >= 1
    /\ at \in Early =>
          /\ job.progress = None /\ job.experiment = 0 /\ job.submits = 0
          /\ job.resumed = FALSE /\ unsaved = FALSE
    /\ at \in {"submitted", "collect"} => job.progress = None /\ job.experiment # 0
    /\ at \in Spoken => job.progress # None
    /\ job.progress # None => job.progress.head = job.sha
    /\ job.resumed = TRUE => job.submits = 0

(* The reviews in ps are of progress p, on the head commit.                *)
Says(ps, who, p) ==
    \E i \in DOMAIN ps :
        /\ ps[i].who = who /\ ps[i].commit = p.head /\ ps[i].run = p.verdict.run

OnHead(ps, who, commit) ==
    \E i \in DOMAIN ps : ps[i].who = who /\ ps[i].commit = commit

(* What a progress says was posted was; a tie-break followed both reviews. *)
IsTrue(ps, p) ==
    p # None =>
        /\ \A who \in p.posted : Says(ps, who, p)
        /\ p.tie_break => {Barry, OB} \subseteq p.posted /\ Says(ps, OOB, p)

Truth ==
    /\ IsTrue(posts, row.progress) /\ IsTrue(posts, job.progress)
    /\ \A r \in recorded : OnHead(posts, r[1], r[2])
    /\ at \in {"tie", "tie_reviewed"} =>
          {Barry, OB} \subseteq job.progress.posted /\ ~job.progress.tie_break
    /\ at = "record_tie" => job.progress.tie_break
    /\ job.outcome = "decided" => job.progress # None /\ job.progress.tie_break

(* An experiment nobody need end: it is over, or an exception.             *)
Over(exps, exceptions, e) ==
    e \in DOMAIN exps /\ exps[e].state = "running" => e \in exceptions

Settled(e) == Over(lab, strays \cup left, e)

Owned ==
    /\ \A e : \/ e = row.experiment
              \/ at = "submitted" /\ e = job.experiment
              \/ Settled(e)
    /\ at \in {"collect", "clear"} => row.experiment = job.experiment
    /\ at = "submitted" => Settled(row.experiment)
    /\ at \notin {"submitted", "collect"} => Settled(job.experiment)

(* Post r is on an earlier head than the progress p, or p lists it.        *)
Listed(who, p) == who \in p.posted \/ (who = OOB /\ p.tie_break)

Covers(p, r) ==
    /\ p # None
    /\ r.commit <= p.head
    /\ r.commit = p.head => r.run = p.verdict.run /\ Listed(r.who, p)

Heads ==
    /\ row.progress.head <= head
    /\ at \in Decides \cup {"files", "load"} =>
          row.progress.head <= job.sha /\ job.sha <= head
    /\ \A i \in DOMAIN posts : posts[i].era <= era

(* Of the reviews posted since the last event was merged, the row knows    *)
(* unless one was not saved, and the run knows once it has looked.         *)
RowCovers ==
    row.state # "gone" /\ lost = FALSE /\ unsaved = FALSE =>
        \A i \in DOMAIN posts : posts[i].era = era => Covers(row.progress, posts[i])

RunCovers ==
    at \in Decides /\ lost = FALSE =>
        \A i \in DOMAIN posts :
            posts[i].era = era => \/ posts[i].commit < job.sha
                                  \/ Covers(job.progress, posts[i])

Unspoiled == Heads /\ RowCovers /\ RunCovers /\ OneReviewEach

ReviewInv == TypeOK /\ Shape /\ Truth /\ Owned /\ Unspoiled

-----------------------------------------------------------------------------
(* Types, in groups of variables.                                          *)

Experiment == [of : Commit, state : {"running", "done", "failed"}]
Ids        == 0 .. Len(lab)

RowSet == [state : {"pending", "leased", "gone"}, progress : Progress \cup {None},
           experiment : Ids]
JobSet == [sha : Commit, files : Commit, progress : Progress \cup {None},
           experiment : Ids, resumed : BOOLEAN, submits : 0 .. 1,
           outcome : {"none", "decided"}]

ProcessOK ==
    /\ racked \in BOOLEAN /\ stopping \in BOOLEAN
    /\ at \in Checking \cup {"idle", "context", "files", "outcome", "end"}
TableOK ==
    row \in RowSet /\ recorded \subseteq {Barry, OB, OOB} \X Commit
HistoryOK ==
    /\ era \in 1 .. MaxMerges + 1 /\ leases \in 0 .. MaxLeases
    /\ unsaved \in BOOLEAN /\ lost \in BOOLEAN
    /\ strays \subseteq Ids \ {0} /\ left \subseteq Ids \ {0}

(* What the configuration may be.                                          *)
LEMMA ConstantTypes ==
    /\ MaxPushes \in Nat /\ MaxMerges \in Nat
    /\ MaxLeases \in Nat /\ MaxExperiments \in Nat
BY ReviewJobAssumption

(* A progress and its absence are told apart by their head.                *)
LEMMA ProgressFields ==
    /\ None.head = 0 /\ None \notin Progress
    /\ \A p \in Progress :
          /\ p.head \in Commit /\ p.verdict \in Verdict
          /\ p.posted \subseteq {Barry, OB} /\ p.tie_break \in BOOLEAN
          /\ p.head # 0 /\ p # None
<1>1. None.head = 0
  BY DEF None
<1>2. \A p \in Progress : p.head \in Commit /\ p.verdict \in Verdict
          /\ p.posted \subseteq {Barry, OB} /\ p.tie_break \in BOOLEAN
  BY DEF Progress
<1>3. 0 \notin Commit
  BY ConstantTypes DEF Commit
<1> QED BY <1>1, <1>2, <1>3

(* TypeOK, by groups of variables.                                         *)
LEMMA TypeParts ==
    TypeOK <=> /\ head \in Commit /\ posts \in Seq(Post) /\ lab \in Seq(Experiment)
               /\ TableOK /\ ProcessOK /\ job \in JobSet /\ HistoryOK
<1>1. lab \in Seq(Experiment) => 1 .. Len(lab) = Ids \ {0}
  BY DEF Ids
<1> QED BY <1>1 DEF TypeOK, Experiment, RowSet, JobSet, Ids, ProcessOK, TableOK, HistoryOK

(* The process: its configuration, its token and where its run is.         *)
LEMMA ProcessStep ==
    ASSUME ProcessOK, Next PROVE ProcessOK'
<1> USE DEF ProcessOK, Checking, history, table, Go
<1>1. CASE Around
  BY <1>1 DEF Around, Push, ExperimentEnds, Merge, Purge
<1>2. CASE Setup \/ LoadProgress \/ LoadFails \/ CheckerFails
  BY <1>2 DEF Setup, Lease, FetchContext, ListFiles, GiveUp, LoadProgress, LoadFails, CheckerFails
<1>3. CASE OnRack \/ \E kind \in Kind : Decide(kind)
  BY <1>3 DEF OnRack, Decide, Submit, Resume, Remember, RememberFails, Collected,
              Resubmit, ResubmitFails, NoReview, RackTimeout, PollFails, Clear, SubmitFrom
<1>4. CASE Posting
  BY <1>4 DEF Posting, Save, PostOnce, PostFails, Downgrade, Record, NoTieBreak,
              BreakTie, PostTieBreak, PostTieBreakFails, RecordTieBreak
<1>5. CASE Sigterm \/ HandBack \/ Die \/ Abandon \/ Ack \/ Retry
  BY <1>5 DEF Sigterm, HandBack, Die, Abandon, Ack, Retry, NextProcess, EndRun
<1> QED BY <1>1, <1>2, <1>3, <1>4, <1>5 DEF Next

(* The rack gains an experiment, or one ends; none starts again.           *)
LabMoves ==
    \/ UNCHANGED lab
    \/ \E e \in DOMAIN lab, s \in {"done", "failed"} : lab' = [lab EXCEPT ![e].state = s]
    \/ \E of \in Commit : lab' = Append(lab, [of |-> of, state |-> "running"])

(* No step does more to the rack than that.                                *)
LEMMA LabStep ==
    ASSUME TypeOK, Next PROVE LabMoves
<1> USE DEF LabMoves, Running
<1>0. job.files \in Commit
  BY TypeParts DEF JobSet
<1>1. ASSUME NEW e, Cancel(e) PROVE LabMoves
  BY <1>1, Zenon DEF Cancel
<1>2. ASSUME NEW e, DropGuard(e) PROVE LabMoves
  BY <1>1, <1>2, Zenon DEF DropGuard
<1>3. CASE Around
  BY <1>3, Zenon DEF Around, Push, ExperimentEnds, Merge, Purge
<1>4. CASE Setup \/ LoadProgress \/ LoadFails \/ CheckerFails \/ (\E kind \in Kind : Decide(kind))
           \/ Sigterm \/ Die \/ Ack \/ Retry
  BY <1>4, Zenon DEF Setup, Lease, FetchContext, ListFiles, GiveUp, LoadProgress,
        LoadFails, CheckerFails, Decide, Sigterm, Die, Ack, Retry
<1>5. CASE OnRack
  BY <1>0, <1>1, <1>2, <1>5, Zenon DEF OnRack, Submit, Resume, Remember, RememberFails,
        Collected, Resubmit, ResubmitFails, NoReview, RackTimeout, PollFails, Clear,
        SubmitFrom
<1>6. CASE Posting
  BY <1>6, Zenon DEF Posting, Save, PostOnce, PostFails, Downgrade, Record, NoTieBreak,
        BreakTie, PostTieBreak, PostTieBreakFails, RecordTieBreak
<1>7. CASE HandBack \/ Abandon
  BY <1>2, <1>7, Zenon DEF HandBack, Abandon, Dropped
<1> QED BY <1>3, <1>4, <1>5, <1>6, <1>7, Zenon DEF Next

(* The ids on a row are those of experiments, or 0.                        *)
LEMMA IdsAre ==
    ASSUME lab \in Seq(Experiment)
    PROVE  /\ Len(lab) \in Nat /\ DOMAIN lab = 1 .. Len(lab)
           /\ 0 \in Ids /\ Ids \ {0} = DOMAIN lab
<1>1. Len(lab) \in Nat /\ DOMAIN lab = 1 .. Len(lab)
  OBVIOUS
<1>2. (0 .. Len(lab)) \ {0} = 1 .. Len(lab) /\ 0 \in 0 .. Len(lab)
  BY <1>1
<1> QED BY <1>1, <1>2 DEF Ids

(* The ids stay, and no experiment starts again.                           *)
LEMMA LabKept ==
    ASSUME lab \in Seq(Experiment), LabMoves
    PROVE  /\ lab' \in Seq(Experiment) /\ Len(lab') \in Nat /\ Len(lab') >= Len(lab)
           /\ Ids \subseteq Ids' /\ Ids \ {0} = DOMAIN lab
           /\ \A e \in Ids : Running(e)' => Running(e)
<1>0. Len(lab) \in Nat /\ DOMAIN lab = 1 .. Len(lab) /\ Ids \ {0} = DOMAIN lab
  BY IdsAre
<1>1. CASE lab' = lab
  <2>1. \A e : Running(e)' <=> Running(e)
    BY <1>1 DEF Running
  <2> QED BY <1>0, <1>1, <2>1 DEF Ids
<1>2. ASSUME NEW e \in DOMAIN lab, NEW s \in {"done", "failed"},
             lab' = [lab EXCEPT ![e].state = s]
      PROVE  /\ lab' \in Seq(Experiment) /\ Len(lab') = Len(lab)
             /\ \A f \in Ids : Running(f)' => Running(f)
  <2>1. lab[e] \in Experiment
    OBVIOUS
  <2>2. [lab[e] EXCEPT !.state = s] \in Experiment
    BY <2>1 DEF Experiment
  <2>3. lab' = [lab EXCEPT ![e] = [lab[e] EXCEPT !.state = s]]
    BY <1>2
  <2> QED BY <2>2, <2>3 DEF Running
<1>3. ASSUME NEW of \in Commit, lab' = Append(lab, [of |-> of, state |-> "running"])
      PROVE  /\ lab' \in Seq(Experiment) /\ Len(lab') = Len(lab) + 1
             /\ \A f \in Ids : Running(f)' => Running(f)
  <2>1. [of |-> of, state |-> "running"] \in Experiment
    BY DEF Experiment
  <2> QED BY <1>0, <1>3, <2>1 DEF Running, Ids
<1>4. ASSUME Len(lab') = Len(lab) \/ Len(lab') = Len(lab) + 1
      PROVE  Len(lab') \in Nat /\ Len(lab') >= Len(lab) /\ Ids \subseteq Ids'
  BY <1>0, <1>4 DEF Ids
<1> QED BY <1>0, <1>1, <1>2, <1>3, <1>4 DEF LabMoves

(* A review is posted, of the run's verdict or the tie-break.              *)
LEMMA PostsStep ==
    ASSUME TypeOK, Shape, Next
    PROVE  posts' = posts \/ \E p \in Post : posts' = Append(posts, p)
<1>0. /\ job.sha \in Commit /\ job.files \in Commit
      /\ job.progress \in Progress \cup {None} /\ era \in 1 .. MaxMerges + 1
  BY TypeParts DEF JobSet, HistoryOK
<1>1. ASSUME NEW who \in {Barry, OB, OOB}, NEW of \in Commit, Landed(who, of),
             at \in Spoken
      PROVE  \E p \in Post : posts' = Append(posts, p)
  <2>1. job.progress \in Progress
    BY <1>0, <1>1 DEF Shape
  <2>2. job.progress.verdict.run \in 1 .. MaxLeases
    BY <2>1, ProgressFields DEF Verdict
  <2> QED BY <1>0, <1>1, <2>2 DEF Landed, Post
<1>2. CASE Around \/ Setup \/ LoadProgress \/ LoadFails \/ CheckerFails \/ OnRack
           \/ \E kind \in Kind : Decide(kind)
  BY <1>2, Zenon DEF Around, Push, ExperimentEnds, Merge, Purge,
        Setup, Lease, FetchContext, ListFiles, GiveUp, LoadProgress, LoadFails,
        CheckerFails, Decide, OnRack, Submit, Resume, Remember, RememberFails,
        Collected, Resubmit, ResubmitFails, NoReview, RackTimeout, PollFails, Clear,
        SubmitFrom
<1>3. CASE Sigterm \/ HandBack \/ Die \/ Abandon \/ Ack \/ Retry
  BY <1>3, Zenon DEF Sigterm, HandBack, Die, Abandon, Ack, Retry
<1>4. ASSUME NEW who \in {Barry, OB}, PostOnce(who) \/ PostFails(who)
      PROVE  posts' = posts \/ \E p \in Post : posts' = Append(posts, p)
  <2>1. at \in Spoken
    BY <1>4 DEF PostOnce, PostFails, Go, Spoken
  <2>2. job.progress.verdict.of \in Commit
    BY <1>0, <2>1, ProgressFields DEF Verdict, Shape
  <2> QED BY <1>1, <1>4, <2>1, <2>2 DEF PostOnce, PostFails
<1>5. CASE PostTieBreak \/ PostTieBreakFails
  <2>1. at \in Spoken
    BY <1>5 DEF PostTieBreak, PostTieBreakFails, Go, Spoken
  <2> QED BY <1>0, <1>1, <1>5, <2>1 DEF PostTieBreak, PostTieBreakFails
<1>6. CASE Save \/ Downgrade \/ Record \/ NoTieBreak \/ BreakTie \/ RecordTieBreak
  BY <1>6, Zenon DEF Save, Downgrade, Record, NoTieBreak, BreakTie, RecordTieBreak
<1> QED BY <1>2, <1>3, <1>4, <1>5, <1>6 DEF Next, Posting

(* What the steps of a run may rely on.                                    *)
LEMMA Known ==
    ASSUME TypeOK, Shape
    PROVE  /\ job.sha \in Commit /\ job.files \in Commit /\ job.experiment \in Ids
           /\ job.progress \in Progress \cup {None} /\ job.submits \in 0 .. 1
           /\ row.experiment \in Ids /\ row.progress \in Progress \cup {None}
           /\ at \in Spoken => job.progress \in Progress
           /\ at # "idle" => leases \in 1 .. MaxLeases
           /\ \A e \in Ids \ {0} : lab[e].of \in Commit
<1>1. \A e \in DOMAIN lab : lab[e].of \in Commit
  <2>1. \A e \in DOMAIN lab : lab[e] \in Experiment
    BY TypeParts
  <2> QED BY <2>1 DEF Experiment
<1>2. DOMAIN lab = Ids \ {0}
  BY IdsAre, TypeParts
<1>3. at # "idle" => leases \in 1 .. MaxLeases
  BY TypeParts, ConstantTypes DEF Shape, HistoryOK
<1> QED BY <1>1, <1>2, <1>3, TypeParts DEF JobSet, RowSet, TableOK, Shape

(* The head only advances.                                                 *)
LEMMA HeadStep == ASSUME TypeOK, Next PROVE head' \in Commit /\ head' >= head
<1>1. CASE Push
  BY <1>1, TypeParts, ConstantTypes DEF Push, Commit
<1>2. ASSUME ~Push PROVE head' = head
  BY <1>2, Zenon DEF Next, Around, Setup, OnRack, Posting, ExperimentEnds, Merge,
     Purge, Lease, FetchContext, ListFiles, GiveUp,
     LoadProgress, LoadFails, CheckerFails, Decide, Submit, Resume, Remember,
     RememberFails, Collected, Resubmit, ResubmitFails, NoReview, RackTimeout,
     PollFails, Clear, SubmitFrom, Save, PostOnce, PostFails, Downgrade, Record,
     NoTieBreak, BreakTie, PostTieBreak, PostTieBreakFails, RecordTieBreak,
     Sigterm, HandBack, Die, Abandon, Ack, Retry
<1> QED BY <1>1, <1>2, TypeParts, ConstantTypes DEF Commit

(* The row of the database.                                                *)
LEMMA TableStep ==
    ASSUME TypeOK, Shape, Next, Ids \subseteq Ids'
    PROVE  TableOK'
<1>0. /\ row \in RowSet /\ recorded \subseteq {Barry, OB, OOB} \X Commit
      /\ 0 \in Ids /\ 0 \in Ids'
  BY TypeParts, IdsAre DEF TableOK
<1>1. ASSUME UNCHANGED row PROVE row' \in RowSet'
  BY <1>0, <1>1 DEF RowSet
<1>2. ASSUME NEW s \in {"pending", "leased", "gone"}, row' = [row EXCEPT !.state = s]
      PROVE  row' \in RowSet'
  BY <1>0, <1>2 DEF RowSet
<1>3. ASSUME NEW p \in Progress \cup {None}, row' = [row EXCEPT !.progress = p]
      PROVE  row' \in RowSet'
  BY <1>0, <1>3 DEF RowSet
<1>4. ASSUME NEW e \in Ids, row' = [row EXCEPT !.experiment = e]
      PROVE  row' \in RowSet'
  BY <1>0, <1>4 DEF RowSet
<1>5. ASSUME row' = Gone PROVE row' \in RowSet'
  BY <1>0, <1>5 DEF RowSet, Gone
<1>6. None \in Progress \cup {None}
  OBVIOUS
<1>7. CASE Around
  BY <1>0, <1>1, <1>3, <1>5, <1>6, <1>7, Zenon
     DEF Around, Push, ExperimentEnds, Merge, Purge, DeleteRow, TableOK, table
<1>8. CASE Setup \/ LoadProgress \/ LoadFails \/ CheckerFails \/ Sigterm \/ Die \/ Abandon
           \/ \E kind \in Kind : Decide(kind)
  BY <1>0, <1>1, <1>2, <1>8, Zenon DEF Setup, Lease, FetchContext, ListFiles, GiveUp,
     LoadProgress, LoadFails, CheckerFails, Sigterm, Die, Abandon, Decide, TableOK, table
<1>9. CASE OnRack
  BY <1>0, <1>1, <1>4, <1>9, Known, Zenon DEF OnRack, Submit, Resume, Remember,
     RememberFails, Collected, Resubmit, ResubmitFails, NoReview, RackTimeout,
     PollFails, Clear, SubmitFrom, TableOK, table
<1>10. CASE Save
  <2>1. job.progress \in Progress
    BY <1>10, Known DEF Save, Go, Spoken
  <2> QED BY <1>0, <1>1, <1>3, <1>10, <2>1, Zenon DEF Save, TableOK
<1>11. CASE Record
  <2>1. \A S \in SUBSET Speakers(job.progress.verdict) :
           {<<who, job.sha>> : who \in S} \subseteq {Barry, OB, OOB} \X Commit
    BY Known DEF Speakers
  <2> QED BY <1>0, <1>1, <1>11, <2>1 DEF Record, TableOK
<1>12. CASE RecordTieBreak
  <2>1. {<<OOB, job.sha>>} \subseteq {Barry, OB, OOB} \X Commit
    BY Known
  <2>2. recorded' = recorded \/ recorded' = recorded \cup {<<OOB, job.sha>>}
    BY <1>12 DEF RecordTieBreak
  <2>3. recorded' \subseteq {Barry, OB, OOB} \X Commit
    BY <1>0, <2>1, <2>2
  <2> QED BY <1>1, <1>12, <2>3 DEF RecordTieBreak, TableOK
<1>13. CASE \/ (\E who \in {Barry, OB} : PostOnce(who) \/ PostFails(who)) \/ Downgrade
            \/ NoTieBreak \/ BreakTie \/ PostTieBreak \/ PostTieBreakFails
  BY <1>0, <1>1, <1>13, Zenon DEF PostOnce, PostFails, Downgrade, NoTieBreak,
     BreakTie, PostTieBreak, PostTieBreakFails, TableOK, table
<1>14. CASE HandBack \/ Ack \/ Retry
  BY <1>0, <1>2, <1>5, <1>14, Zenon DEF HandBack, Ack, Retry, PutBack, DeleteRow, TableOK
<1> QED BY <1>7, <1>8, <1>9, <1>10, <1>11, <1>12, <1>13, <1>14 DEF Next, Posting

(* What the run knows.                                                     *)
LEMMA JobStep ==
    ASSUME TypeOK, Shape, Next, Ids \subseteq Ids', Ids' \ {0} = DOMAIN lab',
           lab' \in Seq(Experiment)
    PROVE  job' \in JobSet'
<1>0. /\ job \in JobSet /\ head \in Commit /\ 0 \in Ids'
  BY TypeParts, IdsAre
<1>1. ASSUME UNCHANGED job PROVE job' \in JobSet'
  BY <1>0, <1>1 DEF JobSet
<1>2. ASSUME job' = NoJob PROVE job' \in JobSet'
  BY <1>0, <1>2, ConstantTypes DEF JobSet, NoJob, Commit
<1>3. ASSUME NEW p \in Progress \cup {None}, job' = [job EXCEPT !.progress = p]
      PROVE  job' \in JobSet'
  BY <1>0, <1>3 DEF JobSet
<1>4. CASE Around \/ LoadFails \/ CheckerFails \/ GiveUp \/ Remember \/ RememberFails
           \/ ResubmitFails \/ NoReview \/ RackTimeout \/ PollFails \/ Clear
  BY <1>1, <1>4, Zenon DEF Around, Push, ExperimentEnds, Merge, Purge, LoadFails,
     CheckerFails, GiveUp, Remember, RememberFails, ResubmitFails, NoReview,
     RackTimeout, PollFails, Clear
<1>5. CASE Save \/ Record \/ NoTieBreak \/ BreakTie \/ Sigterm \/ Abandon \/ Lease
           \/ \E who \in {Barry, OB} : PostFails(who)
  BY <1>1, <1>5, Zenon DEF Save, Record, NoTieBreak, BreakTie, Sigterm, Abandon, Lease,
     PostFails
<1>6. CASE HandBack \/ Die \/ Ack \/ Retry
  BY <1>2, <1>6, Zenon DEF HandBack, Die, Ack, Retry, NextProcess, EndRun
<1>7. CASE FetchContext \/ ListFiles
  BY <1>0, <1>7 DEF FetchContext, ListFiles, JobSet
<1>8. CASE Submit \/ Resubmit
  <2>1. /\ job.submits = 0
        /\ lab' = Append(lab, [of |-> job.files, state |-> "running"])
        /\ job' = [job EXCEPT !.experiment = Len(lab) + 1, !.submits = @ + 1,
                              !.resumed = Resubmitted]
    BY <1>8 DEF Submit, Resubmit, SubmitFrom, Go, Shape, Early
  <2>2. Len(lab) + 1 \in Ids'
    BY <1>0, <2>1, TypeParts DEF Ids
  <2>3. job' = [job EXCEPT !.experiment = Len(lab) + 1, !.submits = 1, !.resumed = FALSE]
    BY <2>1 DEF Resubmitted
  <2>4. ASSUME NEW e \in Ids'
        PROVE  [job EXCEPT !.experiment = e, !.submits = 1, !.resumed = FALSE] \in JobSet'
    BY <1>0, 1 \in 0 .. 1, FALSE \in BOOLEAN DEF JobSet
  <2> QED BY <2>2, <2>3, <2>4
<1>9. CASE Resume
  BY <1>0, <1>9, Known DEF Resume, JobSet
<1>10. CASE LoadProgress
  BY <1>1, <1>3, <1>10, Known, Zenon DEF LoadProgress
<1>11. ASSUME NEW kind \in Kind, NEW of \in Commit, at # "idle"
       PROVE  Reached(kind, of) \in Progress
  BY <1>11, Known DEF Reached, Progress, Verdict
<1>12. ASSUME NEW kind \in Kind, Decide(kind) \/ Collected(kind) PROVE job' \in JobSet'
  <2>1. at # "idle" /\ (job' = [job EXCEPT !.progress = Reached(kind, job.files)]
                        \/ job' = [job EXCEPT !.progress =
                                              Reached(kind, lab[job.experiment].of)])
    BY <1>12 DEF Decide, Collected, Go
  <2>2. job.files \in Commit /\ (Collected(kind) => lab[job.experiment].of \in Commit)
    BY Known DEF Collected, Go, Shape
  <2>3. CASE Decide(kind)
    BY <1>3, <1>11, <2>1, <2>2, <2>3 DEF Decide
  <2>4. CASE Collected(kind)
    BY <1>3, <1>11, <2>1, <2>2, <2>4 DEF Collected
  <2> QED BY <1>12, <2>3, <2>4
<1>13. ASSUME NEW who \in {Barry, OB}, PostOnce(who) PROVE job' \in JobSet'
  <2>1. job.progress \in Progress
    BY <1>13, Known DEF PostOnce, Go, Spoken
  <2>2. [job.progress EXCEPT !.posted = @ \cup {who}] \in Progress
    BY <2>1 DEF Progress
  <2>3. job' = [job EXCEPT !.progress = [job.progress EXCEPT !.posted = @ \cup {who}]]
    BY <1>0, <1>13 DEF PostOnce, JobSet
  <2> QED BY <1>3, <2>2, <2>3
<1>14. CASE Downgrade
  <2>1. job.progress \in Progress
    BY <1>14, Known DEF Downgrade, Go, Spoken
  <2>2. [job.progress EXCEPT !.verdict = [job.progress.verdict EXCEPT !.kind = "alone"]]
           \in Progress
    BY <2>1 DEF Progress, Verdict, Kind
  <2>3. job' = [job EXCEPT !.progress =
           [job.progress EXCEPT !.verdict = [job.progress.verdict EXCEPT !.kind = "alone"]]]
    BY <1>0, <1>14 DEF Downgrade, BarryAlone, JobSet
  <2> QED BY <1>3, <2>2, <2>3
<1>15. CASE PostTieBreak
  <2>1. job.progress \in Progress
    BY <1>15, Known DEF PostTieBreak, Go, Spoken
  <2>2. [job.progress EXCEPT !.tie_break = TRUE] \in Progress
    BY <2>1 DEF Progress
  <2>3. job' = [job EXCEPT !.progress = [job.progress EXCEPT !.tie_break = TRUE]]
    BY <1>0, <1>15 DEF PostTieBreak, JobSet
  <2> QED BY <1>3, <2>2, <2>3
<1>16. CASE PostTieBreakFails \/ RecordTieBreak
  BY <1>0, <1>16 DEF PostTieBreakFails, RecordTieBreak, Unposted, JobSet
<1> QED BY <1>4, <1>5, <1>6, <1>7, <1>8, <1>9, <1>10, <1>12, <1>13, <1>14, <1>15, <1>16
        DEF Next, Setup, OnRack, Posting

(* The history: counters within their bounds, exceptions that exist.       *)
LEMMA HistoryStep ==
    ASSUME TypeOK, Shape, Next, Ids \subseteq Ids'
    PROVE  HistoryOK'
<1>0. /\ HistoryOK /\ Ids \ {0} \subseteq Ids' \ {0}
      /\ job.experiment \in Ids /\ row.experiment \in Ids
  BY TypeParts, Known
<1>1. strays' \subseteq Ids' \ {0} /\ left' \subseteq Ids' \ {0}
  <2>1. strays \subseteq Ids' \ {0} /\ left \subseteq Ids' \ {0}
    BY <1>0 DEF HistoryOK
  <2> DEFINE Grow == /\ strays' \subseteq strays \cup (Ids \ {0})
                     /\ left' \subseteq left \cup (Ids \ {0})
  <2>2. ASSUME at \in {"submitted", "collect"} PROVE job.experiment \in Ids \ {0}
    BY <1>0, <2>2 DEF Shape
  <2>k. ASSUME strays' = strays, left' = left PROVE Grow
    BY <2>k
  <2>3. ASSUME NEW e \in Ids \ {0}, Cancel(e), left' = left PROVE Grow
    BY <2>3, Zenon DEF Cancel
  <2>4. ASSUME NEW e \in Ids \ {0}, DropGuard(e) PROVE Grow
    BY <2>3, <2>4, Zenon DEF DropGuard
  <2>6. ASSUME DeleteRow, strays' = strays PROVE Grow
    BY <1>0, <2>6, Zenon DEF DeleteRow
  <2>s. ASSUME NEW e \in Ids \ {0}, strays' = strays \cup {e}, left' = left PROVE Grow
    BY <2>s
  <2> SUFFICES Grow
    BY <1>0, <2>1
  <2> HIDE DEF Grow
  <2>5. ASSUME Dropped PROVE Grow
    BY <2>k, <2>s, <2>2, <2>4, <2>5, Zenon DEF Dropped
  <2>7. CASE Around \/ Setup \/ LoadProgress \/ LoadFails \/ CheckerFails \/ Sigterm
             \/ Ack \/ Retry \/ \E kind \in Kind : Decide(kind)
    BY <2>k, <2>6, <2>7, Zenon DEF Around, Push, ExperimentEnds, Merge, Purge, Setup, Lease,
       FetchContext, ListFiles, GiveUp, LoadProgress, LoadFails, CheckerFails, Sigterm,
       Ack, Retry, Decide, history
  <2>8. CASE OnRack
    BY <2>k, <2>s, <2>2, <2>3, <2>4, <2>8, Zenon DEF OnRack, Submit, Resume, Remember,
       RememberFails, Collected, Resubmit, ResubmitFails, NoReview, RackTimeout, PollFails, Clear,
       SubmitFrom, Go, history
  <2>9. CASE Posting
    BY <2>k, <2>9, Zenon DEF Posting, Save, PostOnce, PostFails, Downgrade, Record,
       NoTieBreak, BreakTie, PostTieBreak, PostTieBreakFails, RecordTieBreak, history
  <2>10. CASE HandBack \/ Abandon \/ Die
    <3>1. CASE Die /\ at # "submitted"
      BY <3>1 DEF Die, Grow
    <3>2. CASE Die /\ at = "submitted"
      BY <2>s, <2>2, <3>2 DEF Die
    <3> QED BY <2>5, <2>10, <3>1, <3>2, Zenon DEF HandBack, Abandon
  <2> QED BY <2>7, <2>8, <2>9, <2>10, Zenon DEF Next
<1>2. era' \in 1 .. MaxMerges + 1
  <2>1. CASE Merge
    BY <1>0, <2>1, ConstantTypes DEF Merge, HistoryOK
  <2>2. ASSUME ~Merge PROVE era' = era
    BY <2>2, Zenon DEF Next, Around, Setup, OnRack, Posting, ExperimentEnds, Push, Purge,
       Lease, FetchContext, ListFiles, GiveUp, LoadProgress, LoadFails, CheckerFails,
       Decide, Submit, Resume, Remember, RememberFails, Collected, Resubmit,
       ResubmitFails, NoReview, RackTimeout, PollFails, Clear, SubmitFrom, Save,
       PostOnce, PostFails, Downgrade, Record, NoTieBreak, BreakTie, PostTieBreak,
       PostTieBreakFails, RecordTieBreak, Sigterm, HandBack, Die, Abandon, Ack, Retry,
       history
  <2> QED BY <1>0, <2>1, <2>2 DEF HistoryOK
<1>3. leases' \in 0 .. MaxLeases
  <2>1. CASE Lease
    BY <1>0, <2>1, ConstantTypes DEF Lease, HistoryOK
  <2>2. ASSUME ~Lease PROVE leases' = leases
    BY <2>2, Zenon DEF Next, Around, Setup, OnRack, Posting, ExperimentEnds, Push, Purge,
       Merge, FetchContext, ListFiles, GiveUp, LoadProgress, LoadFails, CheckerFails,
       Decide, Submit, Resume, Remember, RememberFails, Collected, Resubmit,
       ResubmitFails, NoReview, RackTimeout, PollFails, Clear, SubmitFrom, Save,
       PostOnce, PostFails, Downgrade, Record, NoTieBreak, BreakTie, PostTieBreak,
       PostTieBreakFails, RecordTieBreak, Sigterm, HandBack, Die, Abandon, Ack, Retry,
       history
  <2> QED BY <1>0, <2>1, <2>2 DEF HistoryOK
<1>4. unsaved' \in BOOLEAN /\ lost' \in BOOLEAN
  <2>1. unsaved \in BOOLEAN /\ lost \in BOOLEAN
    BY <1>0 DEF HistoryOK
  <2> QED BY <2>1, Zenon DEF Next, Around, Setup, OnRack, Posting, ExperimentEnds, Push,
       Purge, Merge, Lease, FetchContext, ListFiles, GiveUp, LoadProgress, LoadFails,
       CheckerFails, Decide, Submit, Resume, Remember, RememberFails, Collected, Resubmit,
       ResubmitFails, NoReview, RackTimeout, PollFails, Clear, SubmitFrom, Save,
       PostOnce, PostFails, Landed, Downgrade, Record, NoTieBreak, BreakTie, PostTieBreak,
       PostTieBreakFails, RecordTieBreak, Sigterm, HandBack, Die, Abandon, Ack, Retry,
       Forgets, history
<1> QED BY <1>1, <1>2, <1>3, <1>4 DEF HistoryOK

(* Every step keeps the types.                                             *)
LEMMA TypeStep == ASSUME TypeOK, Shape, Next PROVE TypeOK'
<1>1. LabMoves /\ lab \in Seq(Experiment)
  BY LabStep, TypeParts
<1>2. lab' \in Seq(Experiment) /\ Ids \subseteq Ids' /\ Ids' \ {0} = DOMAIN lab'
  <2>1. lab' \in Seq(Experiment) /\ Ids \subseteq Ids'
    BY <1>1, LabKept
  <2>2. Len(lab') \in Nat /\ DOMAIN lab' = 1 .. Len(lab')
    BY <2>1
  <2> QED BY <2>1, <2>2 DEF Ids
<1>3. posts' \in Seq(Post)
  BY PostsStep, TypeParts
<1>4. TypeOK' <=> /\ head' \in Commit /\ posts' \in Seq(Post) /\ lab' \in Seq(Experiment)
                  /\ TableOK' /\ ProcessOK' /\ job' \in JobSet' /\ HistoryOK'
  <2>1. 1 .. Len(lab') = Ids' \ {0}
    BY <1>2 DEF Ids
  <2> QED BY <2>1, Zenon DEF TypeOK, Experiment, RowSet, JobSet, Ids, ProcessOK, TableOK, HistoryOK
<1> QED BY <1>1, <1>2, <1>3, <1>4, HeadStep, TableStep, ProcessStep, JobStep, HistoryStep,
        TypeParts

(* What the run writes of its progress.                                    *)
LEMMA NewProgress ==
    ASSUME TypeOK, Shape
    PROVE  /\ \A who \in {Barry, OB} : PostOnce(who) =>
                 job' = [job EXCEPT !.progress = [job.progress EXCEPT !.posted = @ \cup {who}]]
           /\ Downgrade => job' = [job EXCEPT !.progress = [job.progress EXCEPT !.verdict =
                                      [job.progress.verdict EXCEPT !.kind = "alone"]]]
           /\ PostTieBreak =>
                 job' = [job EXCEPT !.progress = [job.progress EXCEPT !.tie_break = TRUE]]
<1>1. job \in JobSet
  BY TypeParts
<1> QED BY <1>1, Zenon DEF PostOnce, Downgrade, BarryAlone, PostTieBreak, JobSet

(* What a run knows at each step is what the code has given it by then.    *)
LEMMA ShapeStep ==
    ASSUME TypeOK, Shape, Next PROVE Shape'
<1> USE DEF Go, Early, Spoken
<1>0. /\ job \in JobSet /\ row \in RowSet /\ leases \in Nat
  BY TypeParts, ConstantTypes DEF TableOK, HistoryOK
<1>1. CASE Around
  <2>1. /\ UNCHANGED <<at, job, leases, unsaved>>
        /\ row' = row \/ row.state = "pending"
    BY <1>1, Zenon DEF Around, Push, ExperimentEnds, Merge, Purge, table, history
  <2> QED BY <2>1 DEF Shape
<1>2. CASE Setup \/ LoadFails \/ CheckerFails
  BY <1>0, <1>2 DEF Setup, Lease, FetchContext, ListFiles, GiveUp, LoadFails,
     CheckerFails, Shape, RowSet, JobSet, NoJob, table, history
<1>3. CASE LoadProgress
  <2>1. job.sha # 0 /\ row.progress \in Progress \cup {None}
    BY Known, ConstantTypes DEF Commit
  <2>2. CASE row.progress.head = job.sha
    <3>1. row.progress # None /\ at' = "posting" /\ job' = [job EXCEPT !.progress = row.progress]
          /\ UNCHANGED <<row, leases, unsaved>>
      BY <1>3, <2>1, <2>2, ProgressFields DEF LoadProgress, Resumes, table, history
    <3> QED BY <1>0, <1>3, <2>2, <3>1 DEF LoadProgress, Shape, JobSet
  <2>3. CASE row.progress.head # job.sha
    BY <1>3, <2>3 DEF LoadProgress, Resumes, Shape, table, history
  <2> QED BY <2>2, <2>3
<1>4. CASE HandBack \/ Die \/ Ack \/ Retry
  <2>1. at' = "idle" /\ job' = NoJob /\ unsaved' = FALSE
    BY <1>4, Zenon DEF HandBack, Die, Ack, Retry, NextProcess, EndRun, Forgets
  <2>2. NoJob.progress = None /\ NoJob.resumed = FALSE
    BY DEF NoJob
  <2> QED BY <2>1, <2>2 DEF Shape
<1>5. CASE Sigterm \/ Abandon
  BY <1>5 DEF Sigterm, Abandon, Shape, Checking, table, history
<1>6. ASSUME NEW kind \in Kind, Decide(kind) \/ Collected(kind) PROVE Shape'
  <2>1. PICK of : job' = [job EXCEPT !.progress = Reached(kind, of)]
    BY <1>6 DEF Decide, Collected
  <2>2. Reached(kind, of) # None /\ Reached(kind, of).head = job.sha
    BY Known, ConstantTypes, ProgressFields DEF Reached, Commit
  <2>3. /\ at \in {"verdict", "collect"} /\ at' \in {"save", "clear"}
        /\ UNCHANGED <<row, leases, unsaved>>
    BY <1>6 DEF Decide, Collected, table, history
  <2> QED BY <1>0, <2>1, <2>2, <2>3 DEF Shape, JobSet
<1>7. CASE Submit \/ Resubmit
  <2>1. /\ job' = [job EXCEPT !.experiment = Len(lab) + 1, !.submits = @ + 1,
                              !.resumed = FALSE]
        /\ at \in {"verdict", "collect"} /\ at' = "submitted"
        /\ UNCHANGED <<row, leases, unsaved>>
    BY <1>7 DEF Submit, Resubmit, SubmitFrom, Resubmitted, table, history
  <2>2. Len(lab) + 1 # 0
    BY TypeParts
  <2> QED BY <1>0, <2>1, <2>2 DEF Shape, JobSet
<1>8. CASE Resume \/ Remember \/ RememberFails \/ ResubmitFails \/ NoReview
           \/ RackTimeout \/ PollFails
  BY <1>0, <1>8 DEF Resume, Remember, RememberFails, ResubmitFails, NoReview,
     RackTimeout, PollFails, Shape, JobSet, RowSet, table, history
<1>9. CASE Clear
  BY <1>0, <1>9 DEF Clear, Shape, RowSet, history
<1>10. CASE Save
  BY <1>0, <1>10 DEF Save, Shape, RowSet
<1>11. ASSUME NEW p \in Progress, job' = [job EXCEPT !.progress = p], p.head = job.sha,
              at \in Spoken, at' = "save", UNCHANGED <<row, leases>>
       PROVE  Shape'
  BY <1>0, <1>11, ProgressFields DEF Shape, JobSet
<1>12. ASSUME at \in Spoken
       PROVE  job.progress \in Progress /\ job.progress.head = job.sha
  BY <1>12, Known DEF Shape
<1>13. ASSUME NEW who \in {Barry, OB}, PostOnce(who) PROVE Shape'
  <2>1. [job.progress EXCEPT !.posted = @ \cup {who}] \in Progress
    BY <1>12, <1>13 DEF PostOnce, Progress
  <2>2. [job.progress EXCEPT !.posted = @ \cup {who}].head = job.sha
    BY <1>12, <1>13 DEF PostOnce, Progress
  <2> QED BY <1>11, <1>13, <2>1, <2>2, NewProgress DEF PostOnce, table
<1>14. CASE Downgrade
  <2>1. [job.progress EXCEPT !.verdict = [job.progress.verdict EXCEPT !.kind = "alone"]]
           \in Progress
    BY <1>12, <1>14 DEF Downgrade, Progress, Verdict, Kind
  <2>2. [job.progress EXCEPT !.verdict = [job.progress.verdict EXCEPT !.kind = "alone"]].head
           = job.sha
    BY <1>12, <1>14 DEF Downgrade, Progress
  <2> QED BY <1>11, <1>14, <2>1, <2>2, NewProgress DEF Downgrade, table, history
<1>15. CASE PostTieBreak
  <2>1. [job.progress EXCEPT !.tie_break = TRUE] \in Progress
    BY <1>12, <1>15 DEF PostTieBreak, Progress
  <2>2. [job.progress EXCEPT !.tie_break = TRUE].head = job.sha
    BY <1>12, <1>15 DEF PostTieBreak, Progress
  <2> QED BY <1>11, <1>15, <2>1, <2>2, NewProgress DEF PostTieBreak, table
<1>16. CASE Record \/ NoTieBreak \/ BreakTie
  BY <1>0, <1>16 DEF Record, NoTieBreak, BreakTie, Shape, table, history
<1>17. CASE \/ RecordTieBreak \/ PostTieBreakFails
            \/ \E who \in {Barry, OB} : PostFails(who)
  <2>1. /\ at \in Spoken /\ at' = "outcome" /\ UNCHANGED <<row, leases>>
        /\ job' = job \/ \E o : job' = [job EXCEPT !.outcome = o]
    BY <1>17 DEF RecordTieBreak, PostTieBreakFails, PostFails, table, history
  <2> QED BY <1>0, <2>1 DEF Shape, JobSet
<1> QED BY <1>1, <1>2, <1>3, <1>4, <1>5, <1>6, <1>7, <1>8, <1>9, <1>10, <1>13, <1>14,
        <1>15, <1>16, <1>17, Zenon DEF Next, OnRack, Posting

(* A review that was posted stays on GitHub.                               *)
LEMMA PostsKept ==
    ASSUME TypeOK, Shape, Next
    PROVE  /\ \A p : IsTrue(posts, p) => IsTrue(posts', p)
           /\ \A who, p : Says(posts, who, p) => Says(posts', who, p)
           /\ \A who, commit : OnHead(posts, who, commit) => OnHead(posts', who, commit)
<1>1. posts \in Seq(Post)
  BY TypeParts
<1>2. \A i \in DOMAIN posts : i \in DOMAIN posts' /\ posts'[i] = posts[i]
  BY <1>1, PostsStep
<1>3. \A who, p : Says(posts, who, p) => Says(posts', who, p)
  BY <1>2, Zenon DEF Says
<1>4. \A who, commit : OnHead(posts, who, commit) => OnHead(posts', who, commit)
  BY <1>2, Zenon DEF OnHead
<1>5. \A p : IsTrue(posts, p) => IsTrue(posts', p)
  BY <1>3, Zenon DEF IsTrue
<1> QED BY <1>3, <1>4, <1>5

(* The review that has just been posted is the verdict's.                  *)
LEMMA LandedIs ==
    ASSUME TypeOK, NEW who, NEW of, Landed(who, of),
           NEW p, p.head = job.sha, p.verdict.run = job.progress.verdict.run
    PROVE  Says(posts', who, p)
<1> DEFINE new == [who |-> who, commit |-> job.sha, of |-> of,
                   run |-> job.progress.verdict.run, era |-> era]
<1>1. posts' = Append(posts, new) /\ posts \in Seq(Post)
  BY TypeParts DEF Landed
<1>2. Len(posts) + 1 \in DOMAIN posts' /\ posts'[Len(posts) + 1] = new
  <2> HIDE DEF new
  <2> QED BY <1>1
<1>3. new.who = who /\ new.commit = p.head /\ new.run = p.verdict.run
  OBVIOUS
<1> HIDE DEF new
<1> QED BY <1>2, <1>3, Zenon DEF Says

(* No step makes a record that is not true.                                *)
LEMMA TruthStep ==
    ASSUME TypeOK, Shape, Truth, Next PROVE Truth'
<1> USE DEF Go
<1> DEFINE Ties == {"tie", "tie_reviewed", "record_tie"}
<1>0. /\ job \in JobSet /\ row \in RowSet /\ IsTrue(posts', None)
  BY TypeParts DEF TableOK, IsTrue
<1>1. ASSUME \/ job' = NoJob /\ at' = "idle"
             \/ /\ job'.progress = job.progress
                /\ job'.outcome \in {job.outcome, "none"}
                /\ at' = at \/ at' \notin Ties,
             row'.progress \in {row.progress, None}, recorded' = recorded
      PROVE  Truth'
  <2>1. /\ IsTrue(posts, job.progress) /\ IsTrue(posts, row.progress)
        /\ \A r \in recorded : OnHead(posts', r[1], r[2])
    BY PostsKept DEF Truth
  <2>2. IsTrue(posts', job'.progress) /\ IsTrue(posts', row'.progress)
    BY <1>0, <1>1, <2>1, PostsKept DEF NoJob
  <2>3. NoJob.outcome = "none"
    BY DEF NoJob
  <2> QED BY <1>1, <2>1, <2>2, <2>3 DEF Truth
<1>2. CASE Around \/ Setup \/ LoadFails \/ CheckerFails \/ Sigterm \/ Abandon
  <2>1. /\ job'.progress = job.progress /\ job'.outcome = job.outcome
        /\ at' = at \/ at' \notin Ties
        /\ row' = row \/ row' = Gone \/ row' = [row EXCEPT !.progress = None]
                      \/ row' = [row EXCEPT !.state = "leased"]
        /\ recorded' = recorded
    BY <1>0, <1>2 DEF Around, Push, ExperimentEnds, Merge, Purge, DeleteRow, Setup, Lease,
       FetchContext, ListFiles, GiveUp, LoadFails, CheckerFails, Sigterm, Abandon, JobSet,
       table, history
  <2> QED BY <1>0, <1>1, <2>1 DEF RowSet, Gone
<1>3. CASE HandBack \/ Die \/ Ack \/ Retry
  <2>1. /\ at' = "idle" /\ job' = NoJob /\ recorded' = recorded
        /\ row' = row \/ row' = Gone \/ \E s : row' = [row EXCEPT !.state = s]
    BY <1>3, Zenon DEF HandBack, Die, Ack, Retry, NextProcess, EndRun, PutBack, DeleteRow,
       table
  <2> QED BY <1>0, <1>1, <2>1 DEF RowSet, Gone
<1>4. CASE Submit \/ Resume \/ Remember \/ RememberFails \/ Resubmit \/ ResubmitFails
           \/ NoReview \/ RackTimeout \/ PollFails \/ Clear
  <2>1. /\ job'.progress = job.progress /\ job'.outcome = job.outcome
        /\ at' \notin Ties /\ recorded' = recorded
        /\ row' = row \/ \E e : row' = [row EXCEPT !.experiment = e]
    BY <1>0, <1>4 DEF Submit, Resume, Remember, RememberFails, Resubmit, ResubmitFails,
       NoReview, RackTimeout, PollFails, Clear, SubmitFrom, JobSet, table, history
  <2> QED BY <1>0, <1>1, <2>1 DEF RowSet
<1>5. ASSUME NEW p, job' = [job EXCEPT !.progress = p], IsTrue(posts', p), at' \notin Ties,
             job.outcome # "decided" \/ (p # None /\ p.tie_break),
             row' = row, recorded' = recorded
      PROVE  Truth'
  <2>1. IsTrue(posts', row.progress) /\ \A r \in recorded : OnHead(posts', r[1], r[2])
    BY PostsKept DEF Truth
  <2>2. job'.progress = p /\ job'.outcome = job.outcome
    BY <1>0, <1>5 DEF JobSet
  <2> QED BY <1>5, <2>1, <2>2 DEF Truth
<1>6. ASSUME at \in Early \cup {"submitted", "collect"} PROVE job.outcome # "decided"
  BY <1>6 DEF Shape, Truth
<1>7. CASE LoadProgress
  <2>1. IsTrue(posts', row.progress) /\ job.outcome # "decided"
    BY <1>6, <1>7, PostsKept DEF Truth, LoadProgress, Early
  <2> QED BY <1>1, <1>5, <1>7, <2>1 DEF LoadProgress, table, history
<1>8. ASSUME NEW kind \in Kind, Decide(kind) \/ Collected(kind) PROVE Truth'
  <2>1. PICK of : job' = [job EXCEPT !.progress = Reached(kind, of)]
    BY <1>8 DEF Decide, Collected
  <2>2. IsTrue(posts', Reached(kind, of))
    BY DEF Reached, IsTrue
  <2>3. /\ at \in {"verdict", "collect"} /\ at' \notin Ties
        /\ row' = row /\ recorded' = recorded
    BY <1>8 DEF Decide, Collected, table, history
  <2> QED BY <1>5, <1>6, <2>1, <2>2, <2>3 DEF Early
<1>9. ASSUME at \in Spoken
      PROVE  /\ job.progress \in Progress /\ job.progress # None
             /\ job.progress.head = job.sha
             /\ \A who \in job.progress.posted : Says(posts', who, job.progress)
             /\ job.progress.tie_break =>
                   {Barry, OB} \subseteq job.progress.posted /\ Says(posts', OOB, job.progress)
  <2>1. job.progress \in Progress /\ job.progress # None /\ job.progress.head = job.sha
    BY <1>9, Known DEF Shape
  <2>2. IsTrue(posts', job.progress)
    BY PostsKept DEF Truth
  <2> QED BY <2>1, <2>2 DEF IsTrue
<1>10. CASE Save
  <2>1. /\ IsTrue(posts', row.progress) /\ IsTrue(posts', job.progress)
        /\ \A r \in recorded : OnHead(posts', r[1], r[2])
    BY PostsKept DEF Truth
  <2>2. /\ at' = "posting" \/ (at' = "record_tie" /\ job.progress.tie_break)
        /\ job' = job /\ recorded' = recorded
        /\ row'.progress \in {row.progress, job.progress}
    BY <1>0, <1>10 DEF Save, RowSet
  <2> QED BY <2>1, <2>2 DEF Truth
<1>11. ASSUME NEW q, q \in Progress, at \in Spoken, q.head = job.sha,
              q.verdict.run = job.progress.verdict.run
       PROVE  \A who : Says(posts', who, job.progress) => Says(posts', who, q)
  BY <1>9, <1>11, Zenon DEF Says
<1>12. ASSUME NEW who \in {Barry, OB}, PostOnce(who) PROVE Truth'
  <2> DEFINE q == [job.progress EXCEPT !.posted = @ \cup {who}]
  <2>1. at \in Spoken
    BY <1>12 DEF PostOnce, Spoken
  <2>2. /\ q \in Progress /\ q.head = job.sha /\ q.verdict = job.progress.verdict
        /\ q.posted = job.progress.posted \cup {who}
        /\ q.tie_break = job.progress.tie_break
    BY <1>9, <2>1 DEF Progress
  <2>3. job' = [job EXCEPT !.progress = q]
    BY <1>12, NewProgress
  <2> HIDE DEF q
  <2>4. Says(posts', who, q)
    BY <1>12, <2>2, LandedIs DEF PostOnce
  <2>5. IsTrue(posts', q)
    BY <1>9, <1>11, <2>1, <2>2, <2>4 DEF IsTrue
  <2>6. job.outcome # "decided" \/ (q # None /\ q.tie_break)
    BY <2>2, ProgressFields DEF Truth
  <2> QED BY <1>5, <1>12, <2>3, <2>5, <2>6 DEF PostOnce, table
<1>13. CASE Downgrade
  <2> DEFINE v == [job.progress.verdict EXCEPT !.kind = "alone"]
             q == [job.progress EXCEPT !.verdict = v]
  <2>1. at \in Spoken
    BY <1>13 DEF Downgrade, Spoken
  <2>2. v \in Verdict /\ v.run = job.progress.verdict.run
    BY <1>9, <2>1 DEF Progress, Verdict, Kind
  <2>3. job' = [job EXCEPT !.progress = q]
    BY <1>13, NewProgress
  <2> HIDE DEF v
  <2>4. /\ q \in Progress /\ q.head = job.sha /\ q.verdict = v
        /\ q.posted = job.progress.posted /\ q.tie_break = job.progress.tie_break
    BY <1>9, <2>1, <2>2 DEF Progress
  <2> HIDE DEF q
  <2>5. IsTrue(posts', q)
    BY <1>9, <1>11, <2>1, <2>2, <2>4 DEF IsTrue
  <2>6. job.outcome # "decided" \/ (q # None /\ q.tie_break)
    BY <2>4, ProgressFields DEF Truth
  <2> QED BY <1>5, <1>13, <2>3, <2>5, <2>6 DEF Downgrade, table, history
<1>14. CASE PostTieBreak
  <2> DEFINE q == [job.progress EXCEPT !.tie_break = TRUE]
  <2>1. at \in Spoken /\ {Barry, OB} \subseteq job.progress.posted
    BY <1>14 DEF PostTieBreak, Spoken, Truth
  <2>2. /\ q \in Progress /\ q.head = job.sha /\ q.verdict = job.progress.verdict
        /\ q.posted = job.progress.posted /\ q.tie_break = TRUE
    BY <1>9, <2>1 DEF Progress
  <2>3. job' = [job EXCEPT !.progress = q]
    BY <1>14, NewProgress
  <2> HIDE DEF q
  <2>4. Says(posts', OOB, q)
    BY <1>14, <2>2, LandedIs DEF PostTieBreak
  <2>5. IsTrue(posts', q) /\ q # None
    BY <1>9, <1>11, <2>1, <2>2, <2>4, ProgressFields DEF IsTrue
  <2> QED BY <1>5, <1>14, <2>2, <2>3, <2>5 DEF PostTieBreak, table
<1>15. ASSUME \/ PostTieBreakFails \/ \E who \in {Barry, OB} : PostFails(who)
       PROVE  Truth'
  <2>1. /\ at' = "outcome" /\ row' = row /\ recorded' = recorded
        /\ job' = job \/ job' = [job EXCEPT !.outcome = "none"]
    BY <1>15 DEF PostTieBreakFails, PostFails, Unposted, table
  <2> QED BY <1>0, <1>1, <2>1 DEF JobSet
<1>16. CASE NoTieBreak \/ BreakTie
  <2>1. /\ IsTrue(posts', row.progress) /\ IsTrue(posts', job.progress)
        /\ \A r \in recorded : OnHead(posts', r[1], r[2])
    BY PostsKept DEF Truth
  <2> QED BY <1>16, <2>1 DEF NoTieBreak, BreakTie, Truth, table, history
<1>17. CASE Record
  <2>1. /\ IsTrue(posts', row.progress) /\ IsTrue(posts', job.progress)
        /\ \A r \in recorded : OnHead(posts', r[1], r[2])
    BY PostsKept DEF Truth
  <2>2. at \in Spoken /\ Speakers(job.progress.verdict) \subseteq job.progress.posted
    BY <1>17 DEF Record, Spoken, ToPost
  <2>3. \A who \in Speakers(job.progress.verdict) : OnHead(posts', who, job.sha)
    BY <1>9, <2>2 DEF OnHead, Says
  <2>4. \A r \in recorded' : OnHead(posts', r[1], r[2])
    BY <1>17, <2>1, <2>3 DEF Record
  <2>5. job' = job /\ row' = row
    BY <1>17 DEF Record, history
  <2>6. at' = "tie" => {Barry, OB} \subseteq job.progress.posted /\ ~job.progress.tie_break
    BY <1>17, <2>2 DEF Record, Speakers
  <2>7. at' = "record_tie" => job.progress.tie_break
    BY <1>17 DEF Record
  <2>8. at' # "tie_reviewed"
    BY <1>17 DEF Record
  <2> QED BY <2>1, <2>4, <2>5, <2>6, <2>7, <2>8 DEF Truth
<1>18. CASE RecordTieBreak
  <2>1. /\ IsTrue(posts', row.progress) /\ IsTrue(posts', job.progress)
        /\ \A r \in recorded : OnHead(posts', r[1], r[2])
    BY PostsKept DEF Truth
  <2>2. at \in Spoken /\ job.progress.tie_break
    BY <1>18 DEF RecordTieBreak, Spoken, Truth
  <2>3. OnHead(posts', OOB, job.sha)
    BY <1>9, <2>2 DEF OnHead, Says
  <2>4. \A r \in recorded' : OnHead(posts', r[1], r[2])
    BY <1>18, <2>1, <2>3 DEF RecordTieBreak
  <2>5. job'.progress = job.progress /\ row' = row /\ at' = "outcome"
    BY <1>0, <1>18 DEF RecordTieBreak, JobSet, history
  <2> QED BY <1>9, <2>1, <2>2, <2>4, <2>5 DEF Truth
<1> QED BY <1>2, <1>3, <1>4, <1>7, <1>8, <1>10, <1>12, <1>13, <1>14, <1>15, <1>16, <1>17,
        <1>18, Zenon DEF Next, OnRack, Posting

(* Nothing leaves the exceptions, so what is settled stays settled.        *)
LEMMA ExceptionsGrow ==
    ASSUME TypeOK, Shape, Next PROVE strays \subseteq strays' /\ left \subseteq left'
<1> DEFINE Grow == strays \subseteq strays' /\ left \subseteq left'
<1>k. ASSUME strays' = strays, left' = left PROVE Grow
  BY <1>k
<1>s. ASSUME NEW S, strays' = strays \cup S, left' = left PROVE Grow
  BY <1>s
<1>3. ASSUME NEW e, Cancel(e), left' = left PROVE Grow
  BY <1>3, Zenon DEF Cancel
<1>4. ASSUME NEW e, DropGuard(e) PROVE Grow
  BY <1>3, <1>4, Zenon DEF DropGuard
<1>6. ASSUME DeleteRow, strays' = strays PROVE Grow
  BY <1>6, Zenon DEF DeleteRow
<1> SUFFICES Grow
  OBVIOUS
<1> HIDE DEF Grow
<1>5. ASSUME Dropped PROVE Grow
  BY <1>k, <1>s, <1>4, <1>5, Zenon DEF Dropped
<1>7. CASE Around \/ Setup \/ LoadProgress \/ LoadFails \/ CheckerFails \/ Sigterm
           \/ Ack \/ Retry \/ \E kind \in Kind : Decide(kind)
  BY <1>k, <1>6, <1>7, Zenon DEF Around, Push, ExperimentEnds, Merge, Purge, Setup, Lease,
     FetchContext, ListFiles, GiveUp, LoadProgress, LoadFails, CheckerFails, Sigterm,
     Ack, Retry, Decide, history
<1>8. CASE OnRack
  BY <1>k, <1>s, <1>3, <1>4, <1>8, Zenon DEF OnRack, Submit, Resume, Remember,
     RememberFails, Collected, Resubmit, ResubmitFails, NoReview, RackTimeout, PollFails, Clear,
     SubmitFrom, Go, history
<1>9. CASE Posting
  BY <1>k, <1>9, Zenon DEF Posting, Save, PostOnce, PostFails, Downgrade, Record,
     NoTieBreak, BreakTie, PostTieBreak, PostTieBreakFails, RecordTieBreak, history
<1>10. CASE HandBack \/ Abandon \/ Die
  BY <1>5, <1>s, <1>10, Zenon DEF HandBack, Abandon, Die
<1> QED BY <1>7, <1>8, <1>9, <1>10, Zenon DEF Next

(* An experiment that is over, or an exception, stays so.                  *)
LEMMA SettledKept ==
    ASSUME TypeOK, Shape, Next
    PROVE  /\ \A e \in Ids : Settled(e) => Over(lab', strays' \cup left', e)
           /\ \A e \in Ids : e \in strays' \cup left' => Over(lab', strays' \cup left', e)
           /\ \A e : e \notin Ids' => Over(lab', strays' \cup left', e)
           /\ Over(lab', strays' \cup left', 0)
<1>1. /\ \A e \in Ids : Running(e)' => Running(e)
      /\ Ids' \ {0} = DOMAIN lab' /\ 0 \notin DOMAIN lab'
  <2>1. lab \in Seq(Experiment) /\ LabMoves
    BY TypeParts, LabStep
  <2>2. lab' \in Seq(Experiment)
    BY <2>1, LabKept
  <2>3. Len(lab') \in Nat /\ DOMAIN lab' = 1 .. Len(lab')
    BY <2>2
  <2> QED BY <2>1, <2>3, LabKept DEF Ids
<1>2. strays \cup left \subseteq strays' \cup left'
  BY ExceptionsGrow
<1>3. \A e \in Ids : Settled(e) => Over(lab', strays' \cup left', e)
  BY <1>1, <1>2, Zenon DEF Settled, Over, Running
<1> QED BY <1>1, <1>3 DEF Over

(* Cancelled, or left to somebody else: the run is rid of its experiment.  *)
LEMMA Rid ==
    ASSUME lab \in Seq(Experiment), NEW e \in DOMAIN lab,
           (Cancel(e) /\ UNCHANGED left) \/ DropGuard(e)
    PROVE  Over(lab', strays' \cup left', e)
<1>1. CASE e \in strays' \cup left'
  BY <1>1 DEF Over
<1>2. CASE ~Running(e) /\ lab' = lab
  BY <1>2 DEF Over, Running
<1>3. CASE lab' = [lab EXCEPT ![e].state = "failed"]
  <2>1. lab[e] \in Experiment
    OBVIOUS
  <2>2. [lab[e] EXCEPT !.state = "failed"].state = "failed"
    BY <2>1 DEF Experiment
  <2>3. lab' = [lab EXCEPT ![e] = [lab[e] EXCEPT !.state = "failed"]]
    BY <1>3
  <2>4. lab'[e].state = "failed"
    BY <2>2, <2>3
  <2> QED BY <2>4 DEF Over
<1> QED BY <1>1, <1>2, <1>3 DEF Cancel, DropGuard

(* No step disowns an experiment that runs.                                *)
LEMMA OwnedStep ==
    ASSUME TypeOK, Shape, Owned, Next PROVE Owned'
<1> USE DEF Go
<1> DEFINE Away(e) == Over(lab', strays' \cup left', e)
           Busy    == {"submitted", "collect", "clear"}
<1>0. /\ job \in JobSet /\ row \in RowSet /\ lab \in Seq(Experiment)
      /\ row.experiment \in Ids /\ job.experiment \in Ids
      /\ Ids \ {0} = DOMAIN lab
      /\ at \in {"submitted", "collect"} => job.experiment \in DOMAIN lab
  BY TypeParts, Known, IdsAre DEF TableOK, Shape
<1>1. /\ \A e \in Ids : Settled(e) => Away(e)
      /\ \A e \in Ids : e \in strays' \cup left' => Away(e)
      /\ \A e : e \notin Ids' => Away(e)
      /\ Away(0)
  BY SettledKept
<1>2. Owned' <=> /\ \A e : \/ e = row'.experiment
                           \/ at' = "submitted" /\ e = job'.experiment
                           \/ Away(e)
                 /\ at' \in {"collect", "clear"} => row'.experiment = job'.experiment
                 /\ at' = "submitted" => Away(row'.experiment)
                 /\ at' \notin {"submitted", "collect"} => Away(job'.experiment)
  BY Zenon DEF Owned, Settled
<1> HIDE DEF Away
<1>3. ASSUME Ids' = Ids
      PROVE  \A e : e = row.experiment \/ (at = "submitted" /\ e = job.experiment) \/ Away(e)
  BY <1>1, <1>3 DEF Owned
<1>4. ASSUME lab' = lab \/ \E e \in DOMAIN lab, s \in {"done", "failed"} :
                             lab' = [lab EXCEPT ![e].state = s]
      PROVE  Ids' = Ids
  BY <1>0, <1>4 DEF Ids
<1>5. ASSUME Ids' = Ids, row'.experiment = row.experiment,
             job'.experiment = job.experiment,
             at' = at \/ (at \notin Busy /\ at' \notin Busy)
      PROVE  Owned'
  BY <1>0, <1>1, <1>2, <1>3, <1>5 DEF Owned
<1>6. CASE Push \/ Merge \/ \E e \in DOMAIN lab, s \in {"done", "failed"} : ExperimentEnds(e, s)
  <2>1. /\ lab' = lab \/ \E e \in DOMAIN lab, s \in {"done", "failed"} :
                             lab' = [lab EXCEPT ![e].state = s]
        /\ row' = row \/ row' = [row EXCEPT !.progress = None]
        /\ job' = job /\ at' = at
    BY <1>6, Zenon DEF Push, Merge, ExperimentEnds, table
  <2> QED BY <1>0, <1>4, <1>5, <2>1 DEF RowSet
<1>7. ASSUME DeleteRow, lab' = lab, strays' = strays, at' = "idle",
             job' = NoJob, at \notin {"submitted", "collect"}
      PROVE  Owned'
  <2>1. NoJob.experiment = 0 /\ Gone.experiment = 0
    BY DEF NoJob, Gone
  <2>2. row.experiment \in left' \/ row.experiment = 0 \/ row.experiment = job.experiment
    BY <1>7 DEF DeleteRow
  <2>3. Away(job.experiment)
    BY <1>0, <1>1, <1>7 DEF Owned
  <2>4. Away(row.experiment)
    BY <1>0, <1>1, <2>2, <2>3
  <2> QED BY <1>1, <1>2, <1>3, <1>4, <1>7, <2>1, <2>4 DEF DeleteRow
<1>8. CASE Purge \/ Ack
  <2>1. /\ DeleteRow /\ lab' = lab /\ strays' = strays /\ at' = "idle" /\ job' = NoJob
        /\ at \notin {"submitted", "collect"}
    BY <1>8 DEF Purge, Ack, Outcome, EndRun, Shape
  <2> QED BY <1>7, <2>1
<1>9. CASE Setup \/ LoadProgress \/ LoadFails \/ CheckerFails \/ \E kind \in Kind : Decide(kind)
  <2>1. /\ at \notin Busy /\ at' \notin Busy /\ lab' = lab
        /\ row' = row \/ row' = [row EXCEPT !.state = "leased"]
    BY <1>9 DEF Setup, Lease, FetchContext, ListFiles, GiveUp, LoadProgress, LoadFails,
       CheckerFails, Decide, table
  <2>2. job'.experiment = job.experiment
    BY <1>0, <1>9 DEF Setup, Lease, FetchContext, ListFiles, GiveUp, LoadProgress, LoadFails,
       CheckerFails, Decide, JobSet
  <2> QED BY <1>0, <1>4, <1>5, <2>1, <2>2 DEF RowSet
<1>10. CASE Posting \/ Sigterm
  <2>1. /\ at' = at \/ (at \notin Busy /\ at' \notin Busy) 
        /\ lab' = lab
        /\ row' = row \/ row' = [row EXCEPT !.progress = job.progress]
    BY <1>10 DEF Posting, Save, PostOnce, PostFails, Downgrade, Record, NoTieBreak, BreakTie,
       PostTieBreak, PostTieBreakFails, RecordTieBreak, Sigterm, table
  <2>2. job' = job \/ (\E o : job' = [job EXCEPT !.outcome = o])
                  \/ (\E p : job' = [job EXCEPT !.progress = p])
    BY <1>10, NewProgress, Zenon DEF Posting, Save, PostOnce, PostFails, Downgrade, Record,
       NoTieBreak, BreakTie, PostTieBreak, PostTieBreakFails, RecordTieBreak, Sigterm
  <2> QED BY <1>0, <1>4, <1>5, <2>1, <2>2 DEF RowSet, JobSet
<1>11. CASE Submit \/ Resubmit
  <2>1. /\ at \in {"verdict", "collect"} /\ at' = "submitted" /\ row' = row
        /\ lab' = Append(lab, [of |-> job.files, state |-> "running"])
        /\ job' = [job EXCEPT !.experiment = Len(lab) + 1, !.submits = @ + 1,
                              !.resumed = Resubmitted]
    BY <1>11 DEF Submit, Resubmit, SubmitFrom, table
  <2>2. Away(row.experiment)
    <3>1. CASE Submit
      BY <1>1, <3>1 DEF Submit
    <3>2. CASE Resubmit
      <4>1. ~Running(job.experiment) /\ row.experiment = job.experiment
        BY <3>2 DEF Resubmit, OfNoUse, SubmitFrom, Owned
      <4>2. Settled(row.experiment)
        BY <4>1 DEF Settled, Over, Running
      <4> QED BY <1>0, <1>1, <4>2
    <3> QED BY <1>11, <3>1, <3>2
  <2>3. Ids' = Ids \cup {Len(lab) + 1} /\ job'.experiment = Len(lab) + 1
    BY <1>0, <2>1 DEF Ids, JobSet
  <2>4. \A e \in Ids : Away(e)
    BY <1>1, <2>1, <2>2 DEF Owned
  <2> QED BY <1>1, <1>2, <2>1, <2>2, <2>3, <2>4
<1>12. CASE Resume \/ Remember \/ Clear \/ RememberFails
  <2>1. lab' = lab /\ Ids' = Ids
    BY <1>4, <1>12 DEF Resume, Remember, Clear, RememberFails
  <2>2. CASE Resume
    <3>1. row'.experiment = row.experiment /\ job'.experiment = row.experiment
          /\ at = "verdict" /\ at' = "collect"
      BY <1>0, <2>2 DEF Resume, JobSet, table
    <3> QED BY <1>2, <1>3, <2>1, <3>1
  <2>3. CASE Remember
    <3>1. row'.experiment = job.experiment /\ job' = job /\ at = "submitted" /\ at' = "collect"
      BY <1>0, <2>3 DEF Remember, RowSet
    <3>2. Away(row.experiment)
      BY <1>0, <1>1, <3>1 DEF Owned
    <3> QED BY <1>2, <1>3, <2>1, <3>1, <3>2
  <2>4. CASE Clear
    <3>1. row'.experiment \in {row.experiment, 0} /\ job' = job /\ at = "clear"
          /\ at' \in {"outcome", "save"}
      BY <1>0, <2>4 DEF Clear, RowSet
    <3>2. Away(job.experiment) /\ row.experiment = job.experiment
      BY <1>0, <1>1, <3>1 DEF Owned
    <3> QED BY <1>2, <1>3, <2>1, <3>1, <3>2
  <2>5. CASE RememberFails
    <3>1. row' = row /\ job' = job /\ at = "submitted" /\ at' = "outcome"
          /\ job.experiment \in strays'
      BY <2>5 DEF RememberFails, table
    <3>2. Away(job.experiment)
      BY <1>0, <1>1, <3>1
    <3> QED BY <1>2, <1>3, <2>1, <3>1, <3>2
  <2> QED BY <1>12, <2>2, <2>3, <2>4, <2>5
<1>13. ASSUME at = "collect", at' \in {"clear", "outcome", "end"}, row' = row, Ids' = Ids,
              job'.experiment = job.experiment, Away(job.experiment)
       PROVE  Owned'
  <2>1. row.experiment = job.experiment
    BY <1>13 DEF Owned
  <2> QED BY <1>2, <1>3, <1>13, <2>1
<1>14. CASE ResubmitFails \/ NoReview \/ \E kind \in Kind : Collected(kind)
  <2>1. /\ at = "collect" /\ at' \in {"clear", "outcome"} /\ row' = row /\ lab' = lab
        /\ ~Running(job.experiment)
    BY <1>14 DEF ResubmitFails, NoReview, Collected, OfNoUse, Running, table
  <2>2. job'.experiment = job.experiment
    BY <1>0, <1>14 DEF ResubmitFails, NoReview, Collected, JobSet
  <2>3. Settled(job.experiment)
    BY <2>1 DEF Settled, Over, Running
  <2> QED BY <1>0, <1>1, <1>4, <1>13, <2>1, <2>2, <2>3
<1>15. ASSUME NEW e \in DOMAIN lab, (Cancel(e) /\ UNCHANGED left) \/ DropGuard(e)
       PROVE  Ids' = Ids /\ Away(e)
  <2>1. Away(e)
    BY <1>0, <1>15, Rid DEF Away
  <2>2. lab' = lab \/ lab' = [lab EXCEPT ![e].state = "failed"]
    BY <1>15, Zenon DEF Cancel, DropGuard
  <2> QED BY <1>4, <2>1, <2>2
<1>16. CASE RackTimeout \/ PollFails
  <2>1. /\ at = "collect" /\ at' = "clear" /\ row' = row /\ job' = job
        /\ (Cancel(job.experiment) /\ UNCHANGED left) \/ DropGuard(job.experiment)
    BY <1>16, Zenon DEF RackTimeout, PollFails, table
  <2> QED BY <1>0, <1>13, <1>15, <2>1
<1>17. ASSUME Dropped
       PROVE  /\ Ids' = Ids
              /\ at \in {"collect", "submitted"} => Away(job.experiment)
  <2>1. CASE at = "collect"
    BY <1>0, <1>15, <1>17, <2>1 DEF Dropped
  <2>2. CASE at = "submitted"
    BY <1>0, <1>1, <1>4, <1>17, <2>2 DEF Dropped
  <2>3. CASE at \notin {"submitted", "collect"}
    BY <1>4, <1>17, <2>3 DEF Dropped
  <2> QED BY <2>1, <2>2, <2>3
<1>18. CASE Abandon
  <2>1. Dropped /\ at' \in {"end", "outcome"} /\ row' = row /\ job' = job
    BY <1>18 DEF Abandon, table
  <2>2. Away(job.experiment)
    BY <1>0, <1>1, <1>17, <2>1 DEF Owned
  <2> QED BY <1>2, <1>3, <1>17, <2>1, <2>2
<1>19. CASE HandBack \/ Die \/ Retry
  <2>1. /\ at' = "idle" /\ job'.experiment = 0
    BY <1>19 DEF HandBack, Die, Retry, NextProcess, EndRun, NoJob
  <2>2. row'.experiment = row.experiment
    BY <1>0, <1>19 DEF HandBack, Die, Retry, PutBack, RowSet, table
  <2>3. Ids' = Ids /\ (at = "submitted" => Away(job.experiment))
    <3>1. CASE HandBack
      BY <1>17, <3>1 DEF HandBack
    <3>2. CASE Die
      <4>1. lab' = lab /\ (at = "submitted" => job.experiment \in strays')
        BY <3>2 DEF Die
      <4> QED BY <1>0, <1>1, <1>4, <4>1
    <3>3. CASE Retry
      BY <1>4, <3>3 DEF Retry, Outcome
    <3> QED BY <1>19, <3>1, <3>2, <3>3
  <2> QED BY <1>1, <1>2, <1>3, <2>1, <2>2, <2>3
<1> QED BY <1>6, <1>8, <1>9, <1>10, <1>11, <1>12, <1>14, <1>16, <1>18, <1>19, Zenon
        DEF Next, Around, OnRack

(* Numbers, and what the flags and the posts are.                          *)
LEMMA Numbers ==
    ASSUME TypeOK, Shape
    PROVE  /\ head \in Nat /\ job.sha \in Nat /\ era \in Nat
           /\ row.progress.head \in Nat
           /\ posts \in Seq(Post)
           /\ \A i \in DOMAIN posts :
                 posts[i].commit \in Nat /\ posts[i].era \in Nat
           /\ lost \in BOOLEAN /\ unsaved \in BOOLEAN
<1>1. head \in Commit /\ job.sha \in Commit /\ Commit \subseteq Nat
  BY TypeParts, Known, ConstantTypes DEF Commit
<1>2. row.progress.head \in Nat
  <2>1. row.progress \in Progress \/ row.progress = None
    BY Known
  <2>2. row.progress.head \in Commit \/ row.progress.head = 0
    BY <2>1, ProgressFields
  <2>3. \A c \in Commit : c \in Nat
    BY <1>1
  <2> HIDE DEF Commit
  <2>4. CASE row.progress.head \in Commit
    BY <2>3, <2>4
  <2>5. CASE row.progress.head = 0
    BY <2>5
  <2> QED BY <2>2, <2>4, <2>5
<1>3. posts \in Seq(Post) /\ \A i \in DOMAIN posts : posts[i] \in Post
  BY TypeParts
<1>4. \A r \in Post : r.commit \in Nat /\ r.era \in Nat
  <2>1. \A r \in Post : r.commit \in Commit /\ r.era \in 1 .. MaxMerges + 1
    BY DEF Post
  <2>2. 1 .. MaxMerges + 1 \subseteq Nat
    BY ConstantTypes
  <2> QED BY <1>1, <2>1, <2>2
<1>5. era \in Nat /\ lost \in BOOLEAN /\ unsaved \in BOOLEAN
  BY TypeParts, ConstantTypes DEF HistoryOK
<1> QED BY <1>1, <1>2, <1>3, <1>4, <1>5

(* What is posted is covered by the run's progress once it lists it.       *)
LEMMA Lists ==
    ASSUME NEW p \in Progress, NEW q \in Progress, NEW r,
           q.head = p.head, q.verdict.run = p.verdict.run,
           p.posted \subseteq q.posted, p.tie_break => q.tie_break,
           Covers(p, r)
    PROVE  Covers(q, r)
BY ProgressFields DEF Covers, Listed

(* One review by each Barry, as of the posts alone.                        *)
Once(ps) ==
    \A i, j \in DOMAIN ps :
        ps[i].commit = ps[j].commit /\ ps[i].era = ps[j].era =>
            /\ ps[i].run = ps[j].run
            /\ ps[i].who = ps[j].who => i = j

(* That is OneReviewEach, but for what is lost.                            *)
LEMMA OnceIs ==
    /\ OneReviewEach <=> (lost \/ Once(posts))
    /\ OneReviewEach' <=> (lost' \/ Once(posts'))
BY Zenon DEF OneReviewEach, Once

(* A step that posts nothing keeps it.                                     *)
LEMMA OnceKept ==
    ASSUME OneReviewEach, posts' = posts, lost => lost'
    PROVE  OneReviewEach'
BY OnceIs

(* What the row and the run cover, no step spoils.                         *)
LEMMA UnspoiledStep ==
    ASSUME TypeOK, Shape, Truth, Unspoiled, Next PROVE Unspoiled'
<1> USE DEF Go
<1> DEFINE Looking == Decides \cup {"files", "load"}
<1>0. /\ job \in JobSet /\ row \in RowSet
      /\ Heads /\ RowCovers /\ RunCovers /\ OneReviewEach
  BY TypeParts DEF TableOK, Unspoiled
<1>1. ASSUME UNCHANGED <<posts, era, lost, unsaved>>, head' = head \/ head' = head + 1,
             row'.progress = row.progress, row'.state # "gone" => row.state # "gone",
             job'.progress = job.progress, job'.sha = job.sha,
             at' \in Decides => at \in Decides, at' \in Looking => at \in Looking
      PROVE  Unspoiled'
  <2>1. Heads'
    BY <1>0, <1>1, Numbers DEF Heads
  <2>2. RowCovers'
    BY <1>0, <1>1, Zenon DEF RowCovers
  <2>3. RunCovers'
    BY <1>0, <1>1, Zenon DEF RunCovers
  <2>4. OneReviewEach'
    BY <1>0, <1>1, OnceKept
  <2> QED BY <2>1, <2>2, <2>3, <2>4 DEF Unspoiled
<1>2. ASSUME UNCHANGED <<posts, era, head>>, lost' = FALSE => lost = FALSE,
             at' \notin Looking,
             \/ row' = Gone
             \/ /\ row'.progress = row.progress
                /\ row'.state # "gone" /\ lost' = FALSE /\ unsaved' = FALSE =>
                       row.state # "gone" /\ lost = FALSE /\ unsaved = FALSE
      PROVE  Unspoiled'
  <2>1. Gone.progress.head = 0 /\ Gone.state = "gone"
    BY DEF Gone, None
  <2>2. Heads'
    BY <1>0, <1>2, <2>1, Numbers DEF Heads
  <2>3. RowCovers'
    BY <1>0, <1>2, <2>1, Zenon DEF RowCovers
  <2>4. RunCovers'
    BY <1>2, Zenon DEF RunCovers
  <2>5. OneReviewEach'
    <3>1. lost => lost'
      BY <1>2, Numbers
    <3> QED BY <1>0, <1>2, <3>1, OnceKept
  <2> QED BY <2>2, <2>3, <2>4, <2>5 DEF Unspoiled
<1>3. CASE Push \/ (\E e \in DOMAIN lab, s \in {"done", "failed"} : ExperimentEnds(e, s)) \/ Sigterm
  <2>1. /\ UNCHANGED <<posts, era, lost, unsaved, row, job, at>>
        /\ head' = head \/ head' = head + 1
    BY <1>3, Zenon DEF Push, ExperimentEnds, Sigterm, table, history
  <2> QED BY <1>1, <2>1
<1>4. CASE Merge
  <2>1. /\ at = "idle" /\ at' = "idle" /\ UNCHANGED <<posts, head, lost>>
        /\ era' = era + 1 /\ row'.progress = None
    BY <1>0, <1>4 DEF Merge, RowSet, Shape
  <2>2. \A i \in DOMAIN posts : posts[i].era <= era' /\ posts[i].era # era'
    BY <1>0, <2>1, Numbers DEF Heads
  <2>3. at' \notin Looking
    BY <2>1 DEF Decides, Spoken
  <2>4. Heads'
    BY <1>0, <2>1, <2>2, <2>3, Numbers, ProgressFields DEF Heads
  <2>5. RowCovers' /\ RunCovers'
    BY <2>1, <2>2, Zenon DEF RowCovers, RunCovers
  <2>6. OneReviewEach'
    BY <1>0, <2>1, OnceKept
  <2> QED BY <2>4, <2>5, <2>6 DEF Unspoiled
<1>5. CASE Purge \/ Ack
  <2>1. /\ UNCHANGED <<posts, era, head, lost>> /\ row' = Gone /\ at' = "idle"
    BY <1>5 DEF Purge, Ack, DeleteRow, EndRun, Shape
  <2>2. at' \notin Looking
    BY <2>1 DEF Decides, Spoken
  <2> QED BY <1>2, <2>1, <2>2
<1>6. CASE Retry \/ HandBack \/ Die
  <2>1. /\ UNCHANGED <<posts, era, head>> /\ lost' = (lost \/ unsaved) /\ at' = "idle"
        /\ row' = row \/ (at # "idle" /\ \E s : row' = [row EXCEPT !.state = s])
    BY <1>6, Zenon DEF Retry, HandBack, Die, NextProcess, EndRun, PutBack, Forgets, table,
       Outcome
  <2>2. at' \notin Looking
    BY <2>1 DEF Decides, Spoken
  <2>3. lost' = FALSE => lost = FALSE /\ unsaved = FALSE
    BY <2>1, Numbers
  <2>4. row'.progress = row.progress
    BY <1>0, <2>1 DEF RowSet
  <2>5. row'.state # "gone" => row.state # "gone"
    BY <2>1 DEF Shape
  <2> QED BY <1>2, <2>1, <2>2, <2>3, <2>4, <2>5
<1>7. CASE Lease \/ ListFiles \/ GiveUp \/ CheckerFails \/ Abandon \/ Record \/ NoTieBreak
           \/ BreakTie \/ RecordTieBreak
  <2>1. /\ UNCHANGED <<posts, era, lost, unsaved, head>>
        /\ row' = row \/ (row.state # "gone" /\ row' = [row EXCEPT !.state = "leased"])
        /\ job' = job \/ job' = [job EXCEPT !.files = head]
                      \/ job' = [job EXCEPT !.outcome = "decided"]
    BY <1>7 DEF Lease, ListFiles, GiveUp, CheckerFails, Abandon, Record, NoTieBreak,
       BreakTie, RecordTieBreak, table, history
  <2>2. /\ at' \in Decides => at \in Decides
        /\ at' \in Looking => at \in Looking
    BY <1>7 DEF Lease, ListFiles, GiveUp, CheckerFails, Abandon, Record, NoTieBreak,
       BreakTie, RecordTieBreak, Decides, Spoken
  <2>3. /\ row'.progress = row.progress /\ (row'.state # "gone" => row.state # "gone")
        /\ job'.progress = job.progress /\ job'.sha = job.sha
    BY <1>0, <2>1 DEF RowSet, JobSet
  <2> QED BY <1>1, <2>1, <2>2, <2>3
<1>8. CASE Submit \/ Resume \/ Remember \/ RememberFails \/ Resubmit \/ ResubmitFails
           \/ NoReview \/ RackTimeout \/ PollFails \/ Clear
  <2>1. /\ UNCHANGED <<posts, era, lost, unsaved, head>>
        /\ row' = row \/ \E e : row' = [row EXCEPT !.experiment = e]
        /\ at \in Decides
    BY <1>8 DEF Submit, Resume, Remember, RememberFails, Resubmit, ResubmitFails,
       NoReview, RackTimeout, PollFails, Clear, SubmitFrom, Decides, table, history
  <2>2. job'.progress = job.progress /\ job'.sha = job.sha
    BY <1>0, <1>8 DEF Submit, Resume, Remember, RememberFails, Resubmit, ResubmitFails,
       NoReview, RackTimeout, PollFails, Clear, SubmitFrom, JobSet
  <2>3. row'.progress = row.progress /\ (row'.state # "gone" => row.state # "gone")
    BY <1>0, <2>1 DEF RowSet
  <2> QED BY <1>1, <2>1, <2>2, <2>3
<1>9. CASE FetchContext
  <2>1. /\ UNCHANGED <<posts, era, lost, unsaved, head, row>> /\ at' = "files"
        /\ job'.sha = head
    BY <1>0, <1>9 DEF FetchContext, JobSet, table, history
  <2>2. at' \notin Decides
    BY <2>1 DEF Decides, Spoken
  <2>3. Heads'
    BY <1>0, <2>1, Numbers DEF Heads
  <2>4. RowCovers' /\ RunCovers'
    BY <1>0, <2>1, <2>2, Zenon DEF RowCovers, RunCovers
  <2>5. OneReviewEach'
    BY <1>0, <2>1, OnceKept
  <2> QED BY <2>3, <2>4, <2>5 DEF Unspoiled
<1>10. CASE LoadFails
  <2>1. /\ UNCHANGED <<posts, era, head, row, job>> /\ lost' = TRUE
        /\ at \in Looking
    BY <1>10 DEF LoadFails, table
  <2>2. Heads'
    BY <1>0, <2>1, Zenon DEF Heads
  <2> QED BY <2>1, <2>2 DEF Unspoiled, RowCovers, RunCovers, OneReviewEach
<1>11. CASE LoadProgress
  <2>1. /\ UNCHANGED <<posts, era, lost, unsaved, head, row>> /\ at = "load"
        /\ job'.sha = job.sha /\ unsaved = FALSE /\ row.state # "gone"
        /\ job.progress = None
        /\ \/ row.progress.head = job.sha /\ job'.progress = row.progress
           \/ row.progress.head # job.sha /\ job'.progress = job.progress
    BY <1>0, <1>11 DEF LoadProgress, Resumes, Shape, Early, JobSet, table, history
  <2>2. Heads' /\ row.progress.head <= job.sha
    BY <1>0, <2>1, Zenon DEF Heads
  <2>3. RowCovers'
    BY <1>0, <2>1, Zenon DEF RowCovers
  <2>4. RunCovers'
    <3> SUFFICES ASSUME lost = FALSE, NEW i \in DOMAIN posts, posts[i].era = era
                 PROVE  posts[i].commit < job.sha \/ Covers(job'.progress, posts[i])
      BY <2>1 DEF RunCovers
    <3>1. Covers(row.progress, posts[i])
      BY <1>0, <2>1 DEF RowCovers
    <3>2. posts[i].commit <= row.progress.head
      BY <3>1 DEF Covers
    <3> QED BY <2>1, <2>2, <3>1, <3>2, Numbers
  <2>5. OneReviewEach'
    BY <1>0, <2>1, OnceKept
  <2> QED BY <2>2, <2>3, <2>4, <2>5 DEF Unspoiled
<1>12. ASSUME at \in Decides, at' \in Decides, UNCHANGED <<posts, era, lost, unsaved, head, row>>,
              job'.sha = job.sha,
              \A r : Covers(job.progress, r) => Covers(job'.progress, r)
       PROVE  Unspoiled'
  <2>1. Heads'
    BY <1>0, <1>12 DEF Heads
  <2>2. RowCovers' /\ RunCovers'
    BY <1>0, <1>12, Zenon DEF RowCovers, RunCovers
  <2>3. OneReviewEach'
    BY <1>0, <1>12, OnceKept
  <2> QED BY <2>1, <2>2, <2>3 DEF Unspoiled
<1>13. ASSUME NEW kind \in Kind, Decide(kind) \/ Collected(kind) PROVE Unspoiled'
  <2>1. /\ at \in {"verdict", "collect"} /\ at' \in {"save", "clear"}
        /\ UNCHANGED <<posts, era, lost, unsaved, head, row>>
        /\ job'.sha = job.sha
    BY <1>0, <1>13 DEF Decide, Collected, JobSet, table, history
  <2>2. job.progress = None
    BY <2>1 DEF Shape, Early
  <2> QED BY <1>12, <2>1, <2>2 DEF Covers, Decides, Spoken
<1>14. ASSUME at \in Spoken
       PROVE  job.progress \in Progress /\ job.progress.head = job.sha
  BY <1>14, Known DEF Shape
<1>15. CASE Downgrade
  <2> DEFINE v == [job.progress.verdict EXCEPT !.kind = "alone"]
             q == [job.progress EXCEPT !.verdict = v]
  <2>1. at \in Spoken /\ at' = "save"
    BY <1>15 DEF Downgrade, Spoken
  <2>2. v \in Verdict /\ v.run = job.progress.verdict.run
    BY <1>14, <2>1 DEF Progress, Verdict, Kind
  <2>3. job' = [job EXCEPT !.progress = q]
    BY <1>15, NewProgress
  <2> HIDE DEF v
  <2>4. /\ q \in Progress /\ q.head = job.progress.head /\ q.verdict = v
        /\ q.posted = job.progress.posted /\ q.tie_break = job.progress.tie_break
    BY <1>14, <2>1, <2>2 DEF Progress
  <2> HIDE DEF q
  <2>5. \A r : Covers(job.progress, r) => Covers(q, r)
    BY <1>14, <2>1, <2>2, <2>4, Lists
  <2>6. job'.progress = q /\ job'.sha = job.sha
    BY <1>0, <2>3 DEF JobSet
  <2>7. UNCHANGED <<posts, era, lost, unsaved, head, row>>
    BY <1>15 DEF Downgrade, table, history
  <2> QED BY <1>12, <2>1, <2>5, <2>6, <2>7 DEF Decides, Spoken
<1>16. CASE Save
  <2>1. /\ UNCHANGED <<posts, era, lost, head, job>> /\ at = "save"
        /\ at' \in {"posting", "record_tie"}
        /\ \/ row'.progress = job.progress
           \/ row' = row /\ unsaved' = unsaved
    BY <1>0, <1>16 DEF Save, RowSet
  <2>2. /\ job.progress \in Progress /\ job.progress # None /\ job.progress.head = job.sha
        /\ at \in Decides /\ at' \in Decides
    BY <1>14, <2>1, ProgressFields DEF Decides, Spoken
  <2>3. Heads'
    BY <1>0, <2>1, <2>2, Numbers DEF Heads
  <2>4. RunCovers'
    BY <1>0, <2>1, <2>2, Zenon DEF RunCovers
  <2>5. RowCovers'
    <3>1. CASE row' = row /\ unsaved' = unsaved
      BY <1>0, <2>1, <3>1, Zenon DEF RowCovers
    <3>2. CASE row'.progress = job.progress
      <4> SUFFICES ASSUME lost = FALSE, NEW i \in DOMAIN posts, posts[i].era = era
                   PROVE  Covers(job.progress, posts[i])
        BY <2>1, <3>2 DEF RowCovers
      <4>1. posts[i].commit < job.sha \/ Covers(job.progress, posts[i])
        BY <1>0, <2>2 DEF RunCovers
      <4>2. ASSUME posts[i].commit < job.sha PROVE Covers(job.progress, posts[i])
        BY <2>2, <4>2, Numbers DEF Covers
      <4> QED BY <4>1, <4>2
    <3> QED BY <2>1, <3>1, <3>2
  <2>6. OneReviewEach'
    BY <1>0, <2>1, OnceKept
  <2> QED BY <2>3, <2>4, <2>5, <2>6 DEF Unspoiled
<1>17. ASSUME NEW r \in Post, posts' = Append(posts, r), at \in {"posting", "tie_reviewed"},
              r.commit = job.sha, r.run = job.progress.verdict.run, r.era = era,
              ~Listed(r.who, job.progress),
              UNCHANGED <<era, lost, head, row>>, unsaved' = TRUE,
              \/ at' = "outcome"
              \/ /\ job'.sha = job.sha /\ at' \in Decides
                 /\ \A t : Covers(job.progress, t) => Covers(job'.progress, t)
                 /\ Covers(job'.progress, r)
       PROVE  Unspoiled'
  <2>1. /\ at \in Decides /\ job.progress \in Progress /\ job.progress # None
        /\ job.progress.head = job.sha
    BY <1>14, <1>17, ProgressFields DEF Decides, Spoken
  <2>2. \A i \in DOMAIN posts' :
           \/ i \in DOMAIN posts /\ posts'[i] = posts[i]
           \/ i = Len(posts) + 1 /\ posts'[i] = r
    BY <1>17, Numbers
  <2>3. "outcome" \notin Looking
    BY DEF Decides, Spoken
  <2>4. Heads'
    <3>1. \A i \in DOMAIN posts' : posts'[i].era <= era
      <4> SUFFICES ASSUME NEW i \in DOMAIN posts' PROVE posts'[i].era <= era
        OBVIOUS
      <4>1. era <= era
        BY Numbers
      <4> QED BY <1>0, <1>17, <2>2, <4>1 DEF Heads
    <3>2. row.progress.head <= head /\ row.progress.head <= job.sha /\ job.sha <= head
      BY <1>0, <2>1 DEF Heads
    <3> QED BY <1>17, <2>3, <3>1, <3>2 DEF Heads
  <2>5. RowCovers'
    BY <1>17 DEF RowCovers
  <2>6. \A i \in DOMAIN posts : lost = FALSE /\ posts[i].era = era =>
            posts[i].commit < job.sha \/ Covers(job.progress, posts[i])
    BY <1>0, <2>1 DEF RunCovers
  <2>7. RunCovers'
    <3>1. CASE at' = "outcome"
      BY <2>3, <3>1 DEF RunCovers
    <3>2. CASE /\ job'.sha = job.sha
               /\ \A t : Covers(job.progress, t) => Covers(job'.progress, t)
               /\ Covers(job'.progress, r)
      <4> SUFFICES ASSUME lost = FALSE, NEW i \in DOMAIN posts', posts'[i].era = era
                   PROVE  posts'[i].commit < job.sha \/ Covers(job'.progress, posts'[i])
        BY <1>17, <3>2, Zenon DEF RunCovers
      <4>1. CASE i \in DOMAIN posts /\ posts'[i] = posts[i]
        BY <2>6, <3>2, <4>1
      <4>2. CASE posts'[i] = r
        BY <3>2, <4>2
      <4> QED BY <2>2, <4>1, <4>2
    <3> QED BY <1>17, <3>1, <3>2
  <2>8. OneReviewEach'
    <3> SUFFICES ASSUME ~lost, NEW i \in DOMAIN posts', NEW j \in DOMAIN posts',
                        posts'[i].commit = posts'[j].commit, posts'[i].era = posts'[j].era
                 PROVE  posts'[i].run = posts'[j].run /\ (posts'[i].who = posts'[j].who => i = j)
      <4>1. ~lost => Once(posts')
        BY Zenon DEF Once
      <4> QED BY <1>17, <4>1, OnceIs
    <3>0. Once(posts)
      BY <1>0, OnceIs
    <3>1. ASSUME NEW k \in DOMAIN posts, posts[k].commit = r.commit, posts[k].era = r.era
          PROVE  posts[k].run = r.run /\ posts[k].who # r.who
      <4>1. lost = FALSE
        BY Numbers
      <4>2. Covers(job.progress, posts[k])
        BY <1>17, <2>6, <3>1, <4>1, Numbers
      <4> QED BY <1>17, <2>1, <3>1, <4>2 DEF Covers
    <3>2. CASE /\ i \in DOMAIN posts /\ posts'[i] = posts[i]
               /\ j \in DOMAIN posts /\ posts'[j] = posts[j]
      <4>1. posts[i].commit = posts[j].commit /\ posts[i].era = posts[j].era
        BY <3>2
      <4>2. posts[i].run = posts[j].run /\ (posts[i].who = posts[j].who => i = j)
        BY <3>0, <3>2, <4>1, Zenon DEF Once
      <4> QED BY <3>2, <4>2
    <3>3. CASE i \in DOMAIN posts /\ posts'[i] = posts[i] /\ j = Len(posts) + 1 /\ posts'[j] = r
      BY <3>1, <3>3
    <3>4. CASE i = Len(posts) + 1 /\ posts'[i] = r /\ j \in DOMAIN posts /\ posts'[j] = posts[j]
      BY <3>1, <3>4
    <3>5. CASE i = Len(posts) + 1 /\ j = Len(posts) + 1
      BY <3>5
    <3> QED BY <2>2, <3>2, <3>3, <3>4, <3>5
  <2> QED BY <2>4, <2>5, <2>7, <2>8 DEF Unspoiled
<1>18. ASSUME NEW who \in {Barry, OB, OOB}, NEW of \in Commit, Landed(who, of), at \in Spoken
       PROVE  \E r \in Post :
                 /\ posts' = Append(posts, r) /\ unsaved' = TRUE
                 /\ r.who = who /\ r.commit = job.sha /\ r.era = era
                 /\ r.run = job.progress.verdict.run
  <2> DEFINE r == [who |-> who, commit |-> job.sha, of |-> of,
                   run |-> job.progress.verdict.run, era |-> era]
  <2>1. job.sha \in Commit /\ job.progress.verdict \in Verdict /\ era \in 1 .. MaxMerges + 1
    BY <1>14, <1>18, Known, ProgressFields, TypeParts DEF HistoryOK
  <2>2. job.progress.verdict.run \in 1 .. MaxLeases
    BY <2>1 DEF Verdict
  <2>3. r \in Post
    BY <2>1, <2>2 DEF Post
  <2>4. posts' = Append(posts, r) /\ unsaved' = TRUE
    BY <1>18 DEF Landed
  <2>5. r.who = who /\ r.commit = job.sha /\ r.era = era /\ r.run = job.progress.verdict.run
    OBVIOUS
  <2> HIDE DEF r
  <2> QED BY <2>3, <2>4, <2>5
<1>19. ASSUME NEW who \in {Barry, OB}, Turn(who) PROVE ~Listed(who, job.progress)
  BY <1>19 DEF Turn, ToPost, Listed, Barry, OB, OOB
<1>20. at = "posting" => job.progress.verdict.of \in Commit
  BY <1>14, ProgressFields DEF Spoken, Verdict
<1>21. ASSUME NEW who \in {Barry, OB}, PostOnce(who) PROVE Unspoiled'
  <2> DEFINE q == [job.progress EXCEPT !.posted = @ \cup {who}]
  <2>1. /\ at = "posting" /\ at' = "save" /\ Landed(who, job.progress.verdict.of)
        /\ UNCHANGED <<era, lost, head, row>> /\ ~Listed(who, job.progress)
    BY <1>19, <1>21 DEF PostOnce, table
  <2>2. PICK r \in Post :
           /\ posts' = Append(posts, r) /\ unsaved' = TRUE
           /\ r.who = who /\ r.commit = job.sha /\ r.era = era
           /\ r.run = job.progress.verdict.run
    BY <1>18, <1>20, <2>1 DEF Spoken
  <2>3. job.progress \in Progress /\ job.progress.head = job.sha
    BY <1>14, <2>1 DEF Spoken
  <2>4. /\ q \in Progress /\ q.head = job.progress.head /\ q.verdict = job.progress.verdict
        /\ q.posted = job.progress.posted \cup {who}
        /\ q.tie_break = job.progress.tie_break
    BY <2>3 DEF Progress
  <2>5. job' = [job EXCEPT !.progress = q]
    BY <1>21, NewProgress
  <2> HIDE DEF q
  <2>6. \A t : Covers(job.progress, t) => Covers(q, t)
    BY <2>3, <2>4, Lists
  <2>7. Covers(q, r)
    BY <2>2, <2>3, <2>4, Numbers, ProgressFields DEF Covers, Listed
  <2>8. job'.progress = q /\ job'.sha = job.sha
    BY <1>0, <2>5 DEF JobSet
  <2>9. at' \in Decides
    BY <2>1 DEF Decides, Spoken
  <2> QED BY <1>17, <2>1, <2>2, <2>6, <2>7, <2>8, <2>9
<1>22. ASSUME at = "tie_reviewed" PROVE ~Listed(OOB, job.progress)
  <2>1. job.progress.posted \subseteq {Barry, OB}
    BY <1>14, <1>22, ProgressFields DEF Spoken
  <2> QED BY <1>22, <2>1 DEF Truth, Listed, Barry, OB, OOB
<1>23. CASE PostTieBreak
  <2> DEFINE q == [job.progress EXCEPT !.tie_break = TRUE]
  <2>1. /\ at = "tie_reviewed" /\ at' = "save" /\ Landed(OOB, job.files)
        /\ UNCHANGED <<era, lost, head, row>> /\ ~Listed(OOB, job.progress)
    BY <1>22, <1>23 DEF PostTieBreak, table
  <2>2. PICK r \in Post :
           /\ posts' = Append(posts, r) /\ unsaved' = TRUE
           /\ r.who = OOB /\ r.commit = job.sha /\ r.era = era
           /\ r.run = job.progress.verdict.run
    BY <1>18, <2>1, Known DEF Spoken
  <2>3. job.progress \in Progress /\ job.progress.head = job.sha
    BY <1>14, <2>1 DEF Spoken
  <2>4. /\ q \in Progress /\ q.head = job.progress.head /\ q.verdict = job.progress.verdict
        /\ q.posted = job.progress.posted /\ q.tie_break = TRUE
    BY <2>3 DEF Progress
  <2>5. job' = [job EXCEPT !.progress = q]
    BY <1>23, NewProgress
  <2> HIDE DEF q
  <2>6. \A t : Covers(job.progress, t) => Covers(q, t)
    BY <2>3, <2>4, Lists
  <2>7. Covers(q, r)
    BY <2>2, <2>3, <2>4, Numbers, ProgressFields DEF Covers, Listed
  <2>8. job'.progress = q /\ job'.sha = job.sha
    BY <1>0, <2>5 DEF JobSet
  <2>9. at' \in Decides
    BY <2>1 DEF Decides, Spoken
  <2> QED BY <1>17, <2>1, <2>2, <2>6, <2>7, <2>8, <2>9
<1>24. ASSUME \/ PostTieBreakFails
              \/ \E who \in {Barry, OB} : PostFails(who)
       PROVE  Unspoiled'
  <2>1. PICK who \in {Barry, OB, OOB}, of \in Commit :
           /\ Landed(who, of) \/ UNCHANGED <<posts, unsaved>>
           /\ ~Listed(who, job.progress)
    BY <1>19, <1>20, <1>22, <1>24, Known DEF PostTieBreakFails, PostFails
  <2>2. /\ at \in {"posting", "tie_reviewed"} /\ at' = "outcome"
        /\ UNCHANGED <<era, lost, head, row>>
    BY <1>24 DEF PostTieBreakFails, PostFails, table
  <2>3. CASE Landed(who, of)
    <3>1. PICK r \in Post :
             /\ posts' = Append(posts, r) /\ unsaved' = TRUE
             /\ r.who = who /\ r.commit = job.sha /\ r.era = era
             /\ r.run = job.progress.verdict.run
      BY <1>18, <2>2, <2>3 DEF Spoken
    <3> QED BY <1>17, <2>1, <2>2, <3>1
  <2>4. CASE UNCHANGED <<posts, unsaved>>
    <3>1. at' \notin Looking
      BY <2>2 DEF Decides, Spoken
    <3> QED BY <1>2, <2>2, <2>4, <3>1
  <2> QED BY <2>1, <2>3, <2>4
<1> QED BY <1>3, <1>4, <1>5, <1>6, <1>7, <1>8, <1>9, <1>10, <1>11, <1>13, <1>15, <1>16,
        <1>21, <1>23, <1>24, Zenon DEF Next, Around, Setup, OnRack, Posting

-----------------------------------------------------------------------------
(* The invariant holds at first.                                           *)
LEMMA InitCorrect == Init => ReviewInv
<1> SUFFICES ASSUME Init PROVE ReviewInv
  OBVIOUS
<1>0. /\ NoJob.experiment = 0 /\ NoJob.progress = None /\ NoJob.resumed = FALSE
      /\ NoJob.outcome = "none" /\ row.progress = None /\ row.experiment = 0
      /\ row.state = "pending" /\ job = NoJob /\ at = "idle" /\ posts = <<>> /\ lab = <<>>
      /\ recorded = {} /\ unsaved = FALSE
  BY DEF NoJob, Init
<1>1. TypeOK
  <2>1. 1 \in Commit /\ Len(<<>>) = 0 /\ 0 \in 0 .. 0 /\ 0 \in 0 .. 1
        /\ 1 \in 1 .. MaxMerges + 1 /\ 0 \in 0 .. MaxLeases
    BY ConstantTypes DEF Commit
  <2>2. <<>> \in Seq(Post) /\ <<>> \in Seq(Experiment)
    OBVIOUS
  <2>3. Ids = 0 .. 0
    BY <1>0, <2>1 DEF Ids
  <2>4. TableOK /\ job \in JobSet
    BY <1>0, <2>1, <2>3 DEF Init, TableOK, RowSet, JobSet, NoJob
  <2>5. ProcessOK
    BY DEF Init, ProcessOK
  <2>6. HistoryOK
    BY <2>1 DEF Init, HistoryOK
  <2> QED BY <2>1, <2>2, <2>4, <2>5, <2>6, TypeParts DEF Init
<1>2. Shape
  BY <1>0 DEF Shape, Early, Spoken
<1>3. Truth
  BY <1>0 DEF Truth, IsTrue
<1>4. Owned
  BY <1>0 DEF Owned, Settled, Over
<1>5. Unspoiled
  <2>1. DOMAIN posts = {}
    BY <1>0
  <2>2. Heads
    BY <1>0, <2>1, ProgressFields DEF Init, Heads, Decides, Spoken
  <2>3. RowCovers /\ RunCovers
    BY <2>1, Zenon DEF RowCovers, RunCovers
  <2>4. OneReviewEach
    BY <2>1, Zenon DEF OneReviewEach
  <2> QED BY <2>2, <2>3, <2>4 DEF Unspoiled
<1> QED BY <1>1, <1>2, <1>3, <1>4, <1>5 DEF ReviewInv

(* No step breaks it.                                                      *)
LEMMA StepCorrect == ReviewInv /\ [Next]_vars => ReviewInv'
<1>1. CASE ReviewInv /\ Next
  BY <1>1, TypeStep, ShapeStep, TruthStep, OwnedStep, UnspoiledStep DEF ReviewInv
<1>2. CASE ReviewInv /\ UNCHANGED vars
  <2> USE DEF vars, table, history
  <2>1. TypeOK'
    BY <1>2 DEF ReviewInv, TypeOK
  <2>2. Shape'
    BY <1>2, Zenon DEF ReviewInv, Shape
  <2>3. Truth'
    BY <1>2, Zenon DEF ReviewInv, Truth
  <2>4. Owned'
    BY <1>2, Zenon DEF ReviewInv, Owned, Settled
  <2>5. Heads' /\ RowCovers' /\ RunCovers'
    BY <1>2, Zenon DEF ReviewInv, Unspoiled, Heads, RowCovers, RunCovers
  <2>6. OneReviewEach'
    BY <1>2, OnceKept DEF ReviewInv, Unspoiled
  <2> QED BY <2>1, <2>2, <2>3, <2>4, <2>5, <2>6 DEF ReviewInv, Unspoiled
<1> QED BY <1>1, <1>2

(* So it always holds.                                                     *)
LEMMA Invariance == Spec => []ReviewInv
BY InitCorrect, StepCorrect, PTL DEF Spec

(* A run has what its step needs, submits once at most, and the exceptions *)
(* are experiments there have been (rack/mod.rs:425).                      *)
THEOREM Typing == Spec => []TypeOK
<1>1. ReviewInv => TypeOK
  BY DEF ReviewInv
<1> QED BY <1>1, Invariance, PTL

(* What the row's progress and multi_review_runs say was posted was        *)
(* (multi_review/mod.rs, save_progress; storage/actor.rs).                 *)
THEOREM RecordsStayTrue == Spec => []RecordsAreTrue
<1>1. ReviewInv => RecordsAreTrue
  <2> SUFFICES ASSUME ReviewInv PROVE RecordsAreTrue
    OBVIOUS
  <2>1. IsTrue(posts, row.progress) /\ \A r \in recorded : OnHead(posts, r[1], r[2])
    BY DEF ReviewInv, Truth
  <2>2. \A r \in recorded : OnGitHub(r[1], r[2])
    BY <2>1, Zenon DEF OnHead, OnGitHub
  <2>3. \A who, p : Says(posts, who, p) => OfVerdict(who, p)
    BY Zenon DEF Says, OfVerdict
  <2> QED BY <2>1, <2>2, <2>3, Zenon DEF IsTrue, RecordsAreTrue
<1> QED BY <1>1, Invariance, PTL

(* "A resumed job does not post Barry's or Other Barry's review again"     *)
(* (README.md), whatever process resumes it and however often, unless a    *)
(* post was not saved.                                                     *)
THEOREM ReviewsAreOneEach == Spec => []OneReviewEach
<1>1. ReviewInv => OneReviewEach
  BY DEF ReviewInv, Unspoiled
<1> QED BY <1>1, Invariance, PTL

(* A tie-break that decides is of three reviews that are on the head       *)
(* (multi_review/mod.rs, the tie-break's outcome).                         *)
THEOREM DecisionsArePosted == Spec => []DecidedIsPosted
<1>1. ReviewInv => DecidedIsPosted
  <2> SUFFICES ASSUME ReviewInv, job.outcome = "decided"
               PROVE  \A who \in {Barry, OB, OOB} : OfVerdict(who, job.progress)
    BY DEF DecidedIsPosted
  <2>1. /\ IsTrue(posts, job.progress) /\ job.progress # None /\ job.progress.tie_break
    BY DEF ReviewInv, Truth
  <2>2. \A who \in {Barry, OB, OOB} : Says(posts, who, job.progress)
    BY <2>1, Zenon DEF IsTrue
  <2> QED BY <2>2, Zenon DEF Says, OfVerdict
<1> QED BY <1>1, Invariance, PTL

(* An experiment that runs is on the row, or about to be, exceptions aside *)
(* (rack/mod.rs, Abandoned).                                               *)
THEOREM ExperimentsAreOwned == Spec => []RunningIsOwned
<1>1. ReviewInv => RunningIsOwned
  BY Zenon DEF ReviewInv, Owned, Settled, Over, Running, RunningIsOwned
<1> QED BY <1>1, Invariance, PTL
=============================================================================
