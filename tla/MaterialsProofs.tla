--------------------------- MODULE MaterialsProofs ---------------------------
(***************************************************************************)
(* TLAPS proofs about Materials, for every set of materials, tasks, groups *)
(* and sources and every bound: published results are current, and to the  *)
(* readers of results all of it is Publication.                            *)
(***************************************************************************)
EXTENDS Materials, SequenceTheorems, TLAPS

\* One material row c with its result rows rs under dictionary revision d.
RowOK(c, rs, d) ==
  /\ c.result \in 0..Len(rs)
  /\ (c.result # 0) = (c.status = "ready")
  /\ c.status = "none" => c.rev = 0
  /\ \A i \in 1..Len(rs) :
       ~rs[i].revoked => /\ c.status = "ready"
                         /\ c.result = i
                         /\ c.rev = rs[i].rev
                         /\ c.src = rs[i].src
                         /\ d = rs[i].dict
                         /\ rs[i].adict = rs[i].dict
  /\ c.text \in {None, c.src}
  /\ c.analysis.src \in {None, c.src}

RowsOK == \A m \in Materials : RowOK(mat[m], results[m], dict[Group(m)])

\* PublicationInvariant, its parts about single rows gathered.
Inv == TypeOK /\ RowsOK /\ CopyIsCurrent /\ JobConsistent

\* The two ways to write the invariant agree.
LEMMA InvForms == PublicationInvariant <=> Inv
BY DEF PublicationInvariant, Inv, RowsOK, RowOK, ResultIndex, PublishedIsCurrent,
       TextOfSource

\* A material's group is a group.
LEMMA GroupType == ASSUME NEW m \in Materials PROVE Group(m) \in Groups
BY ConstantsAssumption DEF Group

\* Taking the result id of a row and revoking it leaves only revoked results.
LEMMA WithdrawnRows ==
  ASSUME TypeOK, NEW m \in Materials, RowOK(mat[m], results[m], dict[Group(m)]),
         NEW c, c.result = mat[m].result
  PROVE  /\ Withdrawn(m, c) \in Seq(Result)
         /\ Len(Withdrawn(m, c)) = Len(results[m])
         /\ \A i \in 1..Len(results[m]) : Withdrawn(m, c)[i].revoked
<1> DEFINE rs == results[m]
           k == c.result
<1>1. rs \in Seq(Result) /\ k \in 0..Len(rs) /\ Len(rs) \in Nat
  BY LenProperties DEF TypeOK, RowOK
<1>2. CASE k = 0
  BY <1>1, <1>2 DEF Withdrawn, RowOK
<1>3. CASE k # 0
  <2> DEFINE e == [rs[k] EXCEPT !.revoked = TRUE]
  <2>1. k \in 1..Len(rs)
    BY <1>1, <1>3
  <2>2. rs[k] \in Result
    BY <1>1, <2>1, ElementOfSeq
  <2>3. e \in Result /\ e.revoked
    BY <2>2 DEF Result
  <2>4. Withdrawn(m, c) = [rs EXCEPT ![k] = e]
    BY <1>3 DEF Withdrawn
  <2> HIDE DEF e
  <2>5. /\ [rs EXCEPT ![k] = e] \in Seq(Result)
        /\ Len([rs EXCEPT ![k] = e]) = Len(rs)
        /\ \A j \in 1..Len(rs) : [rs EXCEPT ![k] = e][j] = IF j = k THEN e ELSE rs[j]
    BY <1>1, <2>1, <2>3, ExceptSeq
  <2>6. \A j \in 1..Len(rs) : j # k => rs[j].revoked
    <3> SUFFICES ASSUME NEW j \in 1..Len(rs), j # k PROVE rs[j].revoked
      OBVIOUS
    <3>1. rs[j] \in Result
      BY <1>1, ElementOfSeq
    <3> QED BY <3>1 DEF RowOK, Result
  <2> QED BY <2>3, <2>4, <2>5, <2>6
<1> QED BY <1>2, <1>3

\* finish_locked on a row whose results are all revoked: at most the appended
\* result is valid, and it belongs to the row.
LEMMA FinishedRow ==
  ASSUME TypeOK, NEW m \in Materials, NEW c \in Material, NEW d \in Nat,
         NEW a \in Analysis, NEW waiting \in BOOLEAN,
         NEW rs \in Seq(Result), Len(rs) = Len(results[m]),
         \A i \in 1..Len(results[m]) : rs[i].revoked,
         c.text = c.src, a.src = c.src, a.dict = d
  PROVE  /\ Finished(m, c, d, a, waiting) \in Material
         /\ Finished(m, c, d, a, waiting).status \notin {"none", "running"}
         /\ Finished(m, c, d, a, waiting).rev = c.rev
         /\ FinishedResults(rs, c, d, a) \in Seq(Result)
         /\ RowOK(Finished(m, c, d, a, waiting), FinishedResults(rs, c, d, a), d)
<1> DEFINE f == Finished(m, c, d, a, waiting)
<1>1. Len(rs) \in Nat /\ Len(results[m]) \in Nat
  BY LenProperties
<1>2. f \in Material /\ f.status \notin {"none", "running"} /\ f.rev = c.rev
  <2> DEFINE n == IF a.review THEN 0 ELSE Len(results[m]) + 1
             st == IF ~a.review THEN "ready"
                   ELSE IF waiting THEN "awaiting_consent" ELSE "needs_review"
  <2>1. n \in Nat
    BY <1>1
  <2>2. st \in Status /\ st \notin {"none", "running"}
    BY DEF Status
  <2>3. f = [c EXCEPT !.dict = d, !.analysis = a, !.result = n, !.status = st]
    BY DEF Finished
  <2> HIDE DEF n, st, f
  <2> QED BY <2>1, <2>2, <2>3 DEF Material
<1>3. CASE a.review
  <2>1. /\ f.result = 0 /\ f.status # "ready" /\ f.text = c.text /\ f.src = c.src
        /\ f.analysis = a
    BY <1>3 DEF Finished, Material, Analysis
  <2>2. FinishedResults(rs, c, d, a) = rs
    BY <1>3 DEF FinishedResults
  <2> QED BY <1>1, <1>2, <2>1, <2>2 DEF RowOK
<1>4. CASE ~a.review
  <2> DEFINE r == [rev |-> c.rev, dict |-> d, src |-> a.src, adict |-> a.dict,
                   revoked |-> FALSE, expired |-> FALSE]
  <2>1. r \in Result
    BY DEF Result, Material, Analysis
  <2>2. FinishedResults(rs, c, d, a) = Append(rs, r)
    BY <1>4 DEF FinishedResults
  <2>3. /\ f.result = Len(rs) + 1 /\ f.status = "ready" /\ f.text = c.text
        /\ f.src = c.src /\ f.analysis = a /\ f.rev = c.rev
    BY <1>4 DEF Finished, Material, Analysis
  <2>4. /\ r.rev = c.rev /\ r.dict = d /\ r.src = c.src /\ r.adict = d
    OBVIOUS
  <2> HIDE DEF r, f
  <2>5. /\ Append(rs, r) \in Seq(Result)
        /\ Len(Append(rs, r)) = Len(rs) + 1
        /\ \A i \in 1..Len(rs) : Append(rs, r)[i] = rs[i]
        /\ Append(rs, r)[Len(rs) + 1] = r
    BY <2>1, AppendProperties
  <2>6. RowOK(f, Append(rs, r), d)
    BY <1>1, <2>3, <2>4, <2>5 DEF RowOK
  <2> QED BY <1>2, <2>2, <2>5, <2>6 DEF f
<1> QED BY <1>3, <1>4 DEF Analysis

-----------------------------------------------------------------------------
(* Steps that leave the material, result and group rows alone. *)

\* The idle worker's locals have their type.
LEMMA IdleJobType == IdleJob \in Job
BY DEF IdleJob, Job, PC, Material, NoMaterial, NoAnalysis, Analysis, Status

\* The worker's locals change, its copy does not.
LEMMA JobStep ==
  ASSUME Inv, UNCHANGED <<tables, phase>>,
         \/ job' = IdleJob
         \/ /\ job'.m = job.m /\ job'.copy = job.copy /\ job'.g = job.g
            /\ job'.pc \in {"text_ready", "redaction_running", "redact",
                 "redact_wait", "ai_finish", "claim_cloud", "cloud", "cloud_wait",
                 "finish"} => job.copy.text = job.copy.src
            /\ job'.pc \in {"ai_finish", "claim_cloud", "cloud", "cloud_wait",
                             "finish"} =>
                 job'.analysis.src = job.copy.src /\ job'.analysis.dict = job.g
  PROVE  RowsOK' /\ CopyIsCurrent' /\ JobConsistent'
<1>1. mat' = mat /\ dict' = dict /\ results' = results /\ phase' = phase
  BY DEF tables
<1>2. RowsOK'
  BY <1>1 DEF Inv, RowsOK, RowOK, Group
<1>3. CASE job' = IdleJob
  BY <1>1, <1>2, <1>3 DEF Inv, CopyIsCurrent, JobConsistent, IdleJob
<1>4. CASE job' # IdleJob
  <2>1. CopyIsCurrent'
    BY <1>1, <1>4 DEF Inv, CopyIsCurrent, Current, Group
  <2>2. JobConsistent'
    BY <1>1, <1>4 DEF Inv, JobConsistent
  <2> QED BY <1>2, <2>1, <2>2
<1> QED BY <1>3, <1>4

\* A step that moves a busy worker to another place.
LEMMA MoveJob ==
  ASSUME TypeOK, job.pc # "idle", NEW pc \in PC \ {"idle"},
         job' = [job EXCEPT !.pc = pc]
  PROVE  /\ job' \in Job
         /\ (job'.m = None) = (job'.pc = "idle")
         /\ job'.pc = pc /\ job'.m = job.m /\ job'.copy = job.copy
         /\ job'.g = job.g /\ job'.analysis = job.analysis
BY DEF TypeOK, Job

\* Goto from a place where text and analysis are as the new place wants them.
LEMMA GotoStep ==
  ASSUME Inv, job.pc # "idle", NEW pc \in PC \ {"idle"}, Goto(pc),
         pc \in {"text_ready", "redaction_running", "redact", "redact_wait",
                "ai_finish", "claim_cloud", "cloud", "cloud_wait", "finish"} =>
           job.copy.text = job.copy.src,
         pc \in {"ai_finish", "claim_cloud", "cloud", "cloud_wait", "finish"} =>
           job.analysis.src = job.copy.src /\ job.analysis.dict = job.g
  PROVE  Inv'
<1> USE DEF tables, settings, process, history
<1>1. /\ UNCHANGED <<mat, dict, results, consent, granted, profile, model, stage,
                     phase, lost, clouded, crashes>>
      /\ job' = [job EXCEPT !.pc = pc]
  BY DEF Goto
<1>2. /\ job' \in Job /\ (job'.m = None) = (job'.pc = "idle")
      /\ job'.pc = pc /\ job'.m = job.m /\ job'.copy = job.copy
      /\ job'.g = job.g /\ job'.analysis = job.analysis
  BY <1>1, MoveJob DEF Inv
<1>3. TypeOK'
  BY <1>1, <1>2 DEF Inv, TypeOK
<1>4. RowsOK' /\ CopyIsCurrent' /\ JobConsistent'
  BY <1>1, <1>2, JobStep
<1> QED BY <1>3, <1>4 DEF Inv

\* The steps that only move the worker.
LEMMA WorkerMoves ==
  ASSUME Inv,
         \/ SelectModel \/ ReadLocal \/ OcrSkip \/ OcrReply \/ OcrCancelled
         \/ CloudFail \/ JobError
  PROVE  Inv'
<1>1. CASE SelectModel
  BY <1>1, GotoStep DEF SelectModel, At, PC
<1>2. CASE ReadLocal
  BY <1>2, GotoStep DEF ReadLocal, At, PC
<1>3. CASE OcrSkip
  BY <1>3, GotoStep DEF OcrSkip, At, PC
<1>4. CASE OcrReply
  BY <1>4, GotoStep DEF OcrReply, At, PC
<1>5. CASE OcrCancelled
  BY <1>5, GotoStep DEF OcrCancelled, At, PC
<1>6. CASE CloudFail
  <2>1. job.pc \in {"cloud", "cloud_wait"} /\ Goto("finish")
    BY <1>6 DEF CloudFail, At
  <2>2. job.copy.text = job.copy.src /\ job.analysis.src = job.copy.src
        /\ job.analysis.dict = job.g
    BY <2>1 DEF Inv, JobConsistent
  <2> QED BY <2>1, <2>2, GotoStep DEF PC
<1>7. CASE JobError
  BY <1>7, GotoStep DEF JobError, PC
<1> QED BY <1>1, <1>2, <1>3, <1>4, <1>5, <1>6, <1>7

\* save_ai_stage: one stage row and the worker's place.
LEMMA SaveStageStep ==
  ASSUME Inv, job.pc # "idle", NEW name \in StageName, NEW pc \in PC \ {"idle"},
         SaveStage(name, pc),
         pc \in {"redaction_running", "redact"} => job.copy.text = job.copy.src,
         pc \in {"ocr", "redaction_running", "redact", "settle"}
  PROVE  Inv'
<1> USE DEF tables, settings, process, history
<1>1. /\ UNCHANGED <<mat, dict, results, consent, granted, profile, model, phase,
                     lost, clouded, crashes>>
      /\ job' = [job EXCEPT !.pc = pc]
      /\ stage' = [stage EXCEPT ![job.m] =
                     [stage |-> name, rev |-> job.copy.rev, src |-> job.copy.src]]
  BY DEF SaveStage
<1>2. /\ job' \in Job /\ (job'.m = None) = (job'.pc = "idle")
      /\ job'.pc = pc /\ job'.m = job.m /\ job'.copy = job.copy
      /\ job'.g = job.g /\ job'.analysis = job.analysis
  BY <1>1, MoveJob DEF Inv
<1>3. [stage |-> name, rev |-> job.copy.rev, src |-> job.copy.src] \in Stage
  BY DEF Inv, TypeOK, Job, Material, Stage
<1>4. stage' \in [Materials -> Stage]
  BY <1>1, <1>3 DEF Inv, TypeOK
<1>5. TypeOK'
  BY <1>1, <1>2, <1>4 DEF Inv, TypeOK
<1>6. RowsOK' /\ CopyIsCurrent' /\ JobConsistent'
  BY <1>1, <1>2, JobStep
<1> QED BY <1>5, <1>6 DEF Inv

\* The steps that write a stage row.
LEMMA StageMoves ==
  ASSUME Inv,
         \/ ReadAi \/ StageTextReady \/ StageRedaction
         \/ \E marked \in BOOLEAN : AiFail(marked)
  PROVE  Inv'
<1>1. CASE ReadAi
  <2>1. CASE mat[job.m].src = job.copy.src
    BY <1>1, <2>1, SaveStageStep DEF ReadAi, At, PC, StageName
  <2>2. CASE mat[job.m].src # job.copy.src
    BY <1>1, <2>2, GotoStep DEF ReadAi, At, PC
  <2> QED BY <2>1, <2>2
<1>2. CASE StageTextReady
  BY <1>2, SaveStageStep DEF StageTextReady, At, PC, StageName, Inv, JobConsistent
<1>3. CASE StageRedaction
  BY <1>3, SaveStageStep DEF StageRedaction, At, PC, StageName, Inv, JobConsistent
<1>4. ASSUME NEW marked \in BOOLEAN, AiFail(marked) PROVE Inv'
  <2>1. CASE marked
    BY <1>4, <2>1, SaveStageStep DEF AiFail, PC, StageName
  <2>2. CASE ~marked
    BY <1>4, <2>2, GotoStep DEF AiFail, PC
  <2> QED BY <2>1, <2>2
<1> QED BY <1>1, <1>2, <1>3, <1>4

\* Requests to a model or the cloud, and what their answers leave with the worker.
LEMMA DispatchSteps ==
  ASSUME Inv,
         \/ OcrDispatch \/ RedactDispatch \/ CloudDispatch \/ ClaimCloud \/ AiStage
         \/ \E review \in BOOLEAN : Redacted(review) \/ CloudReply(review)
  PROVE  Inv'
<1> USE DEF tables, settings, process, history
<1>1. CASE OcrDispatch
  <2>1. /\ UNCHANGED <<mat, dict, results, consent, granted, profile, model, stage,
                       phase, lost, clouded, crashes>>
        /\ job.pc = "ocr" /\ job' = [job EXCEPT !.pc = "ocr_wait", !.sent = profile]
    BY <1>1 DEF OcrDispatch, Dispatch, At
  <2>2. /\ job' \in Job /\ (job'.m = None) = (job'.pc = "idle")
        /\ job'.pc = "ocr_wait" /\ job'.m = job.m /\ job'.copy = job.copy
        /\ job'.g = job.g
    BY <2>1 DEF Inv, TypeOK, Job, PC
  <2>3. TypeOK'
    BY <2>1, <2>2 DEF Inv, TypeOK
  <2> QED BY <2>1, <2>2, <2>3, JobStep DEF Inv
<1>2. CASE RedactDispatch
  <2>1. /\ UNCHANGED <<mat, dict, results, consent, granted, profile, model, stage,
                       phase, lost, clouded, crashes>>
        /\ job.pc = "redact"
        /\ job' = [job EXCEPT !.pc = "redact_wait", !.sent = profile]
    BY <1>2 DEF RedactDispatch, Dispatch, At
  <2>2. /\ job' \in Job /\ (job'.m = None) = (job'.pc = "idle")
        /\ job'.pc = "redact_wait" /\ job'.m = job.m /\ job'.copy = job.copy
        /\ job'.g = job.g
    BY <2>1 DEF Inv, TypeOK, Job, PC
  <2>3. job.copy.text = job.copy.src
    BY <2>1 DEF Inv, JobConsistent
  <2>4. TypeOK'
    BY <2>1, <2>2 DEF Inv, TypeOK
  <2> QED BY <2>1, <2>2, <2>3, <2>4, JobStep DEF Inv
<1>3. CASE CloudDispatch
  <2>1. /\ UNCHANGED <<mat, dict, results, consent, granted, profile, model, stage,
                       phase, lost, crashes>>
        /\ job.pc = "cloud" /\ job' = [job EXCEPT !.pc = "cloud_wait"]
        /\ clouded' = clouded \cup {<<job.cid, job.m>>}
    BY <1>3 DEF CloudDispatch, At
  <2>2. /\ job' \in Job /\ (job'.m = None) = (job'.pc = "idle")
        /\ job'.pc = "cloud_wait" /\ job'.m = job.m /\ job'.copy = job.copy
        /\ job'.g = job.g /\ job'.analysis = job.analysis
    BY <2>1, MoveJob DEF Inv, PC
  <2>3. job.copy.text = job.copy.src /\ job.analysis.src = job.copy.src
        /\ job.analysis.dict = job.g
    BY <2>1 DEF Inv, JobConsistent
  <2>4. job.cid \in Nat /\ job.m \in Materials
    BY <2>1 DEF Inv, TypeOK, Job
  <2>5. TypeOK'
    BY <2>1, <2>2, <2>4 DEF Inv, TypeOK
  <2> QED BY <2>1, <2>2, <2>3, <2>5, JobStep DEF Inv
<1>4. CASE ClaimCloud
  <2> DEFINE t == TaskOf[job.m]
             c == consent[t]
  <2>1. /\ UNCHANGED <<mat, dict, results, granted, profile, model, stage, phase,
                       lost, clouded, crashes>>
        /\ job.pc = "claim_cloud"
        /\ \/ /\ job' = [job EXCEPT !.waiting = TRUE, !.pc = "finish"]
              /\ consent' = consent
           \/ job' = [job EXCEPT !.pc = "settle"] /\ consent' = consent
           \/ /\ job' = [job EXCEPT !.cid = c.id, !.pc = "cloud"]
              /\ consent' = [consent EXCEPT ![t].used = @ \cup {job.m}]
    BY <1>4 DEF ClaimCloud, At
  <2>2. job.m \in Materials /\ t \in Tasks
    BY <2>1, ConstantsAssumption DEF Inv, TypeOK, Job
  <2>3. c \in Consent
    BY <2>2 DEF Inv, TypeOK
  <2>4. /\ job' \in Job /\ (job'.m = None) = (job'.pc = "idle")
        /\ job'.m = job.m /\ job'.copy = job.copy
        /\ job'.g = job.g /\ job'.analysis = job.analysis
    BY <2>1, <2>3 DEF Inv, TypeOK, Job, PC, Consent
  <2>5. job.copy.text = job.copy.src /\ job.analysis.src = job.copy.src
        /\ job.analysis.dict = job.g
    BY <2>1 DEF Inv, JobConsistent
  <2>6. consent' \in [Tasks -> Consent]
    <3>1. [c EXCEPT !.used = @ \cup {job.m}] \in Consent
      BY <2>2, <2>3 DEF Consent
    <3> QED BY <2>1, <2>2, <3>1 DEF Inv, TypeOK
  <2>7. TypeOK'
    BY <2>1, <2>4, <2>6 DEF Inv, TypeOK
  <2> QED BY <2>1, <2>4, <2>5, <2>7, JobStep DEF Inv
<1>5. CASE AiStage
  <2> DEFINE st == [stage |-> IF job.analysis.review THEN "needs_review" ELSE "completed",
                    rev |-> job.copy.rev, src |-> job.copy.src]
  <2>1. /\ UNCHANGED <<mat, dict, results, consent, granted, profile, model, phase,
                       lost, clouded, crashes>>
        /\ job' = IdleJob /\ stage' = [stage EXCEPT ![job.m] = st]
    BY <1>5 DEF AiStage
  <2>2. st \in Stage
    BY DEF Inv, TypeOK, Job, Material, Stage, StageName
  <2>3. stage' \in [Materials -> Stage]
    BY <2>1, <2>2 DEF Inv, TypeOK
  <2>4. TypeOK'
    BY <2>1, <2>3, IdleJobType DEF Inv, TypeOK, IdleJob
  <2> QED BY <2>1, <2>4, JobStep DEF Inv
<1>6. ASSUME NEW review \in BOOLEAN, Redacted(review) \/ CloudReply(review) PROVE Inv'
  <2>1. /\ UNCHANGED <<mat, dict, results, consent, granted, profile, model, stage,
                       phase, lost, clouded, crashes>>
        /\ job.pc \in {"redact", "redact_wait", "cloud_wait"}
        /\ \E b \in BOOLEAN, pc \in {"ai_finish", "finish"} :
             job' = [job EXCEPT !.pc = pc,
                       !.analysis = [src |-> job.copy.text, dict |-> job.g,
                                     ai |-> b, review |-> review]]
    BY <1>6 DEF Redacted, CloudReply, At
  <2>2. job.copy.text = job.copy.src
    BY <2>1 DEF Inv, JobConsistent
  <2>3. PICK b \in BOOLEAN, pc \in {"ai_finish", "finish"} :
             job' = [job EXCEPT !.pc = pc,
                       !.analysis = [src |-> job.copy.text, dict |-> job.g,
                                     ai |-> b, review |-> review]]
    BY <2>1
  <2>4. [src |-> job.copy.text, dict |-> job.g, ai |-> b, review |-> review] \in Analysis
    BY DEF Inv, TypeOK, Job, Material, Analysis
  <2>5. /\ job' \in Job /\ (job'.m = None) = (job'.pc = "idle")
        /\ job'.m = job.m /\ job'.copy = job.copy
        /\ job'.g = job.g /\ job'.analysis.src = job.copy.text
        /\ job'.analysis.dict = job.g
    BY <2>1, <2>3, <2>4 DEF Inv, TypeOK, Job, PC
  <2>6. TypeOK'
    BY <2>1, <2>5 DEF Inv, TypeOK
  <2> QED BY <2>1, <2>2, <2>5, <2>6, JobStep DEF Inv
<1> QED BY <1>1, <1>2, <1>3, <1>4, <1>5, <1>6

\* Cancelling the token changes nothing else of the job.
LEMMA CancelJobsKeeps ==
  ASSUME TypeOK, NEW ts, job' = CancelJobs(ts)
  PROVE  /\ job' \in Job /\ (job'.m = None) = (job'.pc = "idle")
         /\ job'.m = job.m /\ job'.copy = job.copy /\ job'.g = job.g
         /\ job'.pc = job.pc /\ job'.analysis = job.analysis
BY DEF TypeOK, CancelJobs, Job

\* Requests that touch consents and settings only.
LEMMA SettingsSteps ==
  ASSUME Inv,
         \/ SaveProvider \/ SaveAiDefaults
         \/ \E t \in Tasks : RevokeConsent(t) \/ ExpireConsent(t)
  PROVE  Inv'
<1> USE DEF tables, settings, process, history
<1> DEFINE Kept == /\ job' \in Job /\ (job'.m = None) = (job'.pc = "idle")
                   /\ job'.m = job.m /\ job'.copy = job.copy /\ job'.g = job.g
                   /\ job'.pc = job.pc /\ job'.analysis = job.analysis
<1>0. ASSUME Kept, UNCHANGED <<mat, dict, results, stage, phase, lost, clouded, crashes>>,
             granted' \in Nat, profile' \in Nat, model' \in BOOLEAN,
             consent' \in [Tasks -> Consent]
      PROVE  Inv'
  <2>1. TypeOK'
    BY <1>0 DEF Inv, TypeOK
  <2>2. RowsOK' /\ CopyIsCurrent' /\ JobConsistent'
    <3>1. /\ job.pc \in {"text_ready", "redaction_running", "redact", "redact_wait",
               "ai_finish", "claim_cloud", "cloud", "cloud_wait", "finish"} =>
               job.copy.text = job.copy.src
          /\ job.pc \in {"ai_finish", "claim_cloud", "cloud", "cloud_wait", "finish"} =>
               job.analysis.src = job.copy.src /\ job.analysis.dict = job.g
      BY DEF Inv, JobConsistent
    <3> QED BY <1>0, <3>1, JobStep
  <2> QED BY <2>1, <2>2 DEF Inv
<1>1. CASE SaveProvider
  <2>1. job' = CancelJobs(Tasks)
    BY <1>1 DEF SaveProvider
  <2>2. Kept
    BY <2>1, CancelJobsKeeps DEF Inv
  <2> QED BY <1>0, <1>1, <2>2 DEF SaveProvider, Inv, TypeOK
<1>2. CASE SaveAiDefaults
  BY <1>0, <1>2, ConstantsAssumption DEF SaveAiDefaults, Inv, TypeOK
<1>3. ASSUME NEW t \in Tasks, RevokeConsent(t) PROVE Inv'
  <2>1. job' = CancelJobs({t})
    BY <1>3 DEF RevokeConsent
  <2>2. Kept
    BY <2>1, CancelJobsKeeps DEF Inv
  <2>3. NoConsent \in Consent
    BY DEF NoConsent, Consent
  <2> QED BY <1>0, <1>3, <2>2, <2>3 DEF RevokeConsent, Inv, TypeOK
<1>4. ASSUME NEW t \in Tasks, ExpireConsent(t) PROVE Inv'
  <2>1. [consent[t] EXCEPT !.expired = TRUE] \in Consent
    BY DEF Inv, TypeOK, Consent
  <2> QED BY <1>0, <1>4, <2>1 DEF ExpireConsent, Inv, TypeOK
<1> QED BY <1>1, <1>2, <1>3, <1>4

\* A crash and the ends of the two recovery passes.
LEMMA PhaseSteps ==
  ASSUME Inv, Crash \/ MaterialsRecovered \/ StagesRecovered
  PROVE  Inv'
<1> USE DEF tables, settings, process, history
<1>1. CASE Crash
  <2>1. /\ UNCHANGED <<mat, dict, results, consent, granted, profile, model, stage, clouded>>
        /\ job' = IdleJob /\ phase' = "recover_materials" /\ crashes' = crashes + 1
        /\ lost' = lost \cup InFlight
    BY <1>1 DEF Crash
  <2>2. InFlight \in SUBSET (Materials \X Kinds)
    BY DEF InFlight, Kinds, Inv, TypeOK, Job
  <2>3. TypeOK'
    BY <2>1, <2>2, IdleJobType DEF Inv, TypeOK, IdleJob
  <2>4. RowsOK'
    BY <2>1 DEF Inv, RowsOK, RowOK, Group
  <2> QED BY <2>1, <2>3, <2>4 DEF Inv, CopyIsCurrent, JobConsistent, IdleJob
<1>2. CASE MaterialsRecovered \/ StagesRecovered
  <2>1. /\ UNCHANGED <<mat, dict, results, consent, granted, profile, model, stage, job,
                       lost, clouded, crashes>>
        /\ phase # "up" /\ phase' \in {"recover_stages", "up"}
    BY <1>2 DEF MaterialsRecovered, StagesRecovered
  <2>2. TypeOK'
    BY <2>1 DEF Inv, TypeOK
  <2>3. RowsOK'
    BY <2>1 DEF Inv, RowsOK, RowOK, Group
  <2>4. CopyIsCurrent' /\ JobConsistent'
    BY <2>1 DEF Inv, CopyIsCurrent, JobConsistent, Current, Group
  <2> QED BY <2>2, <2>3, <2>4 DEF Inv
<1> QED BY <1>1, <1>2

-----------------------------------------------------------------------------
(* Steps that write material rows. *)

\* A request may change rows under the worker: every row it changes and leaves
\* running gets a new revision, so the worker's copy is stale where it matters.
LEMMA RowStep ==
  ASSUME Inv, TypeOK', phase' = phase,
         job'.m = job.m, job'.copy = job.copy, job'.g = job.g, job'.pc = job.pc,
         job'.analysis = job.analysis,
         \A m \in Materials :
           \/ mat'[m] = mat[m] /\ dict'[Group(m)] = dict[Group(m)]
           \/ mat'[m].rev >= mat[m].rev /\ mat'[m].status # "running"
  PROVE  CopyIsCurrent' /\ JobConsistent'
<1>2. CASE job.m = None
  BY <1>2 DEF Inv, CopyIsCurrent, JobConsistent
<1>3. CASE job.m # None
  <2>1. job.m \in Materials
    BY <1>3 DEF Inv, TypeOK, Job
  <2>2. /\ mat[job.m].rev \in Nat /\ mat'[job.m].rev \in Nat /\ job.copy.rev \in Nat
    BY <2>1 DEF Inv, TypeOK, Material, Job
  <2>3. CopyIsCurrent'
    BY <1>3, <2>1 DEF Inv, CopyIsCurrent, Current, Group
  <2>4. JobConsistent'
    BY <1>3, <2>1, <2>2 DEF Inv, JobConsistent
  <2> QED BY <2>3, <2>4
<1> QED BY <1>2, <1>3

\* A row without a result over revoked results is in order.
LEMMA PlainRow ==
  ASSUME NEW c \in Material, NEW rs \in Seq(Result), NEW d,
         c.result = 0, c.status \notin {"ready", "none"},
         c.text \in {None, c.src}, c.analysis.src \in {None, c.src},
         \A i \in 1..Len(rs) : rs[i].revoked
  PROVE  RowOK(c, rs, d)
<1>1. Len(rs) \in Nat
  BY LenProperties
<1> QED BY <1>1 DEF RowOK

\* All results of a row that is not ready are revoked.
LEMMA NotReadyRevoked ==
  ASSUME TypeOK, RowsOK, NEW m \in Materials, mat[m].status # "ready"
  PROVE  /\ mat[m].result = 0
         /\ \A i \in 1..Len(results[m]) : results[m][i].revoked
<1>1. RowOK(mat[m], results[m], dict[Group(m)])
  BY DEF RowsOK
<1>2. results[m] \in Seq(Result)
  BY DEF TypeOK
<1>3. \A i \in 1..Len(results[m]) : results[m][i] \in Result
  BY <1>2, ElementOfSeq
<1> QED BY <1>1, <1>3 DEF RowOK, Result

\* Back to the queue: new revision, no analysis, no result.
LEMMA RequeuedRow ==
  ASSUME NEW c \in Material, c.text \in {None, c.src}
  PROVE  /\ Requeued(c) \in Material
         /\ Requeued(c).result = 0 /\ Requeued(c).status = "queued"
         /\ Requeued(c).rev = c.rev + 1
         /\ Requeued(c).src = c.src /\ Requeued(c).text = c.text
         /\ Requeued(c).analysis = NoAnalysis
         /\ Requeued(c).analysis.src = None
<1>1. NoAnalysis \in Analysis /\ NoAnalysis.src = None
  BY DEF NoAnalysis, Analysis
<1> DEFINE n == c.rev + 1
           st == "queued"
           z == 0
<1>2. st \in Status /\ n \in Nat /\ z \in Nat
  BY DEF Status, Material
<1>3. Requeued(c) = [c EXCEPT !.status = st, !.rev = n, !.analysis = NoAnalysis,
                              !.result = z]
  BY DEF Requeued
<1> HIDE DEF n, st, z
<1>4. /\ Requeued(c) \in Material
      /\ Requeued(c).result = z /\ Requeued(c).status = st
      /\ Requeued(c).rev = n
      /\ Requeued(c).src = c.src /\ Requeued(c).text = c.text
      /\ Requeued(c).analysis = NoAnalysis
  BY <1>1, <1>2, <1>3 DEF Material
<1> QED BY <1>1, <1>4 DEF n, st, z

\* submit: new rows without a result.
LEMMA SubmitStep ==
  ASSUME Inv, NEW t \in Tasks, Submit(t)
  PROVE  Inv'
<1> USE DEF tables, settings, process, history
<1>1. PICK s \in [{m \in Materials : TaskOf[m] = t} -> Sources] :
        mat' = [m \in Materials |->
                 IF TaskOf[m] = t
                 THEN [NoMaterial EXCEPT !.status = "queued", !.rev = 1,
                                         !.src = s[m], !.dict = dict[Group(m)]]
                 ELSE mat[m]]
  BY DEF Submit
<1>2. UNCHANGED <<dict, results, consent, granted, profile, model, stage, job, phase,
                  lost, clouded, crashes>>
  BY DEF Submit
<1>3. \A m \in Materials : TaskOf[m] = t => mat[m].status = "none"
  BY DEF Submit, MaterialsOf
<1>4. ASSUME NEW m \in Materials, TaskOf[m] = t
      PROVE  /\ mat'[m] \in Material /\ mat'[m].status = "queued" /\ mat'[m].rev = 1
             /\ mat'[m].result = 0 /\ mat'[m].text = None /\ mat'[m].analysis.src = None
  <2>1. s[m] \in Sources /\ dict[Group(m)] \in Nat
    BY <1>4, GroupType DEF Inv, TypeOK
  <2> QED BY <1>1, <1>4, <2>1 DEF NoMaterial, NoAnalysis, Material, Analysis, Status
<1>5. \A m \in Materials : TaskOf[m] # t => mat'[m] = mat[m]
  BY <1>1
<1>6. mat' \in [Materials -> Material]
  BY <1>1, <1>4, <1>5 DEF Inv, TypeOK
<1>7. TypeOK'
  BY <1>2, <1>6 DEF Inv, TypeOK
<1>8. RowsOK'
  <2> SUFFICES ASSUME NEW m \in Materials
               PROVE  RowOK(mat'[m], results'[m], dict'[Group(m)])
    BY DEF RowsOK, Group
  <2>1. CASE TaskOf[m] = t
    <3>1. /\ \A i \in 1..Len(results[m]) : results[m][i].revoked
          /\ results[m] \in Seq(Result)
      BY <1>3, <2>1, NotReadyRevoked DEF Inv, TypeOK
    <3> QED BY <1>2, <1>4, <2>1, <3>1, PlainRow
  <2>2. CASE TaskOf[m] # t
    BY <1>2, <1>5, <2>2 DEF Inv, RowsOK
  <2> QED BY <2>1, <2>2
<1>9. \A m \in Materials :
        \/ mat'[m] = mat[m] /\ dict'[Group(m)] = dict[Group(m)]
        \/ mat'[m].rev >= mat[m].rev /\ mat'[m].status # "running"
  BY <1>2, <1>3, <1>4, <1>5 DEF Inv, RowsOK, RowOK
<1>10. CopyIsCurrent' /\ JobConsistent'
  BY <1>2, <1>7, <1>9, RowStep
<1> QED BY <1>7, <1>8, <1>10 DEF Inv

\* Requests that rewrite rows and leave everything else but the token, the
\* consents and the histories: it is enough that each row they change is in
\* order, not running, and not older than before.
LEMMA RequestStep ==
  ASSUME Inv, TypeOK', phase' = phase,
         job'.m = job.m, job'.copy = job.copy, job'.g = job.g, job'.pc = job.pc,
         job'.analysis = job.analysis,
         \A m \in Materials :
           \/ /\ mat'[m] = mat[m] /\ dict'[Group(m)] = dict[Group(m)]
              /\ results'[m] = results[m]
           \/ /\ mat'[m].rev >= mat[m].rev /\ mat'[m].status # "running"
              /\ RowOK(mat'[m], results'[m], dict'[Group(m)])
  PROVE  Inv'
<1>1. RowsOK'
  BY DEF Inv, RowsOK, Group
<1>2. CopyIsCurrent' /\ JobConsistent'
  BY RowStep
<1> QED BY <1>1, <1>2 DEF Inv

\* replace_material: the old result is withdrawn, the old text dropped.
LEMMA ReplaceStep ==
  ASSUME Inv, NEW m \in Materials, ReplaceMaterial(m)
  PROVE  Inv'
<1> USE DEF tables, settings, process, history
<1>1. PICK s \in Sources :
        mat' = [mat EXCEPT ![m] = [Requeued(mat[m]) EXCEPT !.src = s, !.text = None]]
  BY DEF ReplaceMaterial
<1> DEFINE c == [Requeued(mat[m]) EXCEPT !.src = s, !.text = None]
<1>2. /\ UNCHANGED <<dict, consent, granted, profile, model, stage, phase, clouded, crashes>>
      /\ results' = [results EXCEPT ![m] = Withdrawn(m, mat[m])]
      /\ job' = CancelJobs({TaskOf[m]})
      /\ lost' \subseteq lost
  BY DEF ReplaceMaterial
<1>3. RowOK(mat[m], results[m], dict[Group(m)]) /\ mat[m] \in Material
  BY DEF Inv, RowsOK, TypeOK
<1>4. /\ c \in Material /\ c.result = 0 /\ c.status = "queued" /\ c.text = None
      /\ c.analysis.src = None /\ c.rev = mat[m].rev + 1
  BY <1>3, RequeuedRow DEF RowOK, Material
<1>5. /\ Withdrawn(m, mat[m]) \in Seq(Result)
      /\ \A i \in 1..Len(Withdrawn(m, mat[m])) : Withdrawn(m, mat[m])[i].revoked
  BY <1>3, WithdrawnRows DEF Inv
<1>6. RowOK(c, Withdrawn(m, mat[m]), dict[Group(m)])
  BY <1>4, <1>5, PlainRow
<1> HIDE DEF c
<1>7. mat' = [mat EXCEPT ![m] = c]
  BY <1>1 DEF c
<1>8. /\ job' \in Job /\ (job'.m = None) = (job'.pc = "idle")
      /\ job'.m = job.m /\ job'.copy = job.copy /\ job'.g = job.g
      /\ job'.pc = job.pc /\ job'.analysis = job.analysis
  BY <1>2, CancelJobsKeeps DEF Inv
<1>9. TypeOK'
  BY <1>2, <1>4, <1>5, <1>7, <1>8 DEF Inv, TypeOK
<1>10. mat[m].rev \in Nat
  BY <1>3 DEF Material
<1>11. \A n \in Materials :
         \/ /\ mat'[n] = mat[n] /\ dict'[Group(n)] = dict[Group(n)]
            /\ results'[n] = results[n]
         \/ /\ mat'[n].rev >= mat[n].rev /\ mat'[n].status # "running"
            /\ RowOK(mat'[n], results'[n], dict'[Group(n)])
  BY <1>2, <1>4, <1>6, <1>7, <1>10 DEF Inv, TypeOK
<1> QED BY <1>2, <1>8, <1>9, <1>11, RequestStep

\* The partial updates of a row keep its type and its other fields.
LEMMA PatchedRow ==
  ASSUME NEW c \in Material, NEW st \in Status, NEW n \in Nat, NEW k \in Nat
  PROVE  /\ [c EXCEPT !.status = st, !.rev = n, !.result = k] \in Material
         /\ [c EXCEPT !.status = st, !.rev = n] \in Material
         /\ [c EXCEPT !.status = st, !.dict = n] \in Material
         /\ [c EXCEPT !.status = st] \in Material
         /\ [c EXCEPT !.rev = n] \in Material
         /\ [c EXCEPT !.result = k] \in Material
BY DEF Material

\* revoke_material: the result is withdrawn under a new revision.
LEMMA RevokeStep ==
  ASSUME Inv, NEW m \in Materials, RevokeMaterial(m)
  PROVE  Inv'
<1> USE DEF tables, settings, process, history
<1> DEFINE c == [mat[m] EXCEPT !.status = "revoked", !.rev = mat[m].rev + 1,
                               !.result = 0]
<1>2. /\ UNCHANGED <<dict, consent, granted, profile, model, stage, phase, lost, clouded,
                     crashes>>
      /\ mat' = [mat EXCEPT ![m] = c]
      /\ results' = [results EXCEPT ![m] = Withdrawn(m, mat[m])]
      /\ job' = CancelJobs({TaskOf[m]})
  BY DEF RevokeMaterial
<1>3. RowOK(mat[m], results[m], dict[Group(m)]) /\ mat[m] \in Material
  BY DEF Inv, RowsOK, TypeOK
<1>4. /\ c \in Material /\ c.result = 0 /\ c.status = "revoked"
      /\ c.text = mat[m].text /\ c.src = mat[m].src
      /\ c.analysis = mat[m].analysis /\ c.rev = mat[m].rev + 1
  <2>1. "revoked" \in Status /\ mat[m].rev + 1 \in Nat /\ 0 \in Nat
    BY <1>3 DEF Material, Status
  <2>2. c \in Material
    BY <1>3, <2>1, PatchedRow
  <2> QED BY <1>3, <2>2 DEF Material
<1>5. /\ Withdrawn(m, mat[m]) \in Seq(Result)
      /\ \A i \in 1..Len(Withdrawn(m, mat[m])) : Withdrawn(m, mat[m])[i].revoked
  BY <1>3, WithdrawnRows DEF Inv
<1> HIDE DEF c
<1>6. RowOK(c, Withdrawn(m, mat[m]), dict[Group(m)])
  <2>1. c.text \in {None, c.src} /\ c.analysis.src \in {None, c.src}
    BY <1>3, <1>4 DEF RowOK
  <2> QED BY <1>4, <1>5, <2>1, PlainRow
<1>8. /\ job' \in Job /\ (job'.m = None) = (job'.pc = "idle")
      /\ job'.m = job.m /\ job'.copy = job.copy /\ job'.g = job.g
      /\ job'.pc = job.pc /\ job'.analysis = job.analysis
  BY <1>2, CancelJobsKeeps DEF Inv
<1>9. TypeOK'
  BY <1>2, <1>4, <1>5, <1>8 DEF Inv, TypeOK
<1>10. mat[m].rev \in Nat
  BY <1>3 DEF Material
<1>11. \A n \in Materials :
         \/ /\ mat'[n] = mat[n] /\ dict'[Group(n)] = dict[Group(n)]
            /\ results'[n] = results[n]
         \/ /\ mat'[n].rev >= mat[n].rev /\ mat'[n].status # "running"
            /\ RowOK(mat'[n], results'[n], dict'[Group(n)])
  BY <1>2, <1>4, <1>6, <1>10 DEF Inv, TypeOK
<1> QED BY <1>2, <1>8, <1>9, <1>11, RequestStep

\* cancel_task: the task's unfinished rows get a new revision.
LEMMA CancelStep ==
  ASSUME Inv, NEW t \in Tasks, NEW saved \in BOOLEAN, CancelTask(t, saved)
  PROVE  Inv'
<1> USE DEF tables, settings, process, history
<1> DEFINE hit(m) == /\ saved /\ m \in MaterialsOf(t)
                     /\ mat[m].status \in {"queued", "running", "awaiting_consent",
                                           "needs_review"}
           c(m) == [mat[m] EXCEPT !.status = "cancelled", !.rev = mat[m].rev + 1]
<1>1. /\ UNCHANGED <<dict, results, consent, granted, profile, model, stage, phase,
                     lost, clouded, crashes>>
      /\ mat' = [m \in Materials |-> IF hit(m) THEN c(m) ELSE mat[m]]
      /\ job' = CancelJobs({t})
  BY DEF CancelTask
<1>2. ASSUME NEW m \in Materials, hit(m)
      PROVE  /\ c(m) \in Material /\ c(m).status = "cancelled"
             /\ c(m).rev >= mat[m].rev
             /\ RowOK(c(m), results[m], dict[Group(m)])
  <2>1. mat[m] \in Material /\ "cancelled" \in Status /\ mat[m].rev + 1 \in Nat
    BY DEF Inv, TypeOK, Material, Status
  <2>2. c(m) \in Material
    BY <2>1, PatchedRow
  <2>3. /\ c(m).status = "cancelled" /\ c(m).rev = mat[m].rev + 1
        /\ c(m).result = mat[m].result /\ c(m).text = mat[m].text
        /\ c(m).src = mat[m].src /\ c(m).analysis = mat[m].analysis
    BY <2>1 DEF Material
  <2>4. /\ mat[m].result = 0 /\ results[m] \in Seq(Result)
        /\ \A i \in 1..Len(results[m]) : results[m][i].revoked
    BY <1>2, NotReadyRevoked DEF Inv, TypeOK
  <2>5. c(m).text \in {None, c(m).src} /\ c(m).analysis.src \in {None, c(m).src}
    BY <2>3 DEF Inv, RowsOK, RowOK
  <2>6. RowOK(c(m), results[m], dict[Group(m)])
    BY <2>2, <2>3, <2>4, <2>5, PlainRow
  <2> QED BY <2>1, <2>2, <2>3, <2>6 DEF Material
<1> HIDE DEF c, hit
<1>3. /\ job' \in Job /\ (job'.m = None) = (job'.pc = "idle")
      /\ job'.m = job.m /\ job'.copy = job.copy /\ job'.g = job.g
      /\ job'.pc = job.pc /\ job'.analysis = job.analysis
  BY <1>1, CancelJobsKeeps DEF Inv
<1>4. mat' \in [Materials -> Material]
  BY <1>1, <1>2 DEF Inv, TypeOK
<1>5. TypeOK'
  BY <1>1, <1>3, <1>4 DEF Inv, TypeOK
<1>6. \A n \in Materials :
         \/ /\ mat'[n] = mat[n] /\ dict'[Group(n)] = dict[Group(n)]
            /\ results'[n] = results[n]
         \/ /\ mat'[n].rev >= mat[n].rev /\ mat'[n].status # "running"
            /\ RowOK(mat'[n], results'[n], dict'[Group(n)])
  BY <1>1, <1>2
<1> QED BY <1>1, <1>3, <1>5, <1>6, RequestStep

\* retry_task: failed, cancelled and expired rows go back to the queue.
LEMMA RetryStep ==
  ASSUME Inv, NEW t \in Tasks, NEW saved \in BOOLEAN, RetryTask(t, saved)
  PROVE  Inv'
<1> USE DEF tables, settings, process, history
<1> DEFINE again == {m \in MaterialsOf(t) : saved /\ Retriable(m)}
<1>1. /\ UNCHANGED <<dict, granted, profile, model, stage, job, phase, clouded, crashes>>
      /\ consent' = [consent EXCEPT ![t] = NoConsent]
      /\ mat' = [m \in Materials |-> IF m \in again THEN Requeued(mat[m]) ELSE mat[m]]
      /\ results' = [m \in Materials |-> IF m \in again THEN Withdrawn(m, mat[m])
                                                         ELSE results[m]]
      /\ lost' \subseteq lost
  BY DEF RetryTask
<1> HIDE DEF again
<1>2. ASSUME NEW m \in Materials
      PROVE  /\ Requeued(mat[m]) \in Material /\ Requeued(mat[m]).status = "queued"
             /\ Requeued(mat[m]).rev >= mat[m].rev
             /\ Withdrawn(m, mat[m]) \in Seq(Result)
             /\ RowOK(Requeued(mat[m]), Withdrawn(m, mat[m]), dict[Group(m)])
  <2>1. /\ mat[m] \in Material /\ mat[m].rev \in Nat
        /\ RowOK(mat[m], results[m], dict[Group(m)])
    BY DEF Inv, TypeOK, Material, RowsOK
  <2>2. mat[m].text \in {None, mat[m].src}
    BY <2>1 DEF RowOK
  <2>3. /\ Withdrawn(m, mat[m]) \in Seq(Result)
        /\ \A i \in 1..Len(Withdrawn(m, mat[m])) : Withdrawn(m, mat[m])[i].revoked
    BY <2>1, WithdrawnRows DEF Inv
  <2> QED BY <2>1, <2>2, <2>3, RequeuedRow, PlainRow
<1>3. NoConsent \in Consent
  BY DEF NoConsent, Consent
<1>4. mat' \in [Materials -> Material] /\ results' \in [Materials -> Seq(Result)]
  BY <1>1, <1>2 DEF Inv, TypeOK
<1>5. TypeOK'
  BY <1>1, <1>3, <1>4 DEF Inv, TypeOK
<1>6. \A n \in Materials :
         \/ /\ mat'[n] = mat[n] /\ dict'[Group(n)] = dict[Group(n)]
            /\ results'[n] = results[n]
         \/ /\ mat'[n].rev >= mat[n].rev /\ mat'[n].status # "running"
            /\ RowOK(mat'[n], results'[n], dict'[Group(n)])
  BY <1>1, <1>2
<1> QED BY <1>1, <1>5, <1>6, RequestStep

\* consent: the task's pending rows, none of them running, are queued.
LEMMA GrantStep ==
  ASSUME Inv, NEW t \in Tasks, GrantConsent(t)
  PROVE  Inv'
<1> USE DEF tables, settings, process, history
<1> DEFINE pending == {m \in MaterialsOf(t) :
                        mat[m].status \in {"queued", "awaiting_consent", "needs_review"}}
           c(m) == [mat[m] EXCEPT !.status = "queued"]
           k == [id |-> granted + 1, profile |-> profile, expired |-> FALSE,
                 grants |-> {<<m, mat[m].rev, mat[m].src>> : m \in pending},
                 used |-> {}]
<1>1. /\ UNCHANGED <<dict, results, profile, model, stage, job, phase, clouded, crashes>>
      /\ mat' = [m \in Materials |-> IF m \in pending THEN c(m) ELSE mat[m]]
      /\ granted' = granted + 1 /\ consent' = [consent EXCEPT ![t] = k]
      /\ lost' \subseteq lost
  BY DEF GrantConsent
<1>2. ASSUME NEW m \in pending
      PROVE  /\ m \in Materials
             /\ c(m) \in Material /\ c(m).status = "queued"
             /\ c(m).rev >= mat[m].rev
             /\ RowOK(c(m), results[m], dict[Group(m)])
  <2>0. m \in Materials
    BY DEF MaterialsOf
  <2>1. mat[m] \in Material /\ "queued" \in Status /\ mat[m].rev \in Nat
    BY <2>0 DEF Inv, TypeOK, Material, Status
  <2>2. c(m) \in Material
    BY <2>1, PatchedRow
  <2>3. /\ c(m).status = "queued" /\ c(m).rev = mat[m].rev
        /\ c(m).result = mat[m].result /\ c(m).text = mat[m].text
        /\ c(m).src = mat[m].src /\ c(m).analysis = mat[m].analysis
    BY <2>1 DEF Material
  <2>4. /\ mat[m].result = 0 /\ results[m] \in Seq(Result)
        /\ \A i \in 1..Len(results[m]) : results[m][i].revoked
    BY <2>0, NotReadyRevoked DEF Inv, TypeOK
  <2>5. c(m).text \in {None, c(m).src} /\ c(m).analysis.src \in {None, c(m).src}
    BY <2>0, <2>3 DEF Inv, RowsOK, RowOK
  <2>6. RowOK(c(m), results[m], dict[Group(m)])
    BY <2>2, <2>3, <2>4, <2>5, PlainRow
  <2> QED BY <2>0, <2>1, <2>2, <2>3, <2>6
<1>3. k \in Consent
  <2>1. \A m \in pending : <<m, mat[m].rev, mat[m].src>>
                              \in Materials \X Nat \X (Sources \cup {None})
    BY <1>2 DEF Inv, TypeOK, Material
  <2> DEFINE gs == {<<m, mat[m].rev, mat[m].src>> : m \in pending}
             i == granted + 1
             none == {}
  <2>2. gs \in SUBSET (Materials \X Nat \X (Sources \cup {None}))
    BY <2>1
  <2>3. i \in Nat /\ profile \in Nat /\ none \in SUBSET Materials
    BY DEF Inv, TypeOK
  <2>4. k = [id |-> i, profile |-> profile, expired |-> FALSE, grants |-> gs,
             used |-> none]
    OBVIOUS
  <2> HIDE DEF gs, i, k, none, pending
  <2> QED BY <2>2, <2>3, <2>4 DEF Consent
<1> HIDE DEF c, pending, k
<1>4. mat' \in [Materials -> Material]
  BY <1>1, <1>2 DEF Inv, TypeOK
<1>5. TypeOK'
  BY <1>1, <1>3, <1>4 DEF Inv, TypeOK
<1>6. \A n \in Materials :
         \/ /\ mat'[n] = mat[n] /\ dict'[Group(n)] = dict[Group(n)]
            /\ results'[n] = results[n]
         \/ /\ mat'[n].rev >= mat[n].rev /\ mat'[n].status # "running"
            /\ RowOK(mat'[n], results'[n], dict'[Group(n)])
  BY <1>1, <1>2
<1> QED BY <1>1, <1>5, <1>6, RequestStep

\* update_dictionary_locked: every row of the group is in order under any new
\* dictionary revision, because none keeps a valid result.
LEMMA DictionaryRow ==
  ASSUME Inv, NEW g \in Groups, NEW n \in Materials, NEW d
  PROVE  /\ DictionaryRows(g)[n] \in Material
         /\ DictionaryResults(g)[n] \in Seq(Result)
         /\ Group(n) # g => /\ DictionaryRows(g)[n] = mat[n]
                            /\ DictionaryResults(g)[n] = results[n]
         /\ Group(n) = g => /\ DictionaryRows(g)[n].rev >= mat[n].rev
                            /\ DictionaryRows(g)[n].status # "running"
                            /\ RowOK(DictionaryRows(g)[n], DictionaryResults(g)[n], d)
<1> DEFINE c == mat[n]
           w == Withdrawn(n, mat[n])
<1>1. /\ c \in Material /\ c.rev \in Nat /\ RowOK(c, results[n], dict[Group(n)])
      /\ results[n] \in Seq(Result)
  BY DEF Inv, TypeOK, RowsOK, Material
<1>2. c.text \in {None, c.src} /\ c.analysis.src \in {None, c.src}
  BY <1>1 DEF RowOK
<1>3. w \in Seq(Result) /\ \A i \in 1..Len(w) : w[i].revoked
  BY <1>1, WithdrawnRows DEF Inv
<1>4. CASE n \in InGroup(g)
  <2>1. DictionaryRows(g)[n] = DictionaryChanged(c) /\ DictionaryResults(g)[n] = w
    BY <1>4 DEF DictionaryRows, DictionaryResults
  <2>2. Group(n) = g /\ c.status # "none"
    BY <1>4 DEF InGroup
  <2>3. CASE c.status \in {"cancelled", "revoked"}
    <3> DEFINE z == 0
    <3>1. DictionaryChanged(c) = [c EXCEPT !.result = z]
      BY <2>3 DEF DictionaryChanged
    <3>2. z \in Nat
      OBVIOUS
    <3> HIDE DEF z, c
    <3>3. /\ DictionaryChanged(c) \in Material
          /\ DictionaryChanged(c).result = z /\ DictionaryChanged(c).status = c.status
          /\ DictionaryChanged(c).rev = c.rev /\ DictionaryChanged(c).src = c.src
          /\ DictionaryChanged(c).text = c.text
          /\ DictionaryChanged(c).analysis = c.analysis
      BY <1>1, <3>1, <3>2 DEF Material
    <3>4. RowOK(DictionaryChanged(c), w, d)
      BY <1>2, <1>3, <2>3, <3>3, PlainRow DEF z
    <3> QED BY <1>1, <1>3, <2>1, <2>2, <2>3, <3>3, <3>4 DEF c
  <2>4. CASE c.status \notin {"cancelled", "revoked"}
    <3>1. DictionaryChanged(c) = Requeued(c)
      BY <2>4 DEF DictionaryChanged
    <3>2. /\ Requeued(c) \in Material
          /\ Requeued(c).result = 0 /\ Requeued(c).status = "queued"
          /\ Requeued(c).rev = c.rev + 1 /\ Requeued(c).src = c.src
          /\ Requeued(c).text = c.text /\ Requeued(c).analysis.src = None
      BY <1>1, <1>2, RequeuedRow
    <3>3. RowOK(Requeued(c), w, d)
      BY <1>2, <1>3, <3>2, PlainRow
    <3> QED BY <1>1, <1>3, <2>1, <2>2, <3>1, <3>2, <3>3
  <2> QED BY <2>3, <2>4
<1>5. CASE n \notin InGroup(g)
  <2>1. DictionaryRows(g)[n] = c /\ DictionaryResults(g)[n] = results[n]
    BY <1>5 DEF DictionaryRows, DictionaryResults
  <2>2. ASSUME Group(n) = g
        PROVE  c.status = "none" /\ RowOK(c, results[n], d)
    <3>1. c.status = "none"
      BY <1>5, <2>2 DEF InGroup
    <3>2. \A i \in 1..Len(results[n]) : results[n][i].revoked
      BY <3>1, NotReadyRevoked DEF Inv
    <3> QED BY <1>1, <3>1, <3>2 DEF RowOK
  <2> QED BY <1>1, <2>1, <2>2
<1> QED BY <1>4, <1>5

\* set_dictionary: every row of the group is requeued or withdrawn with its results.
LEMMA SetDictionaryStep ==
  ASSUME Inv, NEW g \in Groups, NEW saved \in BOOLEAN, SetDictionary(g, saved)
  PROVE  Inv'
<1> USE DEF tables, settings, process, history
<1>1. /\ UNCHANGED <<consent, granted, profile, model, stage, phase, clouded, crashes>>
      /\ job' = CancelJobs({TaskOf[m] : m \in InGroup(g)})
  BY DEF SetDictionary
<1>2. /\ job' \in Job /\ (job'.m = None) = (job'.pc = "idle")
      /\ job'.m = job.m /\ job'.copy = job.copy /\ job'.g = job.g
      /\ job'.pc = job.pc /\ job'.analysis = job.analysis
  BY <1>1, CancelJobsKeeps DEF Inv
<1>3. CASE saved
  <2>1. /\ dict' = [dict EXCEPT ![g] = dict[g] + 1]
        /\ mat' = DictionaryRows(g) /\ results' = DictionaryResults(g)
        /\ lost' \subseteq lost
    BY <1>3 DEF SetDictionary, DictionaryLost
  <2>2. dict' \in [Groups -> Nat]
    BY <2>1 DEF Inv, TypeOK
  <2>3. mat' \in [Materials -> Material] /\ results' \in [Materials -> Seq(Result)]
    <3>1. /\ mat' = [n \in Materials |-> DictionaryRows(g)[n]]
          /\ results' = [n \in Materials |-> DictionaryResults(g)[n]]
      BY <2>1 DEF DictionaryRows, DictionaryResults
    <3> QED BY <3>1, DictionaryRow
  <2>4. TypeOK'
    BY <1>1, <1>2, <2>1, <2>2, <2>3 DEF Inv, TypeOK
  <2>5. ASSUME NEW n \in Materials
        PROVE  \/ /\ mat'[n] = mat[n] /\ dict'[Group(n)] = dict[Group(n)]
                  /\ results'[n] = results[n]
               \/ /\ mat'[n].rev >= mat[n].rev /\ mat'[n].status # "running"
                  /\ RowOK(mat'[n], results'[n], dict'[Group(n)])
    <3>1. CASE Group(n) = g
      BY <2>1, <3>1, DictionaryRow
    <3>2. CASE Group(n) # g
      BY <2>1, <3>2, DictionaryRow, GroupType DEF Inv, TypeOK
    <3> QED BY <3>1, <3>2
  <2> QED BY <1>1, <1>2, <2>4, <2>5, RequestStep
<1>4. CASE ~saved
  <2>1. UNCHANGED <<mat, dict, results, lost>>
    BY <1>4 DEF SetDictionary
  <2>2. TypeOK'
    BY <1>1, <1>2, <2>1 DEF Inv, TypeOK
  <2> QED BY <1>1, <1>2, <2>1, <2>2, RequestStep
<1> QED BY <1>3, <1>4

\* What a review finds and stores.
LEMMA ReviewTypes ==
  ASSUME Inv, NEW m \in Materials, Reviewable(m), NEW d \in Nat,
         NEW review \in BOOLEAN, NEW marked \in BOOLEAN, NEW r \in Nat
  PROVE  /\ mat[m].text = mat[m].src
         /\ ReviewAnalysis(m, d, review) \in Analysis
         /\ ReviewAnalysis(m, d, review).src = mat[m].src
         /\ ReviewAnalysis(m, d, review).dict = d
         /\ ReviewStage(m, r, marked) \in [Materials -> Stage]
<1>1. mat[m] \in Material /\ mat[m].text = mat[m].src
  BY DEF Inv, TypeOK, RowsOK, RowOK, Reviewable
<1>2. /\ ReviewAnalysis(m, d, review) \in Analysis
      /\ ReviewAnalysis(m, d, review).src = mat[m].src
      /\ ReviewAnalysis(m, d, review).dict = d
  BY <1>1 DEF ReviewAnalysis, Material, Analysis
<1>3. ReviewStage(m, r, marked) \in [Materials -> Stage]
  <2> DEFINE st == [stage |-> "reviewed", rev |-> r, src |-> mat[m].src]
  <2>1. st \in Stage
    BY <1>1 DEF Stage, StageName, Material
  <2> QED BY <2>1 DEF ReviewStage, Inv, TypeOK
<1> QED BY <1>1, <1>2, <1>3

\* A row under another revision.
LEMMA BumpedRow ==
  ASSUME NEW c \in Material, NEW n \in Nat
  PROVE  /\ [c EXCEPT !.rev = n] \in Material
         /\ [c EXCEPT !.rev = n].rev = n
         /\ [c EXCEPT !.rev = n].result = c.result
         /\ [c EXCEPT !.rev = n].text = c.text
         /\ [c EXCEPT !.rev = n].src = c.src
BY DEF Material

\* review of one row with the dictionary unchanged.
LEMMA ReviewStep ==
  ASSUME Inv, NEW m \in Materials, NEW review \in BOOLEAN, NEW marked \in BOOLEAN,
         Review(m, review, marked)
  PROVE  Inv'
<1> USE DEF tables, settings, process, history
<1> DEFINE c == [mat[m] EXCEPT !.rev = mat[m].rev + 1]
           d == dict[Group(m)]
           a == ReviewAnalysis(m, d, review)
           f == Finished(m, c, d, a, FALSE)
           w == Withdrawn(m, c)
           rs == FinishedResults(w, c, d, a)
<1>1. /\ UNCHANGED <<dict, consent, granted, profile, model, job, phase, lost, clouded,
                     crashes>>
      /\ mat' = [mat EXCEPT ![m] = f] /\ results' = [results EXCEPT ![m] = rs]
      /\ stage' = ReviewStage(m, c.rev, marked) /\ Reviewable(m)
  BY DEF Review
<1>2. /\ mat[m] \in Material /\ mat[m].rev + 1 \in Nat /\ mat[m].rev \in Nat
      /\ d \in Nat /\ RowOK(mat[m], results[m], d)
  BY GroupType DEF Inv, TypeOK, Material, RowsOK
<1>4. /\ c \in Material /\ c.rev = mat[m].rev + 1 /\ c.result = mat[m].result
      /\ c.text = mat[m].text /\ c.src = mat[m].src
  BY <1>2, BumpedRow
<1>5. /\ mat[m].text = mat[m].src /\ a \in Analysis /\ a.src = mat[m].src
      /\ a.dict = d /\ stage' \in [Materials -> Stage]
  BY <1>1, <1>2, <1>4, ReviewTypes
<1>6. /\ w \in Seq(Result) /\ Len(w) = Len(results[m])
      /\ \A i \in 1..Len(results[m]) : w[i].revoked
  BY <1>2, <1>4, WithdrawnRows DEF Inv
<1> HIDE DEF c, d, a, w
<1>7. /\ f \in Material /\ f.status # "running" /\ f.rev = c.rev
      /\ rs \in Seq(Result) /\ RowOK(f, rs, d)
  <2> DEFINE no == FALSE
  <2>1. c.text = c.src /\ a.src = c.src /\ no \in BOOLEAN /\ TypeOK
    BY <1>4, <1>5 DEF Inv
  <2> HIDE DEF no
  <2>2. /\ Finished(m, c, d, a, no) \in Material
        /\ Finished(m, c, d, a, no).status \notin {"none", "running"}
        /\ Finished(m, c, d, a, no).rev = c.rev
        /\ rs \in Seq(Result) /\ RowOK(Finished(m, c, d, a, no), rs, d)
    BY <1>2, <1>4, <1>5, <1>6, <2>1, FinishedRow
  <2> QED BY <2>2 DEF no
<1> HIDE DEF f, rs
<1>8. TypeOK'
  BY <1>1, <1>5, <1>7 DEF Inv, TypeOK
<1>9. ASSUME NEW n \in Materials
      PROVE  \/ /\ mat'[n] = mat[n] /\ dict'[Group(n)] = dict[Group(n)]
                /\ results'[n] = results[n]
             \/ /\ mat'[n].rev >= mat[n].rev /\ mat'[n].status # "running"
                /\ RowOK(mat'[n], results'[n], dict'[Group(n)])
  BY <1>1, <1>2, <1>4, <1>7 DEF Inv, TypeOK, d
<1> QED BY <1>1, <1>8, <1>9, RequestStep

\* review that also extends the dictionary: the group's other rows follow it.
LEMMA ReviewDictionaryStep ==
  ASSUME Inv, NEW m \in Materials, NEW review \in BOOLEAN, NEW marked \in BOOLEAN,
         ReviewWithDictionary(m, review, marked)
  PROVE  Inv'
<1> USE DEF tables, settings, process, history
<1> DEFINE g == Group(m)
           q == Requeued(mat[m])
           c == [q EXCEPT !.rev = q.rev + 1]
           d == dict[g] + 1
           a == ReviewAnalysis(m, d, review)
           f == Finished(m, c, d, a, FALSE)
           w == Withdrawn(m, mat[m])
           rs == FinishedResults(w, c, d, a)
<1>1. /\ UNCHANGED <<consent, granted, profile, model, phase, clouded, crashes>>
      /\ dict' = [dict EXCEPT ![g] = d]
      /\ mat' = [DictionaryRows(g) EXCEPT ![m] = f]
      /\ results' = [DictionaryResults(g) EXCEPT ![m] = rs]
      /\ job' = CancelJobs({TaskOf[o] : o \in InGroup(g)})
      /\ stage' = ReviewStage(m, c.rev, marked) /\ Reviewable(m)
      /\ lost' \subseteq lost
  BY DEF ReviewWithDictionary, DictionaryLost
<1>2. /\ g \in Groups /\ mat[m] \in Material /\ mat[m].rev \in Nat
      /\ dict[g] \in Nat /\ d \in Nat /\ RowOK(mat[m], results[m], dict[g])
  BY GroupType DEF Inv, TypeOK, Material, RowsOK
<1>3. /\ q \in Material /\ q.rev = mat[m].rev + 1 /\ q.rev + 1 \in Nat
      /\ q.src = mat[m].src /\ q.text = mat[m].text
  <2>1. mat[m].text \in {None, mat[m].src}
    BY <1>2 DEF RowOK
  <2> QED BY <1>2, <2>1, RequeuedRow
<1> HIDE DEF q
<1>5. /\ c \in Material /\ c.rev = q.rev + 1 /\ c.text = mat[m].text
      /\ c.src = mat[m].src
  BY <1>3, BumpedRow
<1>6. /\ mat[m].text = mat[m].src /\ a \in Analysis /\ a.src = mat[m].src
      /\ a.dict = d /\ stage' \in [Materials -> Stage]
  BY <1>1, <1>2, <1>3, <1>5, ReviewTypes
<1>7. /\ w \in Seq(Result) /\ Len(w) = Len(results[m])
      /\ \A i \in 1..Len(results[m]) : w[i].revoked
  BY <1>2, WithdrawnRows DEF Inv
<1> HIDE DEF c, d, a, w, g
<1>8. /\ f \in Material /\ f.status # "running" /\ f.rev = c.rev
      /\ rs \in Seq(Result) /\ RowOK(f, rs, d)
  <2> DEFINE no == FALSE
  <2>1. c.text = c.src /\ a.src = c.src /\ no \in BOOLEAN /\ TypeOK
    BY <1>5, <1>6 DEF Inv
  <2> HIDE DEF no
  <2>2. /\ Finished(m, c, d, a, no) \in Material
        /\ Finished(m, c, d, a, no).status \notin {"none", "running"}
        /\ Finished(m, c, d, a, no).rev = c.rev
        /\ rs \in Seq(Result) /\ RowOK(Finished(m, c, d, a, no), rs, d)
    BY <1>2, <1>5, <1>6, <1>7, <2>1, FinishedRow
  <2> QED BY <2>2 DEF no
<1> HIDE DEF f, rs
<1>9. /\ job' \in Job /\ (job'.m = None) = (job'.pc = "idle")
      /\ job'.m = job.m /\ job'.copy = job.copy /\ job'.g = job.g
      /\ job'.pc = job.pc /\ job'.analysis = job.analysis
  BY <1>1, CancelJobsKeeps DEF Inv
<1>10. ASSUME NEW n \in Materials
       PROVE  /\ mat'[n] = IF n = m THEN f ELSE DictionaryRows(g)[n]
              /\ results'[n] = IF n = m THEN rs ELSE DictionaryResults(g)[n]
  BY <1>1 DEF DictionaryRows, DictionaryResults
<1>11. mat' \in [Materials -> Material] /\ results' \in [Materials -> Seq(Result)]
  <2>1. /\ mat' = [n \in Materials |-> mat'[n]]
        /\ results' = [n \in Materials |-> results'[n]]
    BY <1>1 DEF DictionaryRows, DictionaryResults
  <2>2. \A n \in Materials : mat'[n] \in Material /\ results'[n] \in Seq(Result)
    BY <1>2, <1>8, <1>10, DictionaryRow
  <2> QED BY <2>1, <2>2
<1>12. dict' \in [Groups -> Nat]
  BY <1>1, <1>2 DEF Inv, TypeOK
<1>13. TypeOK'
  BY <1>1, <1>6, <1>9, <1>11, <1>12 DEF Inv, TypeOK
<1>14. ASSUME NEW n \in Materials
       PROVE  \/ /\ mat'[n] = mat[n] /\ dict'[Group(n)] = dict[Group(n)]
                 /\ results'[n] = results[n]
              \/ /\ mat'[n].rev >= mat[n].rev /\ mat'[n].status # "running"
                 /\ RowOK(mat'[n], results'[n], dict'[Group(n)])
  <2>1. dict'[g] = d /\ \A h \in Groups : h # g => dict'[h] = dict[h]
    BY <1>1, <1>2 DEF Inv, TypeOK
  <2>2. CASE n = m
    <3>1. f.rev >= mat[m].rev
      BY <1>2, <1>3, <1>5, <1>8
    <3> QED BY <1>8, <1>10, <2>1, <2>2, <3>1 DEF g
  <2>3. CASE n # m /\ Group(n) = g
    BY <1>2, <1>10, <2>1, <2>3, DictionaryRow
  <2>4. CASE n # m /\ Group(n) # g
    BY <1>2, <1>10, <2>1, <2>4, DictionaryRow, GroupType
  <2> QED BY <2>2, <2>3, <2>4
<1> QED BY <1>1, <1>9, <1>13, <1>14, RequestStep

\* Time passes for a result.
LEMMA ExpireStep ==
  ASSUME Inv, NEW m \in Materials, ExpireResult(m)
  PROVE  Inv'
<1> USE DEF tables, settings, process, history
<1> DEFINE rs == results[m]
           k == mat[m].result
           e == [rs[k] EXCEPT !.expired = TRUE]
           ns == [rs EXCEPT ![k] = e]
<1>1. /\ UNCHANGED <<mat, dict, consent, granted, profile, model, stage, job, phase,
                     lost, clouded, crashes>>
      /\ results' = [results EXCEPT ![m] = ns] /\ k # 0
  BY DEF ExpireResult
<1>2. /\ RowOK(mat[m], rs, dict[Group(m)]) /\ rs \in Seq(Result) /\ Len(rs) \in Nat
  BY LenProperties DEF Inv, TypeOK, RowsOK
<1>3. k \in 1..Len(rs)
  BY <1>1, <1>2 DEF RowOK
<1>4. rs[k] \in Result
  BY <1>2, <1>3, ElementOfSeq
<1>5. /\ e \in Result /\ e.revoked = rs[k].revoked /\ e.rev = rs[k].rev
      /\ e.src = rs[k].src /\ e.dict = rs[k].dict /\ e.adict = rs[k].adict
  BY <1>4 DEF Result
<1> HIDE DEF e
<1>6. /\ ns \in Seq(Result) /\ Len(ns) = Len(rs)
      /\ \A j \in 1..Len(rs) : ns[j] = IF j = k THEN e ELSE rs[j]
  BY <1>2, <1>3, <1>5, ExceptSeq
<1> HIDE DEF ns
<1>7. RowOK(mat[m], ns, dict[Group(m)])
  BY <1>2, <1>3, <1>5, <1>6 DEF RowOK
<1>8. TypeOK'
  BY <1>1, <1>6 DEF Inv, TypeOK
<1>9. RowsOK'
  BY <1>1, <1>7 DEF Inv, RowsOK, TypeOK, Group
<1>10. CopyIsCurrent' /\ JobConsistent'
  BY <1>1 DEF Inv, CopyIsCurrent, JobConsistent, Current, Group
<1> QED BY <1>8, <1>9, <1>10 DEF Inv

-----------------------------------------------------------------------------
(* The worker's own writes. *)

\* One row and its results are replaced by rows in order.
LEMMA OneRow ==
  ASSUME Inv, NEW m \in Materials, NEW c \in Material, NEW rs \in Seq(Result),
         mat' = [mat EXCEPT ![m] = c], results' = [results EXCEPT ![m] = rs],
         dict' = dict, RowOK(c, rs, dict[Group(m)])
  PROVE  /\ mat' \in [Materials -> Material] /\ results' \in [Materials -> Seq(Result)]
         /\ RowsOK'
<1>1. mat' \in [Materials -> Material] /\ results' \in [Materials -> Seq(Result)]
  BY DEF Inv, TypeOK
<1>2. ASSUME NEW n \in Materials PROVE RowOK(mat'[n], results'[n], dict'[Group(n)])
  BY DEF Inv, RowsOK, TypeOK
<1>3. RowsOK'
  BY <1>2 DEF RowsOK, Group
<1> QED BY <1>1, <1>3

\* The worker drops its job and leaves the tables alone.
LEMMA JobEnds ==
  ASSUME Inv, job' = IdleJob,
         UNCHANGED <<mat, dict, results, consent, granted, profile, model, stage, phase,
                     lost, clouded, crashes>>
  PROVE  Inv'
<1>1. TypeOK'
  BY IdleJobType DEF Inv, TypeOK, IdleJob
<1>2. RowsOK' /\ CopyIsCurrent' /\ JobConsistent'
  BY JobStep DEF tables
<1> QED BY <1>1, <1>2 DEF Inv

\* A new status on a row without a result, the worker idle afterwards.
LEMMA StatusStep ==
  ASSUME Inv, NEW m \in Materials, mat[m].status \notin {"ready", "none"},
         NEW st \in Status \ {"ready", "none"},
         mat' = [mat EXCEPT ![m].status = st],
         job' \in Job, job'.m = None, job'.pc = "idle",
         UNCHANGED <<dict, results, consent, granted, profile, model, phase, lost,
                     clouded, crashes>>,
         stage' \in [Materials -> Stage]
  PROVE  Inv'
<1> DEFINE c == [mat[m] EXCEPT !.status = st]
<1>1. mat[m] \in Material
  BY DEF Inv, TypeOK
<1>2. /\ c \in Material /\ c.status = st /\ c.result = mat[m].result
      /\ c.text = mat[m].text /\ c.src = mat[m].src /\ c.analysis = mat[m].analysis
  BY <1>1 DEF Material
<1>3. /\ mat[m].result = 0 /\ results[m] \in Seq(Result)
      /\ \A i \in 1..Len(results[m]) : results[m][i].revoked
  BY NotReadyRevoked DEF Inv, TypeOK
<1>4. c.text \in {None, c.src} /\ c.analysis.src \in {None, c.src}
  BY <1>2 DEF Inv, RowsOK, RowOK
<1>5. mat' = [mat EXCEPT ![m] = c] /\ results' = [results EXCEPT ![m] = results[m]]
  BY DEF Inv, TypeOK
<1> HIDE DEF c
<1>6. RowOK(c, results[m], dict[Group(m)])
  BY <1>2, <1>3, <1>4, PlainRow
<1>7. mat' \in [Materials -> Material] /\ RowsOK'
  BY <1>2, <1>3, <1>5, <1>6, OneRow
<1>8. TypeOK'
  BY <1>7 DEF Inv, TypeOK
<1>9. CopyIsCurrent' /\ JobConsistent'
  BY DEF CopyIsCurrent, JobConsistent
<1> QED BY <1>7, <1>8, <1>9 DEF Inv

\* A running row holds no result: what the worker writes under it may publish.
LEMMA WorkerRow ==
  ASSUME Inv, job.m # None, Current
  PROVE  /\ job.m \in Materials /\ mat[job.m] \in Material
         /\ mat[job.m] = job.copy /\ dict[Group(job.m)] = job.g /\ job.g \in Nat
         /\ mat[job.m].status = "running" /\ mat[job.m].result = 0
         /\ results[job.m] \in Seq(Result)
         /\ \A i \in 1..Len(results[job.m]) : results[job.m][i].revoked
<1>1. job.m \in Materials /\ job.g \in Nat
  BY DEF Inv, TypeOK, Job
<1>2. mat[job.m].status = "running"
  BY DEF Current
<1> QED BY <1>1, <1>2, NotReadyRevoked DEF Inv, TypeOK, CopyIsCurrent

\* claim_next: the worker's copy is the row it has just marked running.
LEMMA ClaimStep ==
  ASSUME Inv, NEW m \in Materials, Claim(m)
  PROVE  Inv'
<1> USE DEF tables, settings, process, history
<1> DEFINE d == dict[Group(m)]
           c == [mat[m] EXCEPT !.status = "running", !.dict = d]
           j == [IdleJob EXCEPT !.pc = "select", !.m = m, !.copy = c, !.g = d]
<1>1. /\ UNCHANGED <<dict, results, consent, granted, profile, model, stage, phase,
                     lost, clouded, crashes>>
      /\ mat' = [mat EXCEPT ![m] = c] /\ job' = j
      /\ mat[m].status = "queued" /\ phase = "up"
  BY DEF Claim
<1>2. mat[m] \in Material /\ d \in Nat /\ mat[m].rev \in Nat
  BY GroupType DEF Inv, TypeOK, Material
<1>3. /\ c \in Material /\ c.status = "running" /\ c.rev = mat[m].rev
      /\ c.result = mat[m].result /\ c.text = mat[m].text /\ c.src = mat[m].src
      /\ c.analysis = mat[m].analysis
  BY <1>2 DEF Material, Status
<1>4. /\ mat[m].result = 0 /\ results[m] \in Seq(Result)
      /\ \A i \in 1..Len(results[m]) : results[m][i].revoked
  BY <1>1, NotReadyRevoked DEF Inv, TypeOK
<1>5. c.text \in {None, c.src} /\ c.analysis.src \in {None, c.src}
  BY <1>3 DEF Inv, RowsOK, RowOK
<1> HIDE DEF c, d
<1>6. RowOK(c, results[m], d)
  BY <1>3, <1>4, <1>5, PlainRow
<1>7. results' = [results EXCEPT ![m] = results[m]]
  BY <1>1 DEF Inv, TypeOK
<1>8. mat' \in [Materials -> Material] /\ RowsOK'
  BY <1>1, <1>3, <1>4, <1>6, <1>7, OneRow DEF d
<1>9. /\ j \in Job /\ j.pc = "select" /\ j.m = m /\ j.copy = c /\ j.g = d
  BY <1>2, <1>3, IdleJobType DEF Job, PC
<1>10. m # None
  BY ConstantsAssumption
<1> HIDE DEF j
<1>11. TypeOK'
  BY <1>1, <1>8, <1>9, <1>10 DEF Inv, TypeOK
<1>12. CopyIsCurrent'
  BY <1>1, <1>9 DEF CopyIsCurrent, Inv, TypeOK, Group, d
<1>13. JobConsistent'
  <2>1. mat'[m] = c
    BY <1>1 DEF Inv, TypeOK
  <2> QED BY <1>1, <1>2, <1>3, <1>9, <2>1 DEF JobConsistent
<1> QED BY <1>8, <1>11, <1>12, <1>13 DEF Inv

\* The worker writes text, and perhaps an analysis of it, on its current row.
LEMMA WriteBack ==
  ASSUME Inv, job.m # None, Current, phase = "up", NEW c \in Material, NEW j \in Job,
         c.status = "running", c.rev = job.copy.rev, c.src = job.copy.src,
         c.text = c.src, c.analysis.src \in {None, c.src}, c.result = 0,
         mat' = [mat EXCEPT ![job.m] = c], job' = j,
         j.m = job.m, j.copy = c, j.g = job.g, j.pc \in {"text_ready", "claim_cloud", "finish"},
         j.pc # "text_ready" => j.analysis.src = c.src /\ j.analysis.dict = job.g,
         UNCHANGED <<dict, results, consent, granted, profile, model, stage, phase,
                     lost, clouded, crashes>>
  PROVE  Inv'
<1>1. /\ job.m \in Materials /\ mat[job.m] = job.copy /\ dict[Group(job.m)] = job.g
      /\ results[job.m] \in Seq(Result)
      /\ \A i \in 1..Len(results[job.m]) : results[job.m][i].revoked
  BY WorkerRow
<1>2. RowOK(c, results[job.m], dict[Group(job.m)])
  BY <1>1, PlainRow
<1>3. results' = [results EXCEPT ![job.m] = results[job.m]]
  BY <1>1 DEF Inv, TypeOK
<1>4. mat' \in [Materials -> Material] /\ RowsOK'
  BY <1>1, <1>2, <1>3, OneRow
<1>5. TypeOK'
  BY <1>4 DEF Inv, TypeOK
<1>6. mat'[job.m] = c /\ c.rev \in Nat
  BY <1>1 DEF Inv, TypeOK, Material
<1>7. CopyIsCurrent'
  BY <1>1, <1>6 DEF CopyIsCurrent, Group
<1>8. JobConsistent'
  BY <1>6 DEF JobConsistent
<1> QED BY <1>4, <1>5, <1>7, <1>8 DEF Inv

\* The model path's text is stored on the fresh row.
LEMMA SaveTextStep ==
  ASSUME Inv, SaveText
  PROVE  Inv'
<1> USE DEF tables, settings, process, history
<1>1. /\ UNCHANGED <<dict, results, consent, granted, profile, model, stage, phase,
                     lost, clouded, crashes>>
      /\ job.pc = "ocr_done" /\ phase = "up"
  BY DEF SaveText, At
<1>2. CASE ~Current
  BY <1>1, <1>2, JobEnds DEF SaveText
<1>3. CASE Current
  <2> DEFINE c == [mat[job.m] EXCEPT !.text = job.copy.src]
             j == [job EXCEPT !.copy = c, !.pc = "text_ready"]
  <2>1. mat' = [mat EXCEPT ![job.m] = c] /\ job' = j
    BY <1>3 DEF SaveText
  <2>2. job.m # None
    BY <1>1 DEF Inv, TypeOK
  <2>3. /\ job.m \in Materials /\ mat[job.m] \in Material /\ mat[job.m] = job.copy
        /\ mat[job.m].status = "running" /\ mat[job.m].result = 0
    BY <1>3, <2>2, WorkerRow
  <2>4. /\ c \in Material /\ c.status = "running" /\ c.rev = job.copy.rev
        /\ c.src = job.copy.src /\ c.text = c.src
        /\ c.analysis = mat[job.m].analysis /\ c.result = 0
    BY <2>3 DEF Material
  <2>5. c.analysis.src \in {None, c.src}
    BY <2>3, <2>4 DEF Inv, RowsOK, RowOK
  <2> HIDE DEF c
  <2>6. j \in Job /\ j.m = job.m /\ j.copy = c /\ j.g = job.g /\ j.pc = "text_ready"
    BY <2>4 DEF Inv, TypeOK, Job, PC
  <2> HIDE DEF j
  <2> QED BY <1>1, <1>3, <2>1, <2>2, <2>4, <2>5, <2>6, WriteBack
<1> QED BY <1>2, <1>3

\* The local path's text and analysis are stored.
LEMMA LocalAnalyzeStep ==
  ASSUME Inv, NEW review \in BOOLEAN, LocalAnalyze(review)
  PROVE  Inv'
<1> USE DEF tables, settings, process, history
<1> DEFINE a == [src |-> job.copy.src, dict |-> job.g, ai |-> FALSE, review |-> review]
           c == [job.copy EXCEPT !.text = job.copy.src, !.analysis = a]
           pc == IF review THEN "claim_cloud" ELSE "finish"
           j == [job EXCEPT !.copy = c, !.analysis = a, !.pc = pc]
<1>1. /\ UNCHANGED <<dict, results, consent, granted, profile, model, stage, phase,
                     lost, clouded, crashes>>
      /\ job.pc = "local" /\ phase = "up"
  BY DEF LocalAnalyze, At
<1>2. CASE ~Current
  BY <1>1, <1>2, JobEnds DEF LocalAnalyze
<1>3. CASE Current
  <2>1. mat' = [mat EXCEPT ![job.m] = c] /\ job' = j
    BY <1>3 DEF LocalAnalyze
  <2>2. job.m # None
    BY <1>1 DEF Inv, TypeOK
  <2>3. /\ job.m \in Materials /\ mat[job.m] = job.copy /\ job.copy \in Material
        /\ job.g \in Nat /\ job.copy.status = "running" /\ job.copy.result = 0
    BY <1>3, <2>2, WorkerRow
  <2>4. a \in Analysis /\ a.src = job.copy.src /\ a.dict = job.g
    BY <2>3 DEF Analysis, Material
  <2> HIDE DEF a
  <2>5. /\ c \in Material /\ c.status = "running" /\ c.rev = job.copy.rev
        /\ c.src = job.copy.src /\ c.text = c.src /\ c.analysis = a /\ c.result = 0
    BY <2>3, <2>4 DEF Material
  <2>6. pc \in {"claim_cloud", "finish"} /\ pc \in PC
    BY DEF PC
  <2> HIDE DEF c, pc
  <2>7. /\ j \in Job /\ j.m = job.m /\ j.copy = c /\ j.g = job.g /\ j.pc = pc
        /\ j.analysis = a
    BY <2>4, <2>5, <2>6 DEF Inv, TypeOK, Job
  <2> HIDE DEF j
  <2> QED BY <1>1, <1>3, <2>1, <2>2, <2>4, <2>5, <2>6, <2>7, WriteBack
<1> QED BY <1>2, <1>3

\* settle_material_failure: a compare-and-set on the revision.
LEMMA SettleStep ==
  ASSUME Inv, Settle
  PROVE  Inv'
<1> USE DEF tables, settings, process, history
<1>1. /\ UNCHANGED <<dict, results, consent, granted, profile, model, stage, phase,
                     lost, clouded, crashes>>
      /\ job.pc = "settle" /\ job' = IdleJob
  BY DEF Settle, At
<1>2. CASE ~Current
  BY <1>1, <1>2, JobEnds DEF Settle
<1>3. CASE Current
  <2> DEFINE st == "failed"
  <2>1. mat' = [mat EXCEPT ![job.m].status = st]
    BY <1>3 DEF Settle
  <2>2. job.m \in Materials
    BY <1>1 DEF Inv, TypeOK, Job
  <2>3. mat[job.m].status \notin {"ready", "none"}
    BY <1>3 DEF Current
  <2>4. st \in Status \ {"ready", "none"}
    BY DEF Status
  <2>5. stage' \in [Materials -> Stage]
    BY <1>1 DEF Inv, TypeOK
  <2>6. job' \in Job /\ job'.m = None /\ job'.pc = "idle"
    BY <1>1, IdleJobType DEF IdleJob
  <2> HIDE DEF st
  <2> QED BY <1>1, <2>1, <2>2, <2>3, <2>4, <2>5, <2>6, StatusStep
<1> QED BY <1>2, <1>3

\* The critical section that publishes: the worker's copy is the row, no result
\* of the row is valid, and the analysis is of the row's source.
LEMMA FinishStep ==
  ASSUME Inv, job.pc \in {"ai_finish", "finish"}, phase = "up", NEW a \in Analysis,
         a.src = job.copy.src, a.dict = job.g, NEW waiting \in BOOLEAN,
         NEW pc \in {"idle", "ai_stage"}, Finish(a, waiting, pc)
  PROVE  Inv'
<1> USE DEF tables, settings, process, history
<1>1. /\ UNCHANGED <<dict, consent, granted, profile, model, stage, phase, lost,
                     clouded, crashes>>
  BY DEF Finish
<1>2. job.m # None /\ job.copy.text = job.copy.src
  BY DEF Inv, TypeOK, JobConsistent
<1>3. CASE ~Current
  BY <1>1, <1>3, JobEnds DEF Finish
<1>4. CASE Current
  <2> DEFINE m == job.m
             c == job.copy
             w == Withdrawn(m, c)
             f == Finished(m, c, job.g, a, waiting)
             rs == FinishedResults(w, c, job.g, a)
             j == [job EXCEPT !.pc = pc, !.analysis = a]
  <2>1. /\ m \in Materials /\ mat[m] = c /\ dict[Group(m)] = job.g
        /\ c \in Material /\ job.g \in Nat /\ c.result = mat[m].result
    BY <1>2, <1>4, WorkerRow
  <2>2. /\ mat' = [mat EXCEPT ![m] = f] /\ results' = [results EXCEPT ![m] = rs]
        /\ job' = IF pc = "idle" THEN IdleJob ELSE j
    BY <1>4, <2>1 DEF Finish
  <2>3. RowOK(mat[m], results[m], dict[Group(m)])
    BY <2>1 DEF Inv, RowsOK
  <2>4. /\ w \in Seq(Result) /\ Len(w) = Len(results[m])
        /\ \A i \in 1..Len(results[m]) : w[i].revoked
    BY <2>1, <2>3, WithdrawnRows DEF Inv
  <2>5. TypeOK /\ job \in Job
    BY DEF Inv, TypeOK
  <2> HIDE DEF w, m, c
  <2>6. /\ f \in Material /\ f.status \notin {"none", "running"} /\ f.rev = c.rev
        /\ rs \in Seq(Result) /\ RowOK(f, rs, job.g)
    <3>1. c.text = c.src /\ a.src = c.src
      BY <1>2 DEF c
    <3> QED BY <2>1, <2>4, <2>5, <3>1, FinishedRow
  <2> HIDE DEF f, rs
  <2>7. /\ mat' \in [Materials -> Material] /\ results' \in [Materials -> Seq(Result)]
        /\ RowsOK'
    BY <1>1, <2>1, <2>2, <2>6, OneRow
  <2>8. mat'[m] = f
    BY <2>1, <2>2, <2>5 DEF TypeOK
  <2>9. CASE pc = "idle"
    <3>1. job' = IdleJob
      BY <2>2, <2>9
    <3>2. TypeOK'
      BY <1>1, <2>5, <2>7, <3>1, IdleJobType DEF TypeOK, IdleJob
    <3>3. CopyIsCurrent' /\ JobConsistent'
      BY <3>1 DEF CopyIsCurrent, JobConsistent, IdleJob
    <3> QED BY <2>7, <3>2, <3>3 DEF Inv
  <2>10. CASE pc = "ai_stage"
    <3>1. job' = j
      BY <2>2, <2>10
    <3>2. /\ j \in Job /\ j.pc = "ai_stage" /\ j.m = m /\ j.copy = c /\ j.g = job.g
      BY <2>5, <2>10 DEF Job, PC, m, c
    <3> HIDE DEF j
    <3>3. TypeOK'
      BY <1>1, <1>2, <2>5, <2>7, <3>1, <3>2 DEF TypeOK, m
    <3>4. CopyIsCurrent'
      BY <2>6, <2>8, <3>1, <3>2 DEF CopyIsCurrent, Current
    <3>5. JobConsistent'
      <4>1. c.rev \in Nat
        BY <2>1 DEF Material
      <4> QED BY <1>1, <2>6, <2>8, <3>1, <3>2, <4>1 DEF JobConsistent
    <3> QED BY <2>7, <3>3, <3>4, <3>5 DEF Inv
  <2> QED BY <2>9, <2>10
<1> QED BY <1>3, <1>4

\* The ends of the model path and of the local path.
LEMMA FinishSteps ==
  ASSUME Inv, AiFinish \/ LocalFinish
  PROVE  Inv'
<1>1. CASE AiFinish
  <2>1. /\ job.pc = "ai_finish" /\ phase = "up" /\ Finish(job.analysis, FALSE, "ai_stage")
    BY <1>1 DEF AiFinish, At
  <2>2. /\ job.analysis \in Analysis /\ job.analysis.src = job.copy.src
        /\ job.analysis.dict = job.g
    BY <2>1 DEF Inv, TypeOK, Job, JobConsistent
  <2> DEFINE no == FALSE
  <2>3. no \in BOOLEAN /\ Finish(job.analysis, no, "ai_stage")
    BY <2>1
  <2> HIDE DEF no
  <2> QED BY <2>1, <2>2, <2>3, FinishStep
<1>2. CASE LocalFinish
  <2> DEFINE a == [job.analysis EXCEPT !.review = job.analysis.review \/ job.cancelled]
             waiting == job.waiting /\ ~job.cancelled
  <2>1. job.pc = "finish" /\ phase = "up" /\ Finish(a, waiting, "idle")
    BY <1>2 DEF LocalFinish, At
  <2>2. /\ job.analysis \in Analysis /\ job.analysis.src = job.copy.src
        /\ job.analysis.dict = job.g /\ job.cancelled \in BOOLEAN
        /\ job.waiting \in BOOLEAN
    BY <2>1 DEF Inv, TypeOK, Job, JobConsistent
  <2>3. a \in Analysis /\ a.src = job.copy.src /\ a.dict = job.g
    BY <2>2 DEF Analysis
  <2>4. waiting \in BOOLEAN
    BY <2>2
  <2> HIDE DEF a, waiting
  <2> QED BY <2>1, <2>3, <2>4, FinishStep
<1> QED BY <1>1, <1>2

\* The two recovery passes of Workspace::open.
LEMMA RecoverySteps ==
  ASSUME Inv, NEW m \in Materials, RecoverMaterial(m) \/ RecoverStage(m)
  PROVE  Inv'
<1> USE DEF tables, settings, process, history
<1>1. /\ UNCHANGED <<dict, results, consent, granted, profile, model, job, phase, lost,
                     clouded, crashes>>
      /\ phase # "up"
  BY DEF RecoverMaterial, RecoverStage
<1>2. job' \in Job /\ job'.m = None /\ job'.pc = "idle"
  BY <1>1 DEF Inv, TypeOK, JobConsistent
<1>3. CASE RecoverMaterial(m)
  <2> DEFINE st == IF consent[TaskOf[m]].id # 0 /\ m \in consent[TaskOf[m]].used
                   THEN "needs_review" ELSE "queued"
  <2>1. /\ mat' = [mat EXCEPT ![m].status = st] /\ mat[m].status = "running"
        /\ stage' = stage
    BY <1>3 DEF RecoverMaterial
  <2>2. st \in Status \ {"ready", "none"}
    BY DEF Status
  <2>3. mat[m].status \notin {"ready", "none"} /\ stage' \in [Materials -> Stage]
    BY <2>1 DEF Inv, TypeOK
  <2> HIDE DEF st
  <2> QED BY <1>1, <1>2, <2>1, <2>2, <2>3, StatusStep
<1>4. CASE RecoverStage(m)
  <2>1. CASE mat' = [mat EXCEPT ![m].status = "needs_review"]
             /\ mat[m].status \in {"running", "queued"} /\ stage' = stage
    <3> DEFINE st == "needs_review"
    <3>1. st \in Status \ {"ready", "none"} /\ mat' = [mat EXCEPT ![m].status = st]
      BY <2>1 DEF Status
    <3>2. mat[m].status \notin {"ready", "none"} /\ stage' \in [Materials -> Stage]
      BY <2>1 DEF Inv, TypeOK
    <3> HIDE DEF st
    <3> QED BY <1>1, <1>2, <3>1, <3>2, StatusStep
  <2>2. CASE stage' = [stage EXCEPT ![m].stage = "interrupted"] /\ mat' = mat
    <3>1. [stage[m] EXCEPT !.stage = "interrupted"] \in Stage
      BY DEF Inv, TypeOK, Stage, StageName
    <3>2. stage' \in [Materials -> Stage]
      BY <2>2, <3>1 DEF Inv, TypeOK
    <3>3. TypeOK'
      BY <1>1, <2>2, <3>2 DEF Inv, TypeOK
    <3>4. RowsOK' /\ CopyIsCurrent' /\ JobConsistent'
      BY <1>1, <2>2 DEF Inv, RowsOK, RowOK, CopyIsCurrent, JobConsistent, Current, Group
    <3> QED BY <3>3, <3>4 DEF Inv
  <2> QED BY <1>4, <2>1, <2>2 DEF RecoverStage
<1> QED BY <1>3, <1>4

-----------------------------------------------------------------------------
(* The invariant and what follows from it. *)

\* The empty workspace satisfies the invariant.
LEMMA InitInv == Init => Inv
<1> SUFFICES ASSUME Init PROVE Inv
  OBVIOUS
<1>1. NoAnalysis \in Analysis /\ NoAnalysis.src = None
  BY DEF NoAnalysis, Analysis
<1>2. /\ NoMaterial \in Material /\ NoMaterial.result = 0 /\ NoMaterial.rev = 0
      /\ NoMaterial.status = "none" /\ NoMaterial.text = None
      /\ NoMaterial.analysis = NoAnalysis
  BY <1>1 DEF NoMaterial, Material, Status
<1>3. NoConsent \in Consent /\ NoStage \in Stage
  BY DEF NoConsent, Consent, NoStage, Stage, StageName
<1>4. << >> \in Seq(Result) /\ Len(<< >>) = 0
  OBVIOUS
<1>5. TypeOK
  BY <1>2, <1>3, <1>4, IdleJobType, ConstantsAssumption DEF Init, TypeOK, IdleJob
<1>6. ASSUME NEW m \in Materials PROVE RowOK(mat[m], results[m], dict[Group(m)])
  <2>1. mat[m] = NoMaterial /\ results[m] = << >>
    BY DEF Init
  <2>2. mat[m].analysis.src = None
    BY <1>1, <1>2, <2>1
  <2>3. Len(results[m]) = 0
    BY <1>4, <2>1
  <2>4. \A i \in 1..Len(results[m]) : FALSE
    BY <2>3
  <2> QED BY <1>2, <2>1, <2>2, <2>3, <2>4 DEF RowOK
<1>7. CopyIsCurrent /\ JobConsistent
  BY DEF Init, CopyIsCurrent, JobConsistent, IdleJob
<1> QED BY <1>5, <1>6, <1>7 DEF Inv, RowsOK

\* Every step of the workspace keeps the invariant.
LEMMA NextInv == Inv /\ [Next]_vars => Inv'
<1> SUFFICES ASSUME Inv, [Next]_vars PROVE Inv'
  OBVIOUS
<1>1. CASE UserNext
  BY <1>1, SubmitStep, GrantStep, SettingsSteps, CancelStep, RetryStep, ReplaceStep,
     RevokeStep, SetDictionaryStep, ReviewStep, ReviewDictionaryStep, ExpireStep
     DEF UserNext
<1>2. CASE WorkerNext
  BY <1>2, ClaimStep, WorkerMoves, StageMoves, DispatchSteps, SaveTextStep,
     LocalAnalyzeStep, FinishSteps, SettleStep DEF WorkerNext
<1>3. CASE RecoveryNext
  BY <1>3, RecoverySteps, PhaseSteps DEF RecoveryNext
<1>4. CASE Crash
  BY <1>4, PhaseSteps
<1>5. CASE UNCHANGED vars
  BY <1>5 DEF vars, Inv, TypeOK, RowsOK, RowOK, CopyIsCurrent, JobConsistent, Current,
              Group
<1> QED BY <1>1, <1>2, <1>3, <1>4, <1>5 DEF Next

\* The inductive invariant holds in every reachable state.
THEOREM InvariantHolds == Spec => []PublicationInvariant
<1>1. Init => PublicationInvariant
  BY InitInv, InvForms
<1>2. PublicationInvariant /\ [Next]_vars => PublicationInvariant'
  <2>1. PublicationInvariant' <=> Inv'
    BY DEF PublicationInvariant, Inv, RowsOK, RowOK, ResultIndex, PublishedIsCurrent,
           TextOfSource, Group
  <2> QED BY <2>1, NextInv, InvForms
<1> QED BY <1>1, <1>2, PTL DEF Spec

\* Rows, tables and the worker's locals keep their types.
THEOREM TypeCorrect == Spec => []TypeOK
<1>1. PublicationInvariant => TypeOK
  BY DEF PublicationInvariant
<1> QED BY <1>1, InvariantHolds, PTL

\* No reader, export or AI run can find a valid result of another source,
\* revision or dictionary than the material's present one, whatever requests,
\* worker steps, storage faults and crashes came before.
THEOREM PublicationSafe == Spec => []PublishedIsCurrent
<1>1. PublicationInvariant => PublishedIsCurrent
  BY DEF PublicationInvariant
<1> QED BY <1>1, InvariantHolds, PTL

\* Comparing revision and status is enough for the worker to write its whole
\* copy back without losing an update.
THEOREM NoLostUpdate == Spec => []CopyIsCurrent
<1>1. PublicationInvariant => CopyIsCurrent
  BY DEF PublicationInvariant
<1> QED BY <1>1, InvariantHolds, PTL

\* Text and analysis of a row are always of its own source.
THEOREM TextSafe == Spec => []TextOfSource
<1>1. PublicationInvariant => TextOfSource
  BY DEF PublicationInvariant
<1> QED BY <1>1, InvariantHolds, PTL

-----------------------------------------------------------------------------
(* Materials implements Publication.  Each material's results are kept,    *)
(* withdrawn or replaced by a new one in a step, and every action is one   *)
(* of these for the materials it is about.                                 *)

\* What a step does to the results of one material, as readers see them.
Kept(m) == Len(results'[m]) = Len(results[m]) /\ Shown(m)' = Shown(m)

Emptied(m) == Len(results'[m]) = Len(results[m]) /\ Shown(m)' = {}

Made(m) ==
  /\ Len(results'[m]) = Len(results[m]) + 1
  /\ Shown(m)' = {[id |-> Len(results[m]) + 1, src |-> mat'[m].src,
                   dict |-> dict'[Group(m)]]}

\* These are what a turn of the readers' workspace does.
LEMMA TurnStep ==
  ASSUME NEW W, NEW P,
         \A m \in Materials : /\ m \in P => Made(m)
                              /\ m \notin P /\ m \in W => Emptied(m)
                              /\ m \notin P /\ m \notin W => Kept(m)
  PROVE  Readers!Turn(W, P)
BY DEF Readers!Turn, Kept, Emptied, Made

SourcesKept == \A m \in Materials : mat'[m].src = mat[m].src

\* Sources and dictionaries stay, one material's results do not.
LEMMA OneTurn ==
  ASSUME NEW m \in Materials, dict' = dict, SourcesKept, Emptied(m) \/ Made(m),
         \A n \in Materials : n # m => Kept(n)
  PROVE  Readers!Next
<1>1. CASE Emptied(m)
  <2>1. Readers!Turn({m}, {})
    BY <1>1, TurnStep
  <2>2. Readers!Withdraw({m})
    BY <2>1 DEF Readers!Withdraw, SourcesKept
  <2> QED BY <2>2 DEF Readers!Next
<1>2. CASE Made(m)
  <2>1. Readers!Turn({m}, {m})
    BY <1>2, TurnStep
  <2>2. Readers!Publish(m)
    BY <2>1 DEF Readers!Publish, SourcesKept
  <2> QED BY <2>2 DEF Readers!Next
<1> QED BY <1>1, <1>2

\* Nothing that readers see changes.
LEMMA NoTurn ==
  ASSUME dict' = dict, SourcesKept, \A m \in Materials : Kept(m)
  PROVE  UNCHANGED Readers!vars
BY DEF Readers!vars, SourcesKept, Kept

-----------------------------------------------------------------------------
(* One material's results. *)

\* Results that are not written stay as readers see them.
LEMMA KeptRow ==
  ASSUME NEW m \in Materials, results'[m] = results[m]
  PROVE  Kept(m)
BY DEF Kept, Shown, Live

\* Results that are all revoked are not seen.
LEMMA EmptiedRow ==
  ASSUME NEW m \in Materials, Len(results'[m]) = Len(results[m]),
         \A i \in 1..Len(results[m]) : results'[m][i].revoked
  PROVE  Emptied(m)
BY DEF Emptied, Shown, Live

\* A valid result after revoked ones is the only one readers see.
LEMMA MadeRow ==
  ASSUME NEW m \in Materials, NEW rs \in Seq(Result), Len(rs) = Len(results[m]),
         \A i \in 1..Len(results[m]) : rs[i].revoked,
         NEW r \in Result, ~r.revoked, results'[m] = Append(rs, r),
         r.src = mat'[m].src, r.adict = dict'[Group(m)]
  PROVE  Made(m)
<1> DEFINE k == Len(results[m])
<1>1. k \in Nat
  BY LenProperties
<1>2. /\ Len(Append(rs, r)) = k + 1 /\ Append(rs, r)[k + 1] = r
      /\ \A i \in 1..k : Append(rs, r)[i] = rs[i]
  BY AppendProperties
<1>3. Live(m)' = {k + 1}
  BY <1>1, <1>2 DEF Live
<1>4. Shown(m)' = {[id |-> k + 1, src |-> r.src, dict |-> r.adict]}
  BY <1>2, <1>3 DEF Shown
<1> QED BY <1>2, <1>4 DEF Made

\* finish_locked shows a new result made from what the row now has, or none.
LEMMA FinishedTurn ==
  ASSUME NEW m \in Materials, NEW rs \in Seq(Result), Len(rs) = Len(results[m]),
         \A i \in 1..Len(results[m]) : rs[i].revoked,
         NEW c \in Material, NEW d \in Nat, NEW a \in Analysis,
         results'[m] = FinishedResults(rs, c, d, a),
         a.src = mat'[m].src, a.dict = dict'[Group(m)]
  PROVE  Emptied(m) \/ Made(m)
<1>1. CASE a.review
  <2>1. results'[m] = rs
    BY <1>1 DEF FinishedResults
  <2> QED BY <2>1, EmptiedRow
<1>2. CASE ~a.review
  <2> DEFINE r == [rev |-> c.rev, dict |-> d, src |-> a.src, adict |-> a.dict,
                   revoked |-> FALSE, expired |-> FALSE]
  <2>1. r \in Result /\ ~r.revoked /\ r.src = a.src /\ r.adict = a.dict
    BY DEF Result, Material, Analysis
  <2>2. results'[m] = Append(rs, r)
    BY <1>2 DEF FinishedResults
  <2> HIDE DEF r
  <2> QED BY <2>1, <2>2, MadeRow
<1> QED BY <1>1, <1>2

\* The results of a material that is not ready are not seen, written or not.
LEMMA NotReadyEmptied ==
  ASSUME Inv, NEW m \in Materials, mat[m].status # "ready", results'[m] = results[m]
  PROVE  Emptied(m)
<1>1. \A i \in 1..Len(results[m]) : results[m][i].revoked
  BY NotReadyRevoked DEF Inv
<1> QED BY <1>1, EmptiedRow

\* The result of a row is revoked.
LEMMA WithdrawnTurn ==
  ASSUME Inv, NEW m \in Materials, NEW c, c.result = mat[m].result,
         results'[m] = Withdrawn(m, c)
  PROVE  Emptied(m)
<1>1. RowOK(mat[m], results[m], dict[Group(m)])
  BY DEF Inv, RowsOK
<1>2. /\ Len(Withdrawn(m, c)) = Len(results[m])
      /\ \A i \in 1..Len(results[m]) : Withdrawn(m, c)[i].revoked
  BY <1>1, WithdrawnRows DEF Inv
<1> QED BY <1>2, EmptiedRow
-----------------------------------------------------------------------------
(* The actions that readers do not see. *)

ReadersStep == Readers!Next \/ UNCHANGED Readers!vars

\* Result, dictionary and source stay.
LEMMA QuietStep ==
  ASSUME UNCHANGED <<dict, results>>, SourcesKept
  PROVE  ReadersStep
BY KeptRow, NoTurn DEF ReadersStep

\* Settings, consents, dispatches, stage rows and the phases of recovery.
LEMMA TablesKept ==
  ASSUME UNCHANGED tables
  PROVE  ReadersStep
BY QuietStep DEF tables, SourcesKept

\* One row is written with its source.
LEMMA RowWritten ==
  ASSUME Inv, NEW m \in Materials, NEW c, c.src = mat[m].src,
         mat' = [mat EXCEPT ![m] = c], UNCHANGED <<dict, results>>
  PROVE  ReadersStep
<1>1. SourcesKept
  BY DEF SourcesKept, Inv, TypeOK
<1> QED BY <1>1, QuietStep

\* A new status keeps the source of a row.
LEMMA StatusKept ==
  ASSUME Inv, NEW m \in Materials, NEW st,
         mat' = [mat EXCEPT ![m].status = st], UNCHANGED <<dict, results>>
  PROVE  ReadersStep
<1>1. mat[m] \in Material
  BY DEF Inv, TypeOK
<1>2. [mat[m] EXCEPT !.status = st].src = mat[m].src
  BY <1>1 DEF Material
<1> QED BY <1>2, RowWritten

\* Requests that only move rows about.
LEMMA QuietRequests ==
  ASSUME Inv, \E t \in Tasks : GrantConsent(t) \/ \E saved \in BOOLEAN : CancelTask(t, saved)
  PROVE  ReadersStep
<1>1. UNCHANGED <<dict, results>>
  BY DEF GrantConsent, CancelTask
<1>2. ASSUME NEW m \in Materials
      PROVE  /\ [mat[m] EXCEPT !.status = "queued"].src = mat[m].src
             /\ [mat[m] EXCEPT !.status = "cancelled", !.rev = @ + 1].src = mat[m].src
  BY DEF Inv, TypeOK, Material
<1>3. SourcesKept
  BY <1>2 DEF SourcesKept, GrantConsent, CancelTask
<1> QED BY <1>1, <1>3, QuietStep

\* What the worker writes before the end of a job.
LEMMA QuietWorker ==
  ASSUME Inv,
         \/ \E m \in Materials : Claim(m)
         \/ SaveText \/ Settle
         \/ \E review \in BOOLEAN : LocalAnalyze(review)
  PROVE  ReadersStep
<1>1. ASSUME NEW m \in Materials, Claim(m) PROVE ReadersStep
  <2> DEFINE c == [mat[m] EXCEPT !.status = "running", !.dict = dict[Group(m)]]
  <2>1. mat' = [mat EXCEPT ![m] = c] /\ UNCHANGED <<dict, results>>
    BY <1>1 DEF Claim
  <2>2. c.src = mat[m].src
    BY DEF Inv, TypeOK, Material
  <2> HIDE DEF c
  <2> QED BY <2>1, <2>2, RowWritten
<1>2. CASE SaveText
  <2>1. UNCHANGED <<dict, results>> /\ job.m # None
    BY <1>2 DEF SaveText, At, Inv, TypeOK
  <2>2. CASE Current
    <3> DEFINE c == [mat[job.m] EXCEPT !.text = job.copy.src]
    <3>1. mat' = [mat EXCEPT ![job.m] = c]
      BY <1>2, <2>2 DEF SaveText
    <3>2. job.m \in Materials /\ mat[job.m] \in Material
      BY <2>1, <2>2, WorkerRow
    <3>3. c.src = mat[job.m].src
      BY <3>2 DEF Material
    <3> HIDE DEF c
    <3> QED BY <2>1, <3>1, <3>2, <3>3, RowWritten
  <2>3. CASE ~Current
    BY <1>2, <2>1, <2>3, TablesKept DEF SaveText, tables
  <2> QED BY <2>2, <2>3
<1>3. CASE Settle
  <2>1. UNCHANGED <<dict, results>> /\ job.m # None
    BY <1>3 DEF Settle, At, Inv, TypeOK
  <2>2. CASE Current
    <3>1. mat' = [mat EXCEPT ![job.m].status = "failed"]
      BY <1>3, <2>2 DEF Settle
    <3> QED BY <2>1, <2>2, <3>1, WorkerRow, StatusKept
  <2>3. CASE ~Current
    BY <1>3, <2>1, <2>3, TablesKept DEF Settle, tables
  <2> QED BY <2>2, <2>3
<1>4. ASSUME NEW review \in BOOLEAN, LocalAnalyze(review) PROVE ReadersStep
  <2>1. UNCHANGED <<dict, results>> /\ job.m # None
    BY <1>4 DEF LocalAnalyze, At, Inv, TypeOK
  <2>2. CASE Current
    <3> DEFINE a == [src |-> job.copy.src, dict |-> job.g, ai |-> FALSE,
                     review |-> review]
               c == [job.copy EXCEPT !.text = job.copy.src, !.analysis = a]
    <3>1. mat' = [mat EXCEPT ![job.m] = c]
      BY <1>4, <2>2 DEF LocalAnalyze
    <3>2. job.m \in Materials /\ mat[job.m] \in Material /\ mat[job.m] = job.copy
      BY <2>1, <2>2, WorkerRow
    <3>3. c.src = mat[job.m].src
      BY <3>2 DEF Material
    <3> HIDE DEF c
    <3> QED BY <2>1, <3>1, <3>2, <3>3, RowWritten
  <2>3. CASE ~Current
    BY <1>4, <2>1, <2>3, TablesKept DEF LocalAnalyze, tables
  <2> QED BY <2>2, <2>3
<1> QED BY <1>1, <1>2, <1>3, <1>4

\* Recovery changes the status of rows.
LEMMA QuietRecovery ==
  ASSUME Inv, NEW m \in Materials, RecoverMaterial(m) \/ RecoverStage(m)
  PROVE  ReadersStep
<1>1. UNCHANGED <<dict, results>>
  BY DEF RecoverMaterial, RecoverStage
<1>2. CASE mat' = mat
  BY <1>1, <1>2, TablesKept DEF tables
<1>3. CASE \E st \in Status : mat' = [mat EXCEPT ![m].status = st]
  BY <1>1, <1>3, StatusKept
<1> QED BY <1>2, <1>3 DEF RecoverMaterial, RecoverStage, Status

\* An expired result is still made from what it was made from.
LEMMA ExpireQuiet ==
  ASSUME Inv, NEW m \in Materials, ExpireResult(m)
  PROVE  ReadersStep
<1> DEFINE rs == results[m]
           k == mat[m].result
           e == [rs[k] EXCEPT !.expired = TRUE]
           ns == [rs EXCEPT ![k] = e]
<1>1. mat' = mat /\ dict' = dict /\ results' = [results EXCEPT ![m] = ns] /\ k # 0
  BY DEF ExpireResult
<1>2. RowOK(mat[m], rs, dict[Group(m)]) /\ rs \in Seq(Result) /\ Len(rs) \in Nat
  BY LenProperties DEF Inv, TypeOK, RowsOK
<1>3. k \in 1..Len(rs)
  BY <1>1, <1>2 DEF RowOK
<1>4. rs[k] \in Result
  BY <1>2, <1>3, ElementOfSeq
<1>5. /\ e \in Result /\ e.revoked = rs[k].revoked /\ e.src = rs[k].src
      /\ e.adict = rs[k].adict
  BY <1>4 DEF Result
<1> HIDE DEF e
<1>6. Len(ns) = Len(rs) /\ \A j \in 1..Len(rs) : ns[j] = IF j = k THEN e ELSE rs[j]
  BY <1>2, <1>3, <1>5, ExceptSeq
<1> HIDE DEF ns
<1>7. results'[m] = ns
  BY <1>1 DEF Inv, TypeOK
<1>8. Kept(m)
  <2>1. Live(m)' = Live(m)
    BY <1>5, <1>6, <1>7 DEF Live
  <2>2. \A i \in Live(m) : ns[i].src = rs[i].src /\ ns[i].adict = rs[i].adict
    BY <1>5, <1>6 DEF Live
  <2> QED BY <1>6, <1>7, <2>1, <2>2 DEF Kept, Shown
<1>9. \A n \in Materials : n # m => Kept(n)
  BY <1>1, KeptRow DEF Inv, TypeOK
<1> QED BY <1>1, <1>8, <1>9, NoTurn DEF SourcesKept, ReadersStep
-----------------------------------------------------------------------------
(* The actions that readers see. *)

\* submit: new sources, whose materials had no results.
LEMMA SubmitSeen ==
  ASSUME Inv, NEW t \in Tasks, Submit(t)
  PROVE  ReadersStep
<1> DEFINE W == {m \in Materials : TaskOf[m] = t}
<1>1. PICK s \in [W -> Sources] :
        mat' = [m \in Materials |->
                 IF TaskOf[m] = t
                 THEN [NoMaterial EXCEPT !.status = "queued", !.rev = 1,
                                         !.src = s[m], !.dict = dict[Group(m)]]
                 ELSE mat[m]]
  BY DEF Submit
<1>2. UNCHANGED <<dict, results>> /\ \A m \in W : mat[m].status = "none"
  BY DEF Submit, MaterialsOf
<1>3. \A m \in Materials : mat'[m].src = IF m \in W THEN s[m] ELSE mat[m].src
  BY <1>1 DEF NoMaterial
<1>4. \A m \in Materials : IF m \in W THEN Emptied(m) ELSE Kept(m)
  BY <1>2, NotReadyEmptied, KeptRow
<1>5. Readers!Turn(W, {})
  <2> HIDE DEF W
  <2> QED BY <1>4, TurnStep
<1>6. Readers!SetSources(W)
  <2> HIDE DEF W
  <2> QED BY <1>2, <1>3, <1>5 DEF Readers!SetSources
<1>7. W \in SUBSET Materials
  OBVIOUS
<1> HIDE DEF W
<1> QED BY <1>6, <1>7 DEF Readers!Next, ReadersStep

\* replace_material: another source, the old result withdrawn.
LEMMA ReplaceSeen ==
  ASSUME Inv, NEW m \in Materials, ReplaceMaterial(m)
  PROVE  ReadersStep
<1>1. PICK s \in Sources :
        mat' = [mat EXCEPT ![m] = [Requeued(mat[m]) EXCEPT !.src = s, !.text = None]]
  BY DEF ReplaceMaterial
<1>2. dict' = dict /\ results' = [results EXCEPT ![m] = Withdrawn(m, mat[m])]
  BY DEF ReplaceMaterial
<1> DEFINE c == [Requeued(mat[m]) EXCEPT !.src = s, !.text = None]
           f == [n \in {m} |-> s]
<1>3. c.src = s
  BY DEF Requeued, Inv, TypeOK, Material
<1>4. mat' = [mat EXCEPT ![m] = c]
  BY <1>1
<1> HIDE DEF c
<1>5. \A n \in Materials : mat'[n].src = IF n \in {m} THEN f[n] ELSE mat[n].src
  BY <1>3, <1>4 DEF Inv, TypeOK
<1>6. Emptied(m) /\ \A n \in Materials : n # m => Kept(n)
  BY <1>2, WithdrawnTurn, KeptRow DEF Inv, TypeOK
<1>7. Readers!Turn({m}, {})
  BY <1>6, TurnStep
<1>8. f \in [{m} -> Sources]
  OBVIOUS
<1> HIDE DEF f
<1>9. Readers!SetSources({m})
  BY <1>2, <1>5, <1>7, <1>8 DEF Readers!SetSources
<1> QED BY <1>9 DEF Readers!Next, ReadersStep

\* revoke_material: the result is withdrawn.
LEMMA RevokeSeen ==
  ASSUME Inv, NEW m \in Materials, RevokeMaterial(m)
  PROVE  ReadersStep
<1> DEFINE c == [mat[m] EXCEPT !.status = "revoked", !.rev = mat[m].rev + 1, !.result = 0]
<1>1. /\ mat' = [mat EXCEPT ![m] = c] /\ dict' = dict
      /\ results' = [results EXCEPT ![m] = Withdrawn(m, mat[m])]
  BY DEF RevokeMaterial
<1>2. c.src = mat[m].src
  BY DEF Inv, TypeOK, Material
<1> HIDE DEF c
<1>3. SourcesKept
  BY <1>1, <1>2 DEF SourcesKept, Inv, TypeOK
<1>4. Emptied(m) /\ \A n \in Materials : n # m => Kept(n)
  BY <1>1, WithdrawnTurn, KeptRow DEF Inv, TypeOK
<1> QED BY <1>1, <1>3, <1>4, OneTurn DEF ReadersStep

\* Back to the queue with its source.
LEMMA RequeuedSource ==
  ASSUME NEW c \in Material
  PROVE  Requeued(c).src = c.src /\ DictionaryChanged(c).src = c.src
BY DEF Requeued, DictionaryChanged, Material

\* retry_task: the results of the materials to be processed again are withdrawn.
LEMMA RetrySeen ==
  ASSUME Inv, NEW t \in Tasks, NEW saved \in BOOLEAN, RetryTask(t, saved)
  PROVE  ReadersStep
<1>1. PICK W \in SUBSET Materials : W = {m \in MaterialsOf(t) : saved /\ Retriable(m)}
  BY DEF MaterialsOf
<1>2. /\ mat' = [m \in Materials |-> IF m \in W THEN Requeued(mat[m]) ELSE mat[m]]
      /\ results' = [m \in Materials |-> IF m \in W THEN Withdrawn(m, mat[m])
                                                    ELSE results[m]]
      /\ dict' = dict
  BY <1>1 DEF RetryTask
<1>3. SourcesKept
  BY <1>2, RequeuedSource DEF SourcesKept, Inv, TypeOK
<1>4. \A m \in Materials : IF m \in W THEN Emptied(m) ELSE Kept(m)
  BY <1>2, WithdrawnTurn, KeptRow
<1>5. Readers!Turn(W, {})
  BY <1>4, TurnStep
<1>6. Readers!Withdraw(W)
  BY <1>2, <1>3, <1>5 DEF Readers!Withdraw, SourcesKept
<1> QED BY <1>6 DEF Readers!Next, ReadersStep

\* update_dictionary_locked: what it leaves of one material's results.
LEMMA DictionaryTurn ==
  ASSUME Inv, NEW g \in Groups, NEW m \in Materials,
         results'[m] = DictionaryResults(g)[m]
  PROVE  /\ DictionaryRows(g)[m].src = mat[m].src
         /\ IF Group(m) = g THEN Emptied(m) ELSE Kept(m)
<1>1. CASE m \in InGroup(g)
  <2>1. mat[m] \in Material
    BY DEF Inv, TypeOK
  <2>2. results'[m] = Withdrawn(m, mat[m])
    BY <1>1 DEF DictionaryResults
  <2>3. DictionaryRows(g)[m].src = mat[m].src
    BY <1>1, <2>1, RequeuedSource DEF DictionaryRows
  <2> QED BY <1>1, <2>2, <2>3, WithdrawnTurn DEF InGroup
<1>2. CASE m \notin InGroup(g)
  <2>1. results'[m] = results[m] /\ DictionaryRows(g)[m].src = mat[m].src
    BY <1>2 DEF DictionaryResults, DictionaryRows
  <2>2. Group(m) = g => mat[m].status # "ready"
    BY <1>2 DEF InGroup
  <2> QED BY <2>1, <2>2, NotReadyEmptied, KeptRow
<1> QED BY <1>1, <1>2

\* set_dictionary: the group's results are withdrawn with the old dictionary.
LEMMA SetDictionarySeen ==
  ASSUME Inv, NEW g \in Groups, NEW saved \in BOOLEAN, SetDictionary(g, saved)
  PROVE  ReadersStep
<1>1. CASE ~saved
  BY <1>1, TablesKept DEF SetDictionary
<1>2. CASE saved
  <2>1. /\ dict' = [dict EXCEPT ![g] = dict[g] + 1]
        /\ mat' = DictionaryRows(g) /\ results' = DictionaryResults(g)
    BY <1>2 DEF SetDictionary
  <2>2. \A m \in Materials : /\ mat'[m].src = mat[m].src
                             /\ IF Group(m) = g THEN Emptied(m) ELSE Kept(m)
    BY <2>1, DictionaryTurn
  <2> DEFINE W == Readers!Members(g)
  <2>3. \A m \in Materials : m \in W <=> Group(m) = g
    BY DEF Readers!Members
  <2> HIDE DEF W
  <2>4. Readers!Turn(W, {})
    BY <2>2, <2>3, TurnStep
  <2>5. Readers!SetDictionary(g)
    BY <2>1, <2>2, <2>4 DEF Readers!SetDictionary, W
  <2> QED BY <2>5 DEF Readers!Next, ReadersStep
<1> QED BY <1>1, <1>2
\* finish_locked keeps the source of the row.
LEMMA FinishedSource ==
  ASSUME NEW m, NEW c \in Material, NEW d, NEW a, NEW waiting
  PROVE  Finished(m, c, d, a, waiting).src = c.src
BY DEF Finished, Material

\* review with the dictionary unchanged: a new result or none.
LEMMA ReviewSeen ==
  ASSUME Inv, NEW m \in Materials, NEW review \in BOOLEAN, NEW marked \in BOOLEAN,
         Review(m, review, marked)
  PROVE  ReadersStep
<1> DEFINE c == [mat[m] EXCEPT !.rev = mat[m].rev + 1]
           d == dict[Group(m)]
           a == ReviewAnalysis(m, d, review)
           f == Finished(m, c, d, a, FALSE)
           w == Withdrawn(m, c)
           rs == FinishedResults(w, c, d, a)
<1>1. /\ dict' = dict /\ Reviewable(m)
      /\ mat' = [mat EXCEPT ![m] = f] /\ results' = [results EXCEPT ![m] = rs]
  BY DEF Review
<1>2. /\ mat[m] \in Material /\ mat[m].rev + 1 \in Nat
      /\ d \in Nat /\ RowOK(mat[m], results[m], d)
  BY GroupType DEF Inv, TypeOK, Material, RowsOK
<1>3. c \in Material /\ c.result = mat[m].result /\ c.src = mat[m].src
  BY <1>2, BumpedRow
<1>4. a \in Analysis /\ a.src = mat[m].src /\ a.dict = d
  BY <1>1, <1>2, ReviewTypes
<1>5. /\ w \in Seq(Result) /\ Len(w) = Len(results[m])
      /\ \A i \in 1..Len(results[m]) : w[i].revoked
  BY <1>2, <1>3, WithdrawnRows DEF Inv
<1>6. f.src = mat[m].src
  BY <1>3 DEF Finished, Material
<1> HIDE DEF c, a, w, f
<1>7. mat'[m] = f /\ results'[m] = rs /\ dict'[Group(m)] = d
  BY <1>1 DEF Inv, TypeOK
<1>8. Emptied(m) \/ Made(m)
  BY <1>2, <1>3, <1>4, <1>5, <1>6, <1>7, FinishedTurn
<1>9. SourcesKept
  BY <1>1, <1>6 DEF SourcesKept, Inv, TypeOK
<1>10. \A n \in Materials : n # m => Kept(n)
  BY <1>1, KeptRow DEF Inv, TypeOK
<1> QED BY <1>1, <1>8, <1>9, <1>10, OneTurn DEF ReadersStep

\* review that extends the dictionary: the group's results go, and the reviewed
\* material shows a new one unless it still needs a review.
LEMMA ReviewDictionarySeen ==
  ASSUME Inv, NEW m \in Materials, NEW review \in BOOLEAN, NEW marked \in BOOLEAN,
         ReviewWithDictionary(m, review, marked)
  PROVE  ReadersStep
<1> DEFINE g == Group(m)
           q == Requeued(mat[m])
           c == [q EXCEPT !.rev = q.rev + 1]
           d == dict[g] + 1
           a == ReviewAnalysis(m, d, review)
           f == Finished(m, c, d, a, FALSE)
           w == Withdrawn(m, mat[m])
           rs == FinishedResults(w, c, d, a)
<1>1. /\ dict' = [dict EXCEPT ![g] = d] /\ Reviewable(m)
      /\ mat' = [DictionaryRows(g) EXCEPT ![m] = f]
      /\ results' = [DictionaryResults(g) EXCEPT ![m] = rs]
  BY DEF ReviewWithDictionary
<1>2. /\ g \in Groups /\ mat[m] \in Material /\ dict[g] \in Nat /\ d \in Nat
      /\ mat[m].rev \in Nat /\ RowOK(mat[m], results[m], dict[g])
  BY GroupType DEF Inv, TypeOK, Material, RowsOK
<1>3. q \in Material /\ q.rev + 1 \in Nat /\ q.src = mat[m].src
  <2>1. mat[m].text \in {None, mat[m].src}
    BY <1>2 DEF RowOK
  <2> QED BY <1>2, <2>1, RequeuedRow
<1> HIDE DEF q
<1>4. c \in Material /\ c.src = mat[m].src
  BY <1>3, BumpedRow
<1>5. a \in Analysis /\ a.src = mat[m].src /\ a.dict = d
  BY <1>1, <1>2, ReviewTypes
<1>6. /\ w \in Seq(Result) /\ Len(w) = Len(results[m])
      /\ \A i \in 1..Len(results[m]) : w[i].revoked
  BY <1>2, WithdrawnRows DEF Inv
<1>7. f.src = mat[m].src
  BY <1>4 DEF Finished, Material
<1> HIDE DEF c, a, w, f, d, g
<1>8. /\ mat'[m] = f /\ results'[m] = rs
      /\ \A n \in Materials : n # m => /\ mat'[n] = DictionaryRows(g)[n]
                                       /\ results'[n] = DictionaryResults(g)[n]
  BY <1>1 DEF DictionaryRows, DictionaryResults
<1>9. dict'[g] = d
  BY <1>1, <1>2 DEF Inv, TypeOK
<1>10. Emptied(m) \/ Made(m)
  BY <1>2, <1>4, <1>5, <1>6, <1>7, <1>8, <1>9, FinishedTurn DEF g
<1>11. ASSUME NEW n \in Materials, n # m
       PROVE  /\ mat'[n].src = mat[n].src
              /\ IF Group(n) = g THEN Emptied(n) ELSE Kept(n)
  BY <1>2, <1>8, <1>11, DictionaryTurn
<1> DEFINE W == Readers!Members(g)
<1>12. \A n \in Materials : n \in W <=> Group(n) = g
  BY DEF Readers!Members
<1>13. m \in W
  BY <1>12 DEF g
<1>14. \A n \in Materials : mat'[n].src = mat[n].src
  BY <1>7, <1>8, <1>11
<1> HIDE DEF W
<1>15. Readers!Turn(W, {}) \/ Readers!Turn(W, {m})
  <2>1. CASE Emptied(m)
    BY <1>11, <1>12, <1>13, <2>1, TurnStep
  <2>2. CASE Made(m)
    BY <1>11, <1>12, <1>13, <2>2, TurnStep
  <2> QED BY <1>10, <2>1, <2>2
<1>16. dict' = [dict EXCEPT ![g] = dict[g] + 1]
  BY <1>1 DEF d
<1>17. Readers!SetDictionary(g)
  BY <1>13, <1>14, <1>15, <1>16 DEF Readers!SetDictionary, W
<1> QED BY <1>2, <1>17 DEF Readers!Next, ReadersStep

\* The end of a job: a superseded one is not seen, a current one publishes.
LEMMA FinishSeen ==
  ASSUME Inv, job.m # None, NEW a \in Analysis, a.src = job.copy.src, a.dict = job.g,
         NEW waiting \in BOOLEAN, NEW pc, Finish(a, waiting, pc)
  PROVE  ReadersStep
<1>1. dict' = dict
  BY DEF Finish
<1>2. CASE ~Current
  BY <1>1, <1>2, TablesKept DEF Finish, tables
<1>3. CASE Current
  <2> DEFINE m == job.m
             c == job.copy
             w == Withdrawn(m, c)
             f == Finished(m, c, job.g, a, waiting)
             rs == FinishedResults(w, c, job.g, a)
  <2>1. /\ m \in Materials /\ mat[m] = c /\ dict[Group(m)] = job.g
        /\ c \in Material /\ job.g \in Nat /\ c.result = mat[m].result
    BY <1>3, WorkerRow
  <2>2. /\ mat' = [mat EXCEPT ![m] = f] /\ results' = [results EXCEPT ![m] = rs]
    BY <1>3, <2>1 DEF Finish
  <2>3. RowOK(mat[m], results[m], dict[Group(m)])
    BY <2>1 DEF Inv, RowsOK
  <2>4. /\ w \in Seq(Result) /\ Len(w) = Len(results[m])
        /\ \A i \in 1..Len(results[m]) : w[i].revoked
    BY <2>1, <2>3, WithdrawnRows DEF Inv
  <2>5. f.src = mat[m].src
    BY <2>1, FinishedSource
  <2> HIDE DEF w, f
  <2>6. mat'[m] = f /\ results'[m] = rs
    BY <2>1, <2>2 DEF Inv, TypeOK
  <2>7. Emptied(m) \/ Made(m)
    BY <1>1, <2>1, <2>4, <2>5, <2>6, FinishedTurn
  <2>8. SourcesKept
    BY <2>2, <2>5 DEF SourcesKept, Inv, TypeOK
  <2>9. \A n \in Materials : n # m => Kept(n)
    BY <2>2, KeptRow DEF Inv, TypeOK
  <2> HIDE DEF m, c
  <2>10. m \in Materials
    BY <2>1
  <2>11. PICK n \in Materials : n = m
    BY <2>10
  <2> QED BY <1>1, <2>7, <2>8, <2>9, <2>11, OneTurn DEF ReadersStep, m
<1> QED BY <1>2, <1>3
\* The ends of the model path and of the local path.
LEMMA FinishesSeen ==
  ASSUME Inv, AiFinish \/ LocalFinish
  PROVE  ReadersStep
<1>1. CASE AiFinish
  <2>1. job.pc = "ai_finish" /\ Finish(job.analysis, FALSE, "ai_stage")
    BY <1>1 DEF AiFinish, At
  <2>2. /\ job.analysis \in Analysis /\ job.analysis.src = job.copy.src
        /\ job.analysis.dict = job.g /\ job.m # None
    BY <2>1 DEF Inv, TypeOK, Job, JobConsistent
  <2> DEFINE no == FALSE
  <2>3. no \in BOOLEAN /\ Finish(job.analysis, no, "ai_stage")
    BY <2>1
  <2> HIDE DEF no
  <2> QED BY <2>2, <2>3, FinishSeen
<1>2. CASE LocalFinish
  <2> DEFINE a == [job.analysis EXCEPT !.review = job.analysis.review \/ job.cancelled]
             waiting == job.waiting /\ ~job.cancelled
  <2>1. job.pc = "finish" /\ Finish(a, waiting, "idle")
    BY <1>2 DEF LocalFinish, At
  <2>2. /\ job.analysis \in Analysis /\ job.analysis.src = job.copy.src
        /\ job.analysis.dict = job.g /\ job.m # None
        /\ job.cancelled \in BOOLEAN /\ job.waiting \in BOOLEAN
    BY <2>1 DEF Inv, TypeOK, Job, JobConsistent
  <2>3. a \in Analysis /\ a.src = job.copy.src /\ a.dict = job.g
    BY <2>2 DEF Analysis
  <2>4. waiting \in BOOLEAN
    BY <2>2
  <2> HIDE DEF a, waiting
  <2> QED BY <2>1, <2>2, <2>3, <2>4, FinishSeen
<1> QED BY <1>1, <1>2

-----------------------------------------------------------------------------
(* The refinement. *)

\* An empty workspace shows nothing.
LEMMA ReadersInit == Init => Readers!Init
<1> SUFFICES ASSUME Init PROVE Readers!Init
  OBVIOUS
<1>1. dict = [g \in Groups |-> 1]
  BY DEF Init
<1>2. ASSUME NEW m \in Materials
      PROVE  mat[m].src = None /\ Len(results[m]) = 0 /\ Shown(m) = {}
  <2>1. mat[m] = NoMaterial /\ results[m] = << >>
    BY DEF Init
  <2>2. Len(results[m]) = 0
    BY <2>1
  <2>3. Live(m) = {}
    BY <2>2 DEF Live
  <2> QED BY <2>1, <2>2, <2>3 DEF NoMaterial, Shown
<1> QED BY <1>1, <1>2 DEF Readers!Init

\* Every step of the workspace is a step of the readers' workspace or unseen.
LEMMA ReadersNext == Inv /\ [Next]_vars => ReadersStep
<1> SUFFICES ASSUME Inv, [Next]_vars PROVE ReadersStep
  OBVIOUS
<1>1. CASE UserNext
  <2>1. CASE SaveProvider \/ SaveAiDefaults
             \/ \E t \in Tasks : RevokeConsent(t) \/ ExpireConsent(t)
    BY <2>1, TablesKept DEF SaveProvider, SaveAiDefaults, RevokeConsent, ExpireConsent
  <2> QED
    BY <1>1, <2>1, SubmitSeen, QuietRequests, RetrySeen, ReplaceSeen, RevokeSeen,
       SetDictionarySeen, ReviewSeen, ReviewDictionarySeen, ExpireQuiet DEF UserNext
<1>2. CASE WorkerNext
  <2>1. CASE SelectModel \/ ReadLocal \/ OcrSkip \/ OcrReply \/ OcrCancelled
             \/ CloudFail \/ JobError
    BY <2>1, TablesKept DEF SelectModel, ReadLocal, OcrSkip, OcrReply, OcrCancelled,
       CloudFail, JobError, Goto
  <2>2. CASE ReadAi \/ StageTextReady \/ StageRedaction
             \/ \E marked \in BOOLEAN : AiFail(marked)
    BY <2>2, TablesKept DEF ReadAi, StageTextReady, StageRedaction, AiFail, SaveStage,
       Goto
  <2>3. CASE OcrDispatch \/ RedactDispatch \/ CloudDispatch \/ ClaimCloud \/ AiStage
             \/ \E review \in BOOLEAN : Redacted(review) \/ CloudReply(review)
    BY <2>3, TablesKept DEF OcrDispatch, RedactDispatch, Dispatch, CloudDispatch,
       ClaimCloud, AiStage, Redacted, CloudReply
  <2> QED BY <1>2, <2>1, <2>2, <2>3, QuietWorker, FinishesSeen DEF WorkerNext
<1>3. CASE RecoveryNext
  <2>1. CASE MaterialsRecovered \/ StagesRecovered
    BY <2>1, TablesKept DEF MaterialsRecovered, StagesRecovered
  <2> QED BY <1>3, <2>1, QuietRecovery DEF RecoveryNext
<1>4. CASE Crash
  BY <1>4, TablesKept DEF Crash
<1>5. CASE UNCHANGED vars
  BY <1>5, TablesKept DEF vars, tables
<1> QED BY <1>1, <1>2, <1>3, <1>4, <1>5 DEF Next

\* Publishes: readers see one result at a time, made from the present source and
\* dictionary, that a change of either withdraws in the same step, although
\* finish_locked writes it from copies the worker took several critical sections
\* before.
THEOREM PublicationImplemented == Spec => Publishes
<1>1. Init => Readers!Init
  BY ReadersInit
<1>2. PublicationInvariant /\ [Next]_vars => [Readers!Next]_(Readers!vars)
  BY ReadersNext, InvForms DEF ReadersStep
<1> QED BY <1>1, <1>2, InvariantHolds, PTL DEF Spec, Publishes, Readers!Spec
=============================================================================
