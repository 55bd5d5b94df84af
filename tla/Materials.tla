------------------------------ MODULE Materials ------------------------------
(***************************************************************************)
(* The material life cycle of crates/workspace-service: imported files     *)
(* (materials) are queued, claimed by the one background worker, redacted  *)
(* locally or with a language model, and published as results.  User       *)
(* requests change the same rows while the worker is between two critical  *)
(* sections, and the process may die between any two transactions.         *)
(*                                                                         *)
(* One action is one critical section of the workspace gate (a Mutex), or  *)
(* one store transaction where an operation has several.                   *)
(***************************************************************************)
EXTENDS Naturals, Sequences

CONSTANTS Materials,    \* identifiers of imported files
          Tasks,        \* submissions; a task owns materials
          Groups,       \* material groups; a group owns a dictionary
          TaskOf,       \* [Materials -> Tasks]
          GroupOf,      \* [Tasks -> Groups]
          Sources,      \* source contents, told apart by their SHA-256
          Models,       \* whether a redaction model is configured: settings in use
          None,         \* "no text" / "no analysis" / "no job"
          MaxRev,       \* bound on Material.revision
          MaxDict,      \* bound on Group.dictionary_revision
          MaxConsents,  \* bound on the consents ever granted
          MaxProfile,   \* bound on ProviderConfig.revision
          MaxCrashes    \* bound on process deaths

ASSUME ConstantsAssumption ==
  /\ TaskOf \in [Materials -> Tasks]
  /\ GroupOf \in [Tasks -> Groups]
  /\ Models \subseteq BOOLEAN
  /\ None \notin Sources
  /\ None \notin Materials
  /\ MaxRev \in Nat /\ MaxDict \in Nat /\ MaxConsents \in Nat
  /\ MaxProfile \in Nat /\ MaxCrashes \in Nat

VARIABLES
  mat,       \* [Materials -> Material]: the "material" and "source" rows
  dict,      \* [Groups -> Nat]: Group.dictionary_revision
  results,   \* [Materials -> Seq(Result)]: "result" rows; a result's id is its index
  consent,   \* [Tasks -> Consent]: the "consent" rows
  granted,   \* number of consent ids drawn so far
  profile,   \* ProviderConfig.revision, part of every profile hash
  model,     \* whether a redaction model is configured (ai_defaults)
  stage,     \* [Materials -> Stage]: the "ai_stage" rows
  job,       \* locals of the worker's process_material call, its cancellation token
  phase,     \* "recover_materials", "recover_stages" or "up": Workspace::open
  lost,      \* history: dispatches of a current job whose answer a crash lost
  clouded,   \* history: <<consent id, material>> of every cloud dispatch
  crashes    \* process deaths so far

tables == <<mat, dict, results>>
settings == <<granted, profile, model>>
process == <<phase, crashes>>
history == <<lost, clouded>>

vars == <<mat, dict, results, consent, granted, profile, model, stage, job,
          phase, lost, clouded, crashes>>

-----------------------------------------------------------------------------
(* Rows. *)

Status == {"none", "queued", "running", "awaiting_consent", "needs_review",
           "ready", "failed", "cancelled", "revoked"}

\* privacy_text::Analysis: which text and dictionary it was computed from
\* (dict is not stored in the code; it is kept to state the properties),
\* whether it carries model findings, whether it needs a human review.
Analysis == [src : Sources \cup {None}, dict : Nat, ai : BOOLEAN, review : BOOLEAN]

NoAnalysis == [src |-> None, dict |-> 0, ai |-> FALSE, review |-> TRUE]

Material == [status : Status, rev : Nat, src : Sources \cup {None},
             text : Sources \cup {None}, analysis : Analysis, result : Nat,
             dict : Nat]

NoMaterial == [status |-> "none", rev |-> 0, src |-> None, text |-> None,
               analysis |-> NoAnalysis, result |-> 0, dict |-> 0]

\* ReadyResult.  adict is the dictionary the analysis used; dict the revision
\* the row is stamped with.
Result == [rev : Nat, dict : Nat, src : Sources \cup {None}, adict : Nat,
           revoked : BOOLEAN, expired : BOOLEAN]

\* CloudConsent; id 0 is an absent row.  grants is source_hashes.
Consent == [id : Nat, profile : Nat, expired : BOOLEAN,
            grants : SUBSET (Materials \X Nat \X (Sources \cup {None})),
            used : SUBSET Materials]

NoConsent == [id |-> 0, profile |-> 0, expired |-> FALSE, grants |-> {},
              used |-> {}]

StageName == {"none", "ocr_running", "text_ready", "redaction_running",
              "failed", "needs_review", "completed", "reviewed", "interrupted"}

Stage == [stage : StageName, rev : Nat, src : Sources \cup {None}]

NoStage == [stage |-> "none", rev |-> 0, src |-> None]

Kinds == {"ocr", "redact", "cloud"}

PC == {"idle", "select", "read_ai", "read_local", "ocr", "ocr_wait", "ocr_done",
       "text_ready", "redaction_running", "redact", "redact_wait", "ai_finish",
       "ai_stage", "local", "claim_cloud", "cloud", "cloud_wait", "finish",
       "settle"}

\* m is the claimed material, copy the row as the worker holds it, g the
\* dictionary revision of the group it read, cid the consent it used.
Job == [pc : PC, m : Materials \cup {None}, copy : Material, g : Nat,
        cancelled : BOOLEAN, waiting : BOOLEAN, cid : Nat, sent : Nat,
        analysis : Analysis]

IdleJob == [pc |-> "idle", m |-> None, copy |-> NoMaterial, g |-> 0,
            cancelled |-> FALSE, waiting |-> FALSE, cid |-> 0, sent |-> 0,
            analysis |-> NoAnalysis]

TypeOK ==
  /\ mat \in [Materials -> Material]
  /\ dict \in [Groups -> Nat]
  /\ results \in [Materials -> Seq(Result)]
  /\ consent \in [Tasks -> Consent]
  /\ granted \in Nat
  /\ profile \in Nat
  /\ model \in BOOLEAN
  /\ stage \in [Materials -> Stage]
  /\ job \in Job
  /\ (job.m = None) = (job.pc = "idle")
  /\ phase \in {"recover_materials", "recover_stages", "up"}
  /\ lost \in SUBSET (Materials \X Kinds)
  /\ clouded \in SUBSET (Nat \X Materials)
  /\ crashes \in Nat

Group(m) == GroupOf[TaskOf[m]]

MaterialsOf(t) == {m \in Materials : TaskOf[m] = t /\ mat[m].status # "none"}

InGroup(g) == {m \in Materials : Group(m) = g /\ mat[m].status # "none"}

Init ==
  /\ mat = [m \in Materials |-> NoMaterial]
  /\ dict = [g \in Groups |-> 1]
  /\ results = [m \in Materials |-> <<>>]
  /\ consent = [t \in Tasks |-> NoConsent]
  /\ granted = 0
  /\ profile = 1
  /\ model \in Models
  /\ stage = [m \in Materials |-> NoStage]
  /\ job = IdleJob
  /\ phase = "up"
  /\ lost = {}
  /\ clouded = {}
  /\ crashes = 0

-----------------------------------------------------------------------------
(* Shared helpers of the handlers. *)

\* The result rows of a material once result_id is taken and its row revoked.
Withdrawn(m, c) ==
  IF c.result = 0 THEN results[m]
                  ELSE [results[m] EXCEPT ![c.result].revoked = TRUE]

\* Back to the queue under a new revision, without result or analysis.
Requeued(c) ==
  [c EXCEPT !.status = "queued", !.rev = @ + 1, !.analysis = NoAnalysis,
            !.result = 0]

\* Faulty variant: the token is not cancelled.
CancelJobs_Dropped(ts) == job

\* cancel_cloud_task: the token registered under the task of the running job.
CancelJobs(ts) ==
  IF job.m # None /\ TaskOf[job.m] \in ts THEN [job EXCEPT !.cancelled = TRUE]
                                          ELSE job

\* fresh.revision == m.revision && fresh.status == "running".
Current ==
  /\ mat[job.m].rev = job.copy.rev
  /\ mat[job.m].status = "running"

\* finish_locked: the material row c publishes or parks analysis a.
Finished(m, c, d, a, waiting) ==
  [c EXCEPT
     !.dict = d,
     !.analysis = a,
     !.result = IF a.review THEN 0 ELSE Len(results[m]) + 1,
     !.status = IF ~a.review THEN "ready"
                ELSE IF waiting THEN "awaiting_consent" ELSE "needs_review"]

\* Faulty variant: the result is stamped with the row's dictionary revision.
FinishedResults_StaleDict(rows, c, d, a) ==
  IF a.review THEN rows
  ELSE Append(rows, [rev |-> c.rev, dict |-> c.dict, src |-> a.src,
                     adict |-> a.dict, revoked |-> FALSE, expired |-> FALSE])

\* finish_locked: a publishing analysis appends a result to the rows left once
\* the old result is withdrawn.
FinishedResults(rows, c, d, a) ==
  IF a.review THEN rows
  ELSE Append(rows, [rev |-> c.rev, dict |-> d, src |-> a.src, adict |-> a.dict,
                     revoked |-> FALSE, expired |-> FALSE])

\* finish_locked refuses to publish an analysis of another text.
Publishable(c, a) == a.review \/ a.src = c.text

\* read_result_locked: the result of m that a reader, an export or an AI run gets.
Readable(m, i) ==
  /\ i \in 1..Len(results[m])
  /\ ~results[m][i].revoked
  /\ ~results[m][i].expired
  /\ mat[m].status = "ready"
  /\ mat[m].result = i
  /\ mat[m].rev = results[m][i].rev
  /\ dict[Group(m)] = results[m][i].dict
  /\ results[m][i].src = mat[m].text

-----------------------------------------------------------------------------
(* User and MCP requests.  Each holds the workspace gate throughout. *)

Submit(t) ==
  /\ phase = "up"
  /\ MaterialsOf(t) = {}
  /\ \E s \in [{m \in Materials : TaskOf[m] = t} -> Sources] :
       mat' = [m \in Materials |->
                 IF TaskOf[m] = t
                 THEN [NoMaterial EXCEPT !.status = "queued", !.rev = 1,
                                         !.src = s[m], !.dict = dict[Group(m)]]
                 ELSE mat[m]]
  /\ UNCHANGED <<dict, results, consent, stage, job, settings, process, history>>

\* Faulty variant: the text of the old source is kept.
ReplaceMaterial_KeepsText(m) ==
  /\ phase = "up"
  /\ mat[m].status # "none"
  /\ mat[m].rev < MaxRev
  /\ \E s \in Sources : mat' = [mat EXCEPT ![m] = [Requeued(@) EXCEPT !.src = s]]
  /\ results' = [results EXCEPT ![m] = Withdrawn(m, mat[m])]
  /\ job' = CancelJobs({TaskOf[m]})
  /\ lost' = {x \in lost : x[1] # m}
  /\ UNCHANGED <<dict, consent, stage, clouded, settings, process>>

\* A new source is accepted in every state; text and analysis are dropped.
ReplaceMaterial(m) ==
  /\ phase = "up"
  /\ mat[m].status # "none"
  /\ mat[m].rev < MaxRev
  /\ \E s \in Sources :
       mat' = [mat EXCEPT ![m] = [Requeued(@) EXCEPT !.src = s, !.text = None]]
  /\ results' = [results EXCEPT ![m] = Withdrawn(m, mat[m])]
  /\ job' = CancelJobs({TaskOf[m]})
  /\ lost' = {x \in lost : x[1] # m}
  /\ UNCHANGED <<dict, consent, stage, clouded, settings, process>>

\* Faulty variant: a material in work is left to the worker.
DictionaryChanged_SkipsRunning(c) ==
  IF c.status \in {"cancelled", "revoked", "running"} THEN [c EXCEPT !.result = 0]
                                                      ELSE Requeued(c)

\* update_dictionary_locked on one material of the group.
DictionaryChanged(c) ==
  IF c.status \in {"cancelled", "revoked"} THEN [c EXCEPT !.result = 0]
                                           ELSE Requeued(c)

\* update_dictionary_locked: the rows it writes for every material of g.
DictionaryRows(g) ==
  [m \in Materials |-> IF m \in InGroup(g) THEN DictionaryChanged(mat[m])
                                           ELSE mat[m]]

\* Faulty variant: the results of the group are not revoked.
DictionaryResults_Kept(g) == results

DictionaryResults(g) ==
  [m \in Materials |-> IF m \in InGroup(g) THEN Withdrawn(m, mat[m])
                                           ELSE results[m]]

\* Requeued by the user's change: an answer lost before it is no longer owed.
DictionaryLost(g) ==
  {x \in lost : x[1] \notin InGroup(g) \/ mat[x[1]].status \in {"cancelled", "revoked"}}

\* set_dictionary.  Tokens are cancelled before the transaction, so a storage
\* fault (saved = FALSE) leaves the rows alone and the tokens cancelled.
SetDictionary(g, saved) ==
  /\ phase = "up"
  /\ dict[g] < MaxDict
  /\ \A m \in InGroup(g) : mat[m].rev < MaxRev
  /\ job' = CancelJobs({TaskOf[m] : m \in InGroup(g)})
  /\ IF saved
     THEN /\ dict' = [dict EXCEPT ![g] = @ + 1]
          /\ mat' = DictionaryRows(g)
          /\ results' = DictionaryResults(g)
          /\ lost' = DictionaryLost(g)
     ELSE UNCHANGED <<lost, tables>>
  /\ UNCHANGED <<consent, stage, clouded, settings, process>>

\* cancel_task.  The token is cancelled before the transaction is written.
CancelTask(t, saved) ==
  /\ phase = "up"
  /\ MaterialsOf(t) # {}
  /\ \A m \in MaterialsOf(t) : mat[m].rev < MaxRev
  /\ job' = CancelJobs({t})
  /\ mat' = [m \in Materials |->
               IF /\ saved
                  /\ m \in MaterialsOf(t)
                  /\ mat[m].status \in {"queued", "running", "awaiting_consent",
                                        "needs_review"}
               THEN [mat[m] EXCEPT !.status = "cancelled", !.rev = @ + 1]
               ELSE mat[m]]
  /\ UNCHANGED <<dict, results, consent, stage, settings, process, history>>

\* retry_task reprocesses these materials.
Retriable(m) ==
  \/ mat[m].status \in {"failed", "cancelled", "needs_review", "awaiting_consent"}
  \/ /\ mat[m].status = "ready"
     /\ mat[m].result # 0
     /\ results[m][mat[m].result].expired

\* retry_task.  The consent row goes first, in a transaction of its own: a
\* storage fault after it (saved = FALSE) loses only the consent.
RetryTask(t, saved) ==
  /\ phase = "up"
  /\ MaterialsOf(t) # {}
  /\ \A m \in MaterialsOf(t) : mat[m].status # "running" /\ mat[m].rev < MaxRev
  /\ consent' = [consent EXCEPT ![t] = NoConsent]
  /\ LET again == {m \in MaterialsOf(t) : saved /\ Retriable(m)} IN
       /\ mat' = [m \in Materials |-> IF m \in again THEN Requeued(mat[m])
                                                     ELSE mat[m]]
       /\ results' = [m \in Materials |-> IF m \in again
                                          THEN Withdrawn(m, mat[m])
                                          ELSE results[m]]
       /\ lost' = {x \in lost : x[1] \notin again}
  /\ UNCHANGED <<dict, stage, job, clouded, settings, process>>

\* Faulty variant: a missing analysis is taken for a local one.
ReviewEvidence_Lax(m) == stage[m].stage # "none" => stage[m].src = mat[m].src

\* review_ai_evidence_locked: a material with a model stage is reviewed only
\* with model findings for its current source.
ReviewEvidence(m) ==
  stage[m].stage # "none" =>
    stage[m].src = mat[m].src /\ mat[m].analysis.src # None /\ mat[m].analysis.ai

Reviewable(m) ==
  /\ mat[m].status \notin {"none", "running", "revoked", "cancelled"}
  /\ mat[m].text # None
  /\ ReviewEvidence(m)

\* What review stores on the row c: a new revision and a fresh analysis with
\* the model findings m had when the request began.
ReviewAnalysis(m, d, review) ==
  [src |-> mat[m].text, dict |-> d, ai |-> mat[m].analysis.ai, review |-> review]

\* The last transaction of review: the stage is marked reviewed, or is left as
\* it was by a storage fault (marked = FALSE).
ReviewStage(m, rev, marked) ==
  IF marked /\ stage[m].stage # "none"
  THEN [stage EXCEPT ![m] = [stage |-> "reviewed", rev |-> rev, src |-> mat[m].src]]
  ELSE stage

\* review without dictionary entries.
Review(m, review, marked) ==
  LET c == [mat[m] EXCEPT !.rev = @ + 1]
      d == dict[Group(m)]
      a == ReviewAnalysis(m, d, review)
  IN /\ phase = "up"
     /\ mat[m].rev < MaxRev
     /\ Reviewable(m)
     /\ mat' = [mat EXCEPT ![m] = Finished(m, c, d, a, FALSE)]
     /\ results' = [results EXCEPT ![m] = FinishedResults(Withdrawn(m, c), c, d, a)]
     /\ stage' = ReviewStage(m, c.rev, marked)
     /\ UNCHANGED <<dict, consent, job, settings, process, history>>

\* review that adds dictionary entries: update_dictionary_locked first, which
\* requeues the whole group, then the reviewed material is finished from the
\* requeued row.  (Failing between the two leaves what SetDictionary leaves.)
ReviewWithDictionary(m, review, marked) ==
  LET g == Group(m)
      c == [Requeued(mat[m]) EXCEPT !.rev = @ + 1]
      d == dict[g] + 1
      a == ReviewAnalysis(m, d, review)
  IN /\ phase = "up"
     /\ d <= MaxDict
     /\ mat[m].rev + 2 <= MaxRev
     /\ \A o \in InGroup(g) : mat[o].rev < MaxRev
     /\ Reviewable(m)
     /\ dict' = [dict EXCEPT ![g] = d]
     /\ mat' = [DictionaryRows(g) EXCEPT ![m] = Finished(m, c, d, a, FALSE)]
     /\ results' = [DictionaryResults(g) EXCEPT
                      ![m] = FinishedResults(Withdrawn(m, mat[m]), c, d, a)]
     /\ job' = CancelJobs({TaskOf[o] : o \in InGroup(g)})
     /\ stage' = ReviewStage(m, c.rev, marked)
     /\ lost' = DictionaryLost(g)
     /\ UNCHANGED <<consent, clouded, settings, process>>

\* consent: nothing of the task is running; pending materials are queued under
\* their present revision and the grant names exactly those revisions.
GrantConsent(t) ==
  LET pending == {m \in MaterialsOf(t) :
                    mat[m].status \in {"queued", "awaiting_consent", "needs_review"}}
  IN /\ phase = "up"
     /\ granted < MaxConsents
     /\ \A m \in MaterialsOf(t) : mat[m].status # "running"
     /\ pending # {}
     /\ mat' = [m \in Materials |-> IF m \in pending
                                    THEN [mat[m] EXCEPT !.status = "queued"]
                                    ELSE mat[m]]
     /\ granted' = granted + 1
     /\ consent' = [consent EXCEPT ![t] =
                      [id |-> granted + 1, profile |-> profile, expired |-> FALSE,
                       grants |-> {<<m, mat[m].rev, mat[m].src>> : m \in pending},
                       used |-> {}]]
     /\ lost' = {x \in lost : x[1] \notin pending}
     /\ UNCHANGED <<dict, results, profile, model, stage, job, clouded, process>>

RevokeConsent(t) ==
  /\ phase = "up"
  /\ consent[t].id # 0
  /\ consent' = [consent EXCEPT ![t] = NoConsent]
  /\ job' = CancelJobs({t})
  /\ UNCHANGED <<stage, tables, settings, process, history>>

RevokeMaterial(m) ==
  /\ phase = "up"
  /\ mat[m].status # "none"
  /\ mat[m].rev < MaxRev
  /\ mat' = [mat EXCEPT ![m] = [mat[m] EXCEPT !.status = "revoked",
                                              !.rev = mat[m].rev + 1, !.result = 0]]
  /\ results' = [results EXCEPT ![m] = Withdrawn(m, mat[m])]
  /\ job' = CancelJobs({TaskOf[m]})
  /\ UNCHANGED <<dict, consent, stage, settings, process, history>>

\* save_provider / save_ai_provider, seen from the materials: a new revision of
\* the provider, and every registered token is cancelled.
SaveProvider ==
  /\ phase = "up"
  /\ profile < MaxProfile
  /\ profile' = profile + 1
  /\ job' = CancelJobs(Tasks)
  /\ UNCHANGED <<consent, granted, model, stage, tables, process, history>>

\* save_ai_defaults: the redaction model is configured or removed.
SaveAiDefaults ==
  /\ phase = "up"
  /\ \E v \in Models \ {model} : model' = v
  /\ UNCHANGED <<consent, granted, profile, stage, job, tables, process, history>>

\* Time passes: a result or a consent reaches its expires_at.
ExpireResult(m) ==
  /\ mat[m].result # 0
  /\ ~results[m][mat[m].result].expired
  /\ results' = [results EXCEPT ![m][mat[m].result].expired = TRUE]
  /\ UNCHANGED <<mat, dict, consent, stage, job, settings, process, history>>

ExpireConsent(t) ==
  /\ consent[t].id # 0
  /\ ~consent[t].expired
  /\ consent' = [consent EXCEPT ![t].expired = TRUE]
  /\ UNCHANGED <<stage, job, tables, settings, process, history>>

-----------------------------------------------------------------------------
(* The worker: claim_next and process_material. *)

\* claim_next: the row is marked running and the token registered in one
\* critical section.
Claim(m) ==
  LET c == [mat[m] EXCEPT !.status = "running", !.dict = dict[Group(m)]]
  IN /\ phase = "up"
     /\ job.pc = "idle"
     /\ mat[m].status = "queued"
     /\ mat' = [mat EXCEPT ![m] = c]
     /\ job' = [IdleJob EXCEPT !.pc = "select", !.m = m, !.copy = c,
                               !.g = dict[Group(m)]]
     /\ UNCHANGED <<dict, results, consent, stage, settings, process, history>>

\* A worker step that only moves the worker.
Goto(pc) ==
  /\ job' = [job EXCEPT !.pc = pc]
  /\ UNCHANGED <<consent, stage, tables, settings, process, history>>

At(pc) == phase = "up" /\ job.pc = pc

\* selected_ai_model("redaction").
SelectModel == At("select") /\ Goto(IF model THEN "read_ai" ELSE "read_local")

\* The source bytes, read after the admissions, must still be the claimed ones.
ReadLocal ==
  /\ At("read_local")
  /\ Goto(IF mat[job.m].src = job.copy.src THEN "local" ELSE "settle")

\* save_ai_stage writes without looking at the material row.
SaveStage(name, pc) ==
  /\ stage' = [stage EXCEPT ![job.m] =
                 [stage |-> name, rev |-> job.copy.rev, src |-> job.copy.src]]
  /\ job' = [job EXCEPT !.pc = pc]
  /\ UNCHANGED <<consent, tables, settings, process, history>>

ReadAi ==
  /\ At("read_ai")
  /\ IF mat[job.m].src = job.copy.src THEN SaveStage("ocr_running", "ocr")
                                       ELSE Goto("settle")

\* ai_complete_budgeted: the last look at the token and the provider revision is
\* in the critical section that records the dispatch.
Dispatch(from, to) ==
  /\ At(from)
  /\ ~job.cancelled
  /\ job' = [job EXCEPT !.pc = to, !.sent = profile]
  /\ UNCHANGED <<consent, stage, tables, settings, process, history>>

OcrDispatch == Dispatch("ocr", "ocr_wait")

\* Text documents and cached pages need no dispatch.
OcrSkip == At("ocr") /\ Goto("ocr_done")

OcrReply == At("ocr_wait") /\ profile = job.sent /\ Goto("ocr_done")

\* cancel.is_cancelled() after extraction.
OcrCancelled == At("ocr_done") /\ job.cancelled /\ Goto("settle")

\* The extracted text is saved on the fresh row, which becomes the worker's copy.
SaveText ==
  /\ At("ocr_done")
  /\ IF Current
     THEN LET c == [mat[job.m] EXCEPT !.text = job.copy.src]
          IN /\ mat' = [mat EXCEPT ![job.m] = c]
             /\ job' = [job EXCEPT !.copy = c, !.pc = "text_ready"]
     ELSE mat' = mat /\ job' = IdleJob
  /\ UNCHANGED <<dict, results, consent, stage, settings, process, history>>

StageTextReady == At("text_ready") /\ SaveStage("text_ready", "redaction_running")

StageRedaction == At("redaction_running") /\ SaveStage("redaction_running", "redact")

RedactDispatch == Dispatch("redact", "redact_wait")

\* The answer, with the findings checked against the worker's text.  All chunks
\* may have been answered before (ai_chunk records): then no dispatch is made.
Redacted(review) ==
  /\ \/ At("redact")
     \/ At("redact_wait") /\ profile = job.sent
  /\ job' = [job EXCEPT !.pc = "ai_finish",
                        !.analysis = [src |-> job.copy.text, dict |-> job.g,
                                      ai |-> TRUE, review |-> review]]
  /\ UNCHANGED <<consent, stage, tables, settings, process, history>>

\* Extraction or redaction fails: the stage is marked failed, unless that write
\* fails too (marked = FALSE), and the job is settled.
AiFail(marked) ==
  /\ phase = "up"
  /\ job.pc \in {"ocr", "ocr_wait", "redact", "redact_wait"}
  /\ IF marked THEN SaveStage("failed", "settle") ELSE Goto("settle")

\* The critical section that ends both paths: a superseded job leaves the row
\* alone, a changed dictionary queues it again, otherwise finish_locked.
Finish(a, waiting, pc) ==
  LET m == job.m
  IN /\ IF ~Current THEN UNCHANGED <<mat, results>> /\ job' = IdleJob
        ELSE IF dict[Group(m)] # job.g
        THEN /\ mat' = [mat EXCEPT ![m].status = "queued"]
             /\ UNCHANGED results
             /\ job' = IdleJob
        ELSE /\ Publishable(job.copy, a)
             /\ mat' = [mat EXCEPT ![m] = Finished(m, job.copy, job.g, a, waiting)]
             /\ results' = [results EXCEPT ![m] =
                  FinishedResults(Withdrawn(m, job.copy), job.copy, job.g, a)]
             /\ job' = IF pc = "idle" THEN IdleJob
                       ELSE [job EXCEPT !.pc = pc, !.analysis = a]
     /\ UNCHANGED <<dict, consent, stage, settings, process, history>>

AiFinish == At("ai_finish") /\ Finish(job.analysis, FALSE, "ai_stage")

\* The last stage row is written after the gate was released.
AiStage ==
  /\ At("ai_stage")
  /\ stage' = [stage EXCEPT ![job.m] =
                 [stage |-> IF job.analysis.review THEN "needs_review" ELSE "completed",
                  rev |-> job.copy.rev, src |-> job.copy.src]]
  /\ job' = IdleJob
  /\ UNCHANGED <<consent, tables, settings, process, history>>

\* Local extraction and analysis; the worker's whole copy is written back.
LocalAnalyze(review) ==
  LET a == [src |-> job.copy.src, dict |-> job.g, ai |-> FALSE, review |-> review]
      c == [job.copy EXCEPT !.text = job.copy.src, !.analysis = a]
  IN /\ At("local")
     /\ IF Current
        THEN /\ mat' = [mat EXCEPT ![job.m] = c]
             /\ job' = [job EXCEPT !.copy = c, !.analysis = a,
                                   !.pc = IF review THEN "claim_cloud" ELSE "finish"]
        ELSE mat' = mat /\ job' = IdleJob
     /\ UNCHANGED <<dict, results, consent, stage, settings, process, history>>

\* Faulty variant: only the consent's id, profile and expiry are compared.
CloudMatches_AnyRevision(c) == c.id # 0 /\ ~c.expired /\ c.profile = profile

\* cloud_matches for the consent row of the job's task.
CloudMatches(c) ==
  /\ c.id # 0
  /\ ~c.expired
  /\ c.profile = profile
  /\ <<job.m, job.copy.rev, job.copy.src>> \in c.grants

\* Faulty variant: the use of the consent is not recorded.
ClaimCloud_Unmarked ==
  LET c == consent[TaskOf[job.m]]
  IN /\ At("claim_cloud")
     /\ job' = IF ~CloudMatches(c) \/ job.m \in c.used
               THEN [job EXCEPT !.waiting = TRUE, !.pc = "finish"]
               ELSE IF ~Current THEN [job EXCEPT !.pc = "settle"]
               ELSE [job EXCEPT !.cid = c.id, !.pc = "cloud"]
     /\ UNCHANGED <<consent, stage, tables, settings, process, history>>

\* claim_cloud marks the material used before anything is sent.
ClaimCloud ==
  LET t == TaskOf[job.m]
      c == consent[t]
  IN /\ At("claim_cloud")
     /\ IF ~CloudMatches(c) \/ job.m \in c.used
        THEN /\ job' = [job EXCEPT !.waiting = TRUE, !.pc = "finish"]
             /\ UNCHANGED consent
        ELSE IF ~Current
        THEN /\ job' = [job EXCEPT !.pc = "settle"]
             /\ UNCHANGED consent
        ELSE /\ job' = [job EXCEPT !.cid = c.id, !.pc = "cloud"]
             /\ consent' = [consent EXCEPT ![t].used = @ \cup {job.m}]
     /\ UNCHANGED <<stage, tables, settings, process, history>>

\* Faulty variant: the material row is not read again.
RecheckCloud_ConsentOnly ==
  /\ consent[TaskOf[job.m]].id = job.cid
  /\ CloudMatches(consent[TaskOf[job.m]])

\* recheck_cloud_locked.
RecheckCloud ==
  /\ Current
  /\ mat[job.m].src = job.copy.src
  /\ dict[Group(job.m)] = job.copy.dict
  /\ consent[TaskOf[job.m]].id = job.cid
  /\ CloudMatches(consent[TaskOf[job.m]])

\* cloud_findings: the first transport poll, under the gate.
CloudDispatch ==
  /\ At("cloud")
  /\ RecheckCloud
  /\ job' = [job EXCEPT !.pc = "cloud_wait"]
  /\ clouded' = clouded \cup {<<job.cid, job.m>>}
  /\ UNCHANGED <<consent, stage, lost, tables, settings, process>>

\* The answer is used only if the grant still holds.
CloudReply(review) ==
  /\ At("cloud_wait")
  /\ RecheckCloud
  /\ job' = [job EXCEPT !.pc = "finish",
                        !.analysis = [src |-> job.copy.text, dict |-> job.g,
                                      ai |-> FALSE, review |-> review]]
  /\ UNCHANGED <<consent, stage, tables, settings, process, history>>

\* Token, recheck, transport or answer fails: the local analysis stands.
CloudFail == (At("cloud") \/ At("cloud_wait")) /\ Goto("finish")

\* A token cancelled by now forces a manual review.
LocalFinish ==
  /\ At("finish")
  /\ Finish([job.analysis EXCEPT !.review = @ \/ job.cancelled],
            job.waiting /\ ~job.cancelled, "idle")

\* Any other error, panic or refused admission of the job.
JobError ==
  /\ phase = "up"
  /\ job.pc \notin {"idle", "settle", "ocr", "ocr_wait", "redact", "redact_wait"}
  /\ Goto("settle")

\* Faulty variants of the terminal write: not made, and made without comparing.
Settle_Dropped ==
  /\ At("settle")
  /\ job' = IdleJob
  /\ UNCHANGED <<consent, stage, tables, settings, process, history>>

Settle_Unconditional ==
  /\ At("settle")
  /\ mat' = [mat EXCEPT ![job.m].status = "failed"]
  /\ job' = IdleJob
  /\ UNCHANGED <<dict, results, consent, stage, settings, process, history>>

\* settle_material_failure: fail_material, a compare-and-set on the revision.
Settle ==
  /\ At("settle")
  /\ mat' = IF Current THEN [mat EXCEPT ![job.m].status = "failed"] ELSE mat
  /\ job' = IdleJob
  /\ UNCHANGED <<dict, results, consent, stage, settings, process, history>>

-----------------------------------------------------------------------------
(* The process dies and Workspace::open recovers. *)

InFlight ==
  IF job.pc \in {"ocr_wait", "redact_wait", "cloud_wait"} /\ Current
  THEN {<<job.m, CASE job.pc = "ocr_wait" -> "ocr"
                   [] job.pc = "redact_wait" -> "redact"
                   [] OTHER -> "cloud">>}
  ELSE {}

Crash ==
  /\ crashes < MaxCrashes
  /\ crashes' = crashes + 1
  /\ lost' = lost \cup InFlight
  /\ job' = IdleJob
  /\ phase' = "recover_materials"
  /\ UNCHANGED <<consent, stage, clouded, tables, settings>>

\* open: a running material whose consent was used is parked, else requeued.
RecoverMaterial(m) ==
  /\ phase = "recover_materials"
  /\ mat[m].status = "running"
  /\ mat' = [mat EXCEPT ![m].status =
               IF consent[TaskOf[m]].id # 0 /\ m \in consent[TaskOf[m]].used
               THEN "needs_review" ELSE "queued"]
  /\ UNCHANGED <<dict, results, consent, stage, job, settings, process, history>>

MaterialsRecovered ==
  /\ phase = "recover_materials"
  /\ \A m \in Materials : mat[m].status # "running"
  /\ phase' = "recover_stages"
  /\ UNCHANGED <<consent, stage, job, crashes, tables, settings, history>>

RunningStage(m) == stage[m].stage \in {"ocr_running", "redaction_running"}

\* Faulty variant: materials requeued by the first recovery pass are missed.
RecoverStage_RunningOnly(m) ==
  /\ phase = "recover_stages"
  /\ RunningStage(m)
  /\ IF mat[m].rev = stage[m].rev /\ mat[m].status = "running"
     THEN mat' = [mat EXCEPT ![m].status = "needs_review"] /\ UNCHANGED stage
     ELSE stage' = [stage EXCEPT ![m].stage = "interrupted"] /\ UNCHANGED mat
  /\ UNCHANGED <<dict, results, consent, job, settings, process, history>>

\* recover_ai_stages: the material row is parked first, the stage row after it.
RecoverStage(m) ==
  /\ phase = "recover_stages"
  /\ RunningStage(m)
  /\ IF /\ mat[m].rev = stage[m].rev
        /\ mat[m].src = stage[m].src
        /\ mat[m].status \in {"running", "queued"}
     THEN /\ mat' = [mat EXCEPT ![m].status = "needs_review"]
          /\ UNCHANGED stage
     ELSE /\ stage' = [stage EXCEPT ![m].stage = "interrupted"]
          /\ UNCHANGED mat
  /\ UNCHANGED <<dict, results, consent, job, settings, process, history>>

StagesRecovered ==
  /\ phase = "recover_stages"
  /\ \A m \in Materials : ~RunningStage(m)
  /\ phase' = "up"
  /\ UNCHANGED <<consent, stage, job, crashes, tables, settings, history>>

-----------------------------------------------------------------------------
UserNext ==
  \/ \E t \in Tasks : Submit(t) \/ GrantConsent(t) \/ RevokeConsent(t)
  \/ \E t \in Tasks, saved \in BOOLEAN : CancelTask(t, saved) \/ RetryTask(t, saved)
  \/ \E m \in Materials : ReplaceMaterial(m) \/ RevokeMaterial(m)
  \/ \E g \in Groups, saved \in BOOLEAN : SetDictionary(g, saved)
  \/ \E m \in Materials, review, marked \in BOOLEAN :
       Review(m, review, marked) \/ ReviewWithDictionary(m, review, marked)
  \/ SaveProvider
  \/ SaveAiDefaults
  \/ \E m \in Materials : ExpireResult(m)
  \/ \E t \in Tasks : ExpireConsent(t)

WorkerNext ==
  \/ \E m \in Materials : Claim(m)
  \/ SelectModel \/ ReadLocal \/ ReadAi
  \/ OcrDispatch \/ OcrSkip \/ OcrReply \/ OcrCancelled \/ SaveText
  \/ StageTextReady \/ StageRedaction \/ RedactDispatch
  \/ \E review \in BOOLEAN : Redacted(review) \/ LocalAnalyze(review) \/ CloudReply(review)
  \/ \E marked \in BOOLEAN : AiFail(marked)
  \/ AiFinish \/ AiStage
  \/ ClaimCloud \/ CloudDispatch \/ CloudFail \/ LocalFinish
  \/ JobError \/ Settle

RecoveryNext ==
  \/ \E m \in Materials : RecoverMaterial(m) \/ RecoverStage(m)
  \/ MaterialsRecovered \/ StagesRecovered

Next == UserNext \/ WorkerNext \/ RecoveryNext \/ Crash

\* The worker loop, its transport timeouts and the recovery run to completion;
\* users and crashes are under no obligation.
Fairness == WF_vars(WorkerNext) /\ WF_vars(RecoveryNext)

Spec == Init /\ [][Next]_vars /\ Fairness

-----------------------------------------------------------------------------
(* What the handlers must guarantee together. *)

\* A result row that is not revoked is the one its material shows, was made
\* from the material's present source with the group's present dictionary, and
\* carries the present revision.  finish_locked, replace_material, retry_task,
\* update_dictionary_locked, revoke_material and review keep it between them.
PublishedIsCurrent ==
  \A m \in Materials : \A i \in 1..Len(results[m]) :
    LET r == results[m][i] IN
    ~r.revoked => /\ mat[m].status = "ready"
                  /\ mat[m].result = i
                  /\ mat[m].rev = r.rev
                  /\ mat[m].src = r.src
                  /\ dict[Group(m)] = r.dict
                  /\ r.adict = r.dict

\* A material shown as ready can be read until its result expires: no handler
\* leaves a ready row that read_result_locked refuses.
ReadyIsReadable ==
  \A m \in Materials :
    mat[m].status = "ready" =>
      /\ mat[m].result \in 1..Len(results[m])
      /\ results[m][mat[m].result].expired \/ Readable(m, mat[m].result)

\* Text and analysis of a row belong to the row's source, whatever was replaced
\* while the worker was extracting.
TextOfSource ==
  \A m \in Materials :
    /\ mat[m].text \in {None, mat[m].src}
    /\ mat[m].analysis.src \in {None, mat[m].src}

\* The worker writes its whole copy back after comparing revision and status
\* only.  That loses no update: while the comparison succeeds, the stored row is
\* the copy, and the dictionary is the one the worker read.
CopyIsCurrent ==
  job.m # None /\ Current =>
    mat[job.m] = job.copy /\ dict[Group(job.m)] = job.g

\* Outside recovery a running row belongs to the job the worker is processing:
\* no error path, panic or race strands a material in "running".
NoStranded ==
  \A m \in Materials :
    phase = "up" /\ mat[m].status = "running" => job.m = m /\ Current

\* The result a row names exists, exactly the ready rows name one, and only
\* submitted materials have a revision.
ResultIndex ==
  \A m \in Materials :
    /\ mat[m].result \in 0..Len(results[m])
    /\ (mat[m].result # 0) = (mat[m].status = "ready")
    /\ mat[m].status = "none" => mat[m].rev = 0

\* What the worker relies on between two critical sections.
JobConsistent ==
  /\ phase # "up" => job.m = None
  /\ job.m # None => job.copy.rev <= mat[job.m].rev
  /\ job.pc \in {"text_ready", "redaction_running", "redact", "redact_wait",
                 "ai_finish", "claim_cloud", "cloud", "cloud_wait", "finish"} =>
       job.copy.text = job.copy.src
  /\ job.pc \in {"ai_finish", "claim_cloud", "cloud", "cloud_wait", "finish"} =>
       job.analysis.src = job.copy.src /\ job.analysis.dict = job.g

\* The inductive strengthening of PublishedIsCurrent: a late publication is
\* harmless because the worker's copy is the row whenever its revision is, and
\* carries text and findings of that row's source.
PublicationInvariant ==
  /\ TypeOK
  /\ ResultIndex
  /\ PublishedIsCurrent
  /\ TextOfSource
  /\ CopyIsCurrent
  /\ JobConsistent

\* Protected text leaves the process (OCR, redaction or cloud request) only for
\* a material that is still running under the revision the worker claimed, with
\* the dictionary it read: cancel, replace, revoke and dictionary changes win.
DispatchIsCurrent ==
  [][job'.pc # job.pc /\ job'.pc \in {"ocr_wait", "redact_wait", "cloud_wait"} =>
       Current /\ dict[Group(job.m)] = job.g]_vars

\* "Never replay a raw cloud dispatch after a crash": a dispatch whose answer was
\* lost is not sent again until the user retries, consents, replaces the source
\* or changes the dictionary.
NoReplay ==
  [][job'.pc # job.pc =>
       /\ job'.pc = "ocr_wait" => <<job.m, "ocr">> \notin lost
       /\ job'.pc = "redact_wait" => <<job.m, "redact">> \notin lost
       /\ job'.pc = "cloud_wait" => <<job.m, "cloud">> \notin lost]_vars

\* A consent covers one dispatch of each material, for the revision, source and
\* provider profile that were consented to, while it is neither revoked nor
\* expired; claim_cloud and recheck_cloud_locked see to it.
OneDispatchPerConsent ==
  [][job.pc # "cloud_wait" /\ job'.pc = "cloud_wait" =>
       LET c == consent[TaskOf[job.m]] IN
       /\ c.id = job.cid /\ ~c.expired /\ c.profile = profile
       /\ <<job.m, mat[job.m].rev, mat[job.m].src>> \in c.grants
       /\ <<job.cid, job.m>> \notin clouded]_vars

\* A manual review (the step that makes a row ready under a new revision) of a
\* material that has a model stage keeps the model's findings: treating it as
\* local-only could expose an entity the model had identified.
ReviewKeepsEvidence ==
  [][\A m \in Materials :
       mat'[m].status = "ready" /\ mat'[m].rev # mat[m].rev /\ stage[m].stage # "none"
         => mat'[m].analysis.ai /\ mat'[m].analysis.src = stage[m].src]_vars

\* A settled row changes only under a new revision, so a request or a worker
\* that holds the old revision is refused afterwards.
SettledNeedsRevision ==
  [][\A m \in Materials :
       mat[m].status \in {"ready", "failed", "cancelled", "revoked"} /\ mat'[m] # mat[m]
         => mat'[m].rev > mat[m].rev]_vars

\* Every queued material is taken up and settled, through crashes and errors.
QueueDrains ==
  \A m \in Materials :
    mat[m].status \in {"queued", "running"} ~> mat[m].status \notin {"queued", "running"}

\* The results of m that are not revoked.
Live(m) == {i \in 1..Len(results[m]) : ~results[m][i].revoked}

Shown(m) ==
  {[id |-> i, src |-> results[m][i].src, dict |-> results[m][i].adict] : i \in Live(m)}

Readers == INSTANCE Publication WITH
  GroupOf <- [m \in Materials |-> Group(m)],
  source <- [m \in Materials |-> mat[m].src],
  made <- [m \in Materials |-> Len(results[m])],
  shown <- [m \in Materials |-> Shown(m)]

\* The readers of results see a workspace that publishes and withdraws in single
\* steps, although a result is made from copies read several critical sections ago.
Publishes == Readers!Spec
=============================================================================
