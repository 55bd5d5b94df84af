------------------------ MODULE MaterialSafetyProofs ------------------------
(***************************************************************************)
(* TLAPS proofs about Materials: no material is stranded in work, ready    *)
(* results can be read, dispatches are current, covered by a consent and   *)
(* never replayed, and reviews keep the evidence.                          *)
(***************************************************************************)
EXTENDS MaterialsProofs

\* A ready row has its text and names a result that is not revoked.
ShowsResult(c, rs) ==
  c.status = "ready" => /\ c.text = c.src
                        /\ c.result \in 1..Len(rs)
                        /\ ~rs[c.result].revoked

ReadyShows == \A m \in Materials : ShowsResult(mat[m], results[m])

\* A running row is the worker's, and none is left once the first recovery pass ended.
RunningHeld ==
  /\ \A m \in Materials :
       mat[m].status = "running" => /\ phase # "recover_stages"
                                    /\ phase = "up" => job.m = m /\ Current
  /\ job.pc = "ai_stage" => mat[job.m].status # "running"

\* While the token of a job is not cancelled nobody changed the row it works on.
TokenHolds ==
  job.m # None /\ ~job.cancelled /\ job.pc \notin {"ai_stage", "settle"} => Current

\* No consent of the material's task allows another cloud dispatch of it.
Unusable(m) == consent[TaskOf[m]].id = 0 \/ m \in consent[TaskOf[m]].used

\* What is on disk before a request leaves: recovery will find it.
DispatchRecorded ==
  job.m # None /\ Current =>
    /\ job.pc \in {"ocr", "ocr_wait"} =>
         stage[job.m] = [stage |-> "ocr_running", rev |-> job.copy.rev, src |-> job.copy.src]
    /\ job.pc \in {"redact", "redact_wait"} =>
         stage[job.m] =
           [stage |-> "redaction_running", rev |-> job.copy.rev, src |-> job.copy.src]
    /\ job.pc \in {"cloud", "cloud_wait"} => Unusable(job.m)

\* A material whose answer was lost is not pending, or cannot be sent again, or will
\* be parked by the recovery under way.
LostParked ==
  \A m \in Materials, k \in Kinds : <<m, k>> \in lost =>
    /\ mat[m].status # "none"
    /\ \/ mat[m].status \notin {"queued", "running"}
       \/ k = "cloud" /\ Unusable(m)
       \/ /\ k # "cloud" /\ phase # "up" /\ RunningStage(m)
          /\ stage[m].rev = mat[m].rev /\ stage[m].src = mat[m].src

\* Every dispatch used up the consent it was made under.
ConsentsUsed ==
  /\ \A t \in Tasks : consent[t].id <= granted
  /\ \A i \in Nat, m \in Materials : <<i, m>> \in clouded =>
       /\ i \in 1..granted
       /\ consent[TaskOf[m]].id = i => m \in consent[TaskOf[m]].used
  /\ job.pc = "cloud" =>
       /\ job.cid \in 1..granted
       /\ consent[TaskOf[job.m]].id = job.cid => job.m \in consent[TaskOf[job.m]].used
       /\ <<job.cid, job.m>> \notin clouded
       /\ <<job.m, "cloud">> \notin lost

Safe ==
  /\ ReadyShows
  /\ RunningHeld
  /\ TokenHolds
  /\ DispatchRecorded
  /\ LostParked
  /\ ConsentsUsed

-----------------------------------------------------------------------------
(* What a request does to rows, stages, consents and the worker's token. *)

\* The worker keeps its place; its token may have been cancelled.
JobKept ==
  /\ job'.m = job.m /\ job'.copy = job.copy /\ job'.g = job.g /\ job'.pc = job.pc
  /\ job'.cid = job.cid /\ (job.cancelled => job'.cancelled)

NotLost(m) == \A k \in Kinds : <<m, k>> \notin lost

\* The row stays, and its results at most expire.
RowKept(m) ==
  /\ mat'[m] = mat[m]
  /\ Len(results'[m]) = Len(results[m])
  /\ \A i \in 1..Len(results[m]) : results'[m][i].revoked = results[m][i].revoked

\* The row is requeued, cancelled or revoked under a new revision.
SetAside(m) ==
  /\ mat'[m].rev > mat[m].rev
  /\ mat'[m].status \notin {"none", "running", "ready"}
  /\ m = job.m /\ Current => job'.cancelled
  /\ mat'[m].status = "queued" => NotLost(m)'

\* The row is finished by a review, with the model findings of its stage.
Reviewed(m) ==
  /\ mat[m].status # "running"
  /\ mat'[m].rev > mat[m].rev
  /\ mat'[m].status \notin {"none", "running", "queued"}
  /\ ShowsResult(mat'[m], results'[m])
  /\ stage[m].stage # "none" =>
       mat'[m].analysis.ai /\ mat'[m].analysis.src = stage[m].src

\* The row is queued because its cloud use was consented to.
Consented(m) ==
  /\ mat[m].status \in {"queued", "awaiting_consent", "needs_review"}
  /\ mat'[m].status = "queued" /\ NotLost(m)'

StageKept(m) == stage'[m] = stage[m] \/ (phase = "up" /\ mat[m].status # "running")

\* A consent is withdrawn, kept, or granted anew for rows that owe no answer.
ConsentKept(t) ==
  \/ consent'[t].id = 0
  \/ consent'[t].id = consent[t].id /\ consent'[t].used = consent[t].used
  \/ /\ consent'[t].id = granted + 1 /\ granted' = granted + 1
     /\ \A m \in Materials : TaskOf[m] = t =>
          /\ mat[m].status # "running"
          /\ mat'[m].status \in {"queued", "running"} => NotLost(m)'

UserEffect ==
  /\ phase' = phase /\ clouded' = clouded /\ lost' \subseteq lost /\ JobKept
  /\ granted' \in Nat /\ granted <= granted'
  /\ \A t \in Tasks : ConsentKept(t)
  /\ \A m \in Materials :
       /\ RowKept(m) \/ SetAside(m) \/ Reviewed(m) \/ Consented(m)
       /\ StageKept(m)

\* A request leaves only rows running that it does not touch.
LEMMA RunningKept ==
  ASSUME UserEffect, NEW m \in Materials, mat'[m].status = "running"
  PROVE  RowKept(m)
BY DEF UserEffect, SetAside, Reviewed, Consented

\* The worker's row is current after a request only if it was and was not touched.
LEMMA CurrentKept ==
  ASSUME UserEffect, job.m \in Materials, Current'
  PROVE  Current /\ mat'[job.m] = mat[job.m] /\ stage'[job.m] = stage[job.m]
<1>1. job'.m = job.m /\ job'.copy = job.copy
  BY DEF UserEffect, JobKept
<1>2. mat'[job.m].status = "running" /\ mat'[job.m].rev = job.copy.rev
  BY <1>1 DEF Current
<1>3. mat'[job.m] = mat[job.m]
  BY <1>2, RunningKept DEF RowKept
<1>4. stage'[job.m] = stage[job.m]
  BY <1>2, <1>3 DEF UserEffect, StageKept
<1> QED BY <1>2, <1>3, <1>4 DEF Current

\* A consent that allows no dispatch of a running material is not replaced.
LEMMA UnusableKept ==
  ASSUME UserEffect, NEW m \in Materials, Unusable(m),
         mat[m].status = "running" \/ (mat'[m].status \in {"queued", "running"} /\ ~NotLost(m)')
  PROVE  Unusable(m)'
<1>1. TaskOf[m] \in Tasks
  BY ConstantsAssumption
<1>2. ConsentKept(TaskOf[m])
  BY <1>1 DEF UserEffect
<1> QED BY <1>2 DEF ConsentKept, Unusable

\* Requests keep the safety invariant.
LEMMA UserSafe ==
  ASSUME Inv, Safe, UserEffect
  PROVE  Safe'
<1>0. /\ phase' = phase /\ clouded' = clouded /\ lost' \subseteq lost /\ JobKept
      /\ job.m \in Materials \cup {None}
  BY DEF UserEffect, Inv, TypeOK, Job
<1>1. ReadyShows'
  <2>1. ASSUME NEW m \in Materials PROVE ShowsResult(mat'[m], results'[m])
    <3>1. CASE RowKept(m)
      BY <3>1 DEF RowKept, ShowsResult, Safe, ReadyShows
    <3>2. CASE ~RowKept(m)
      BY <3>2 DEF UserEffect, SetAside, Reviewed, Consented, ShowsResult
    <3> QED BY <3>1, <3>2
  <2> QED BY <2>1 DEF ReadyShows, ShowsResult
<1>2. RunningHeld'
  <2>1. ASSUME NEW m \in Materials, mat'[m].status = "running"
        PROVE  phase' # "recover_stages" /\ (phase' = "up" => job'.m = m /\ Current')
    <3>1. mat'[m] = mat[m]
      BY <2>1, RunningKept DEF RowKept
    <3> QED BY <1>0, <2>1, <3>1 DEF Safe, RunningHeld, JobKept, Current
  <2>2. (job.pc = "ai_stage" => mat[job.m].status # "running")'
    <3>1. ASSUME job'.pc = "ai_stage" PROVE mat'[job'.m].status # "running"
      <4>1. job.pc = "ai_stage" /\ job'.m = job.m /\ job.m \in Materials
        BY <1>0, <3>1 DEF JobKept, Inv, TypeOK, Job
      <4>2. mat[job.m].status # "running"
        BY <4>1 DEF Safe, RunningHeld
      <4> QED BY <4>1, <4>2, RunningKept DEF RowKept
    <3> QED BY <3>1
  <2> QED BY <2>1, <2>2 DEF RunningHeld
<1>3. TokenHolds'
  <2>1. ASSUME job'.m # None, ~job'.cancelled, job'.pc \notin {"ai_stage", "settle"}
        PROVE  Current'
    <3>1. /\ job.m \in Materials /\ ~job.cancelled /\ Current
          /\ job'.m = job.m /\ job'.copy = job.copy
      BY <1>0, <2>1 DEF JobKept, Safe, TokenHolds
    <3>2. RowKept(job.m)
      BY <2>1, <3>1 DEF UserEffect, SetAside, Reviewed, Consented, Current
    <3> QED BY <3>1, <3>2 DEF RowKept, Current
  <2> QED BY <2>1 DEF TokenHolds
<1>4. DispatchRecorded'
  <2>1. CASE job'.m # None /\ Current'
    <3>1. /\ job.m \in Materials /\ job'.m = job.m /\ job'.copy = job.copy
          /\ job'.pc = job.pc
      BY <1>0, <2>1 DEF JobKept
    <3>2. Current /\ mat'[job.m] = mat[job.m] /\ stage'[job.m] = stage[job.m]
      BY <2>1, <3>1, CurrentKept
    <3>3. PICK n \in Materials : n = job.m
      BY <3>1
    <3>4. job.pc \in {"cloud", "cloud_wait"} => Unusable(n)'
      <4>1. mat[n].status = "running" /\ n # None
        BY <3>2, <3>3, ConstantsAssumption DEF Current
      <4>2. job.pc \in {"cloud", "cloud_wait"} => Unusable(n)
        BY <3>2, <3>3, <4>1 DEF Safe, DispatchRecorded, Unusable
      <4> QED BY <4>1, <4>2, UnusableKept
    <3>5. job.m # None
      BY <2>1, <3>1
    <3> QED BY <3>1, <3>2, <3>3, <3>4, <3>5 DEF Safe, DispatchRecorded, Unusable
  <2> QED BY <2>1 DEF DispatchRecorded
<1>5. LostParked'
  <2>1. ASSUME NEW m \in Materials, NEW k \in Kinds, <<m, k>> \in lost'
        PROVE  /\ mat'[m].status # "none"
               /\ \/ mat'[m].status \notin {"queued", "running"}
                  \/ k = "cloud" /\ Unusable(m)'
                  \/ /\ k # "cloud" /\ phase' # "up" /\ RunningStage(m)'
                     /\ stage'[m].rev = mat'[m].rev /\ stage'[m].src = mat'[m].src
    <3>1. <<m, k>> \in lost /\ ~NotLost(m)'
      BY <1>0, <2>1 DEF NotLost
    <3>2. CASE RowKept(m)
      <4>1. mat'[m] = mat[m] /\ mat[m].status # "none"
        BY <3>1, <3>2 DEF RowKept, Safe, LostParked
      <4>2. CASE mat[m].status \notin {"queued", "running"}
        BY <4>1, <4>2
      <4>3. CASE mat[m].status \in {"queued", "running"} /\ k = "cloud" /\ Unusable(m)
        BY <4>1, <4>3, <3>1, UnusableKept
      <4>4. CASE /\ k # "cloud" /\ phase # "up" /\ RunningStage(m)
                 /\ stage[m].rev = mat[m].rev /\ stage[m].src = mat[m].src
        <5>1. stage'[m] = stage[m]
          BY <4>4 DEF UserEffect, StageKept
        <5> QED BY <1>0, <4>1, <4>4, <5>1 DEF RunningStage
      <4> QED BY <3>1, <4>2, <4>3, <4>4 DEF Safe, LostParked
    <3>3. CASE ~RowKept(m)
      BY <3>1, <3>3 DEF UserEffect, SetAside, Reviewed, Consented
    <3> QED BY <3>2, <3>3
  <2> QED BY <2>1 DEF LostParked
<1>6. ConsentsUsed'
  <2>1. granted \in Nat /\ granted' \in Nat /\ granted <= granted'
        /\ \A t \in Tasks : consent[t].id \in Nat
    BY DEF UserEffect, Inv, TypeOK, Consent
  <2>2. \A t \in Tasks : consent'[t].id <= granted'
    BY <2>1 DEF UserEffect, ConsentKept, Safe, ConsentsUsed
  <2>3. ASSUME NEW i \in Nat, NEW m \in Materials, i \in 1..granted,
               consent[TaskOf[m]].id = i => m \in consent[TaskOf[m]].used
        PROVE  /\ i \in 1..granted'
               /\ consent'[TaskOf[m]].id = i => m \in consent'[TaskOf[m]].used
    <3>1. ConsentKept(TaskOf[m])
      BY ConstantsAssumption DEF UserEffect
    <3> QED BY <2>1, <2>3, <3>1 DEF ConsentKept
  <2>4. ASSUME NEW i \in Nat, NEW m \in Materials, <<i, m>> \in clouded'
        PROVE  /\ i \in 1..granted'
               /\ consent'[TaskOf[m]].id = i => m \in consent'[TaskOf[m]].used
    BY <1>0, <2>3, <2>4 DEF Safe, ConsentsUsed
  <2>5. ASSUME job'.pc = "cloud"
        PROVE  /\ job'.cid \in 1..granted'
               /\ consent'[TaskOf[job'.m]].id = job'.cid =>
                    job'.m \in consent'[TaskOf[job'.m]].used
               /\ <<job'.cid, job'.m>> \notin clouded'
               /\ <<job'.m, "cloud">> \notin lost'
    <3>1. /\ job.pc = "cloud" /\ job'.m = job.m /\ job'.cid = job.cid
          /\ job.m \in Materials /\ job.cid \in Nat
      BY <1>0, <2>5 DEF JobKept, Inv, TypeOK, Job
    <3> QED BY <1>0, <2>3, <3>1 DEF Safe, ConsentsUsed
  <2> QED BY <2>2, <2>4, <2>5 DEF ConsentsUsed
<1> QED BY <1>1, <1>2, <1>3, <1>4, <1>5, <1>6 DEF Safe

-----------------------------------------------------------------------------
(* Each request has that effect. *)

\* Cancelling the tokens of some tasks cancels the worker's if it works for one.
LEMMA TokenCancelled ==
  ASSUME TypeOK, NEW ts, job' = CancelJobs(ts)
  PROVE  /\ JobKept
         /\ \A m \in Materials : m = job.m /\ TaskOf[m] \in ts => job'.cancelled
BY ConstantsAssumption DEF TypeOK, CancelJobs, Job, JobKept

\* Rows a request leaves alone.
LEMMA SameIsKept ==
  ASSUME NEW m, mat'[m] = mat[m], results'[m] = results[m] PROVE RowKept(m)
BY DEF RowKept

\* What every request leaves alone unless it is about it.
LEMMA Untouched ==
  ASSUME TypeOK
  PROVE  /\ granted \in Nat
         /\ granted' = granted => granted' \in Nat /\ granted <= granted'
         /\ job' = job => JobKept
         /\ consent' = consent => \A t \in Tasks : ConsentKept(t)
         /\ stage' = stage => \A m \in Materials : StageKept(m)
         /\ mat' = mat /\ results' = results => \A m \in Materials : RowKept(m)
BY DEF TypeOK, JobKept, ConsentKept, StageKept, RowKept

\* submit: rows that were not there owe no answer.
LEMMA SubmitEffect == ASSUME Inv, Safe, NEW t \in Tasks, Submit(t) PROVE UserEffect
<1> USE DEF tables, settings, process, history
<1>1. UNCHANGED <<dict, results, consent, granted, profile, model, stage, job, phase,
                  lost, clouded, crashes>>
  BY DEF Submit
<1>2. PICK s \in [{m \in Materials : TaskOf[m] = t} -> Sources] :
        mat' = [m \in Materials |->
                 IF TaskOf[m] = t
                 THEN [NoMaterial EXCEPT !.status = "queued", !.rev = 1,
                                         !.src = s[m], !.dict = dict[Group(m)]]
                 ELSE mat[m]]
  BY DEF Submit
<1>3. ASSUME NEW m \in Materials PROVE RowKept(m) \/ SetAside(m)
  <2>1. CASE TaskOf[m] = t
    <3>1. mat[m].status = "none" /\ mat[m].rev = 0
      BY <2>1 DEF Submit, MaterialsOf, Inv, RowsOK, RowOK
    <3>2. mat'[m].rev = 1 /\ mat'[m].status = "queued"
      BY <1>2, <2>1 DEF NoMaterial
    <3>3. NotLost(m)'
      BY <1>1, <3>1 DEF NotLost, Safe, LostParked
    <3>4. ~(m = job.m /\ Current)
      BY <3>1 DEF Current
    <3> QED BY <3>1, <3>2, <3>3, <3>4 DEF SetAside
  <2>2. CASE TaskOf[m] # t
    BY <1>1, <1>2, <2>2, SameIsKept
  <2> QED BY <2>1, <2>2
<1> QED BY <1>1, <1>3, Untouched DEF UserEffect, Inv

\* The types of a requeued row.
LEMMA RequeuedFields ==
  ASSUME Inv, NEW m \in Materials
  PROVE  Requeued(mat[m]).rev > mat[m].rev /\ Requeued(mat[m]).status = "queued"
         /\ Requeued(mat[m]) \in Material
<1>1. mat[m] \in Material /\ mat[m].text \in {None, mat[m].src} /\ mat[m].rev \in Nat
  BY DEF Inv, TypeOK, RowsOK, RowOK, Material
<1> QED BY <1>1, RequeuedRow

\* replace_material.
LEMMA ReplaceEffect == ASSUME Inv, Safe, NEW m \in Materials, ReplaceMaterial(m) PROVE UserEffect
<1> USE DEF tables, settings, process, history
<1>1. /\ UNCHANGED <<dict, consent, granted, profile, model, stage, phase, clouded, crashes>>
      /\ results' = [results EXCEPT ![m] = Withdrawn(m, mat[m])]
      /\ job' = CancelJobs({TaskOf[m]})
      /\ lost' = {x \in lost : x[1] # m}
  BY DEF ReplaceMaterial
<1>2. PICK s \in Sources :
        mat' = [mat EXCEPT ![m] = [Requeued(mat[m]) EXCEPT !.src = s, !.text = None]]
  BY DEF ReplaceMaterial
<1>3. mat'[m].rev > mat[m].rev /\ mat'[m].status = "queued"
  BY <1>2, RequeuedFields DEF Inv, TypeOK, Material
<1>4. NotLost(m)'
  BY <1>1 DEF NotLost
<1>5. JobKept /\ (m = job.m => job'.cancelled)
  BY <1>1, TokenCancelled DEF Inv
<1>6. \A n \in Materials : RowKept(n) \/ SetAside(n)
  <2>1. SetAside(m)
    BY <1>3, <1>4, <1>5 DEF SetAside
  <2>2. \A n \in Materials : n # m => mat'[n] = mat[n] /\ results'[n] = results[n]
    BY <1>1, <1>2 DEF Inv, TypeOK
  <2> QED BY <2>1, <2>2, SameIsKept
<1>7. lost' \subseteq lost
  BY <1>1
<1> QED BY <1>1, <1>5, <1>6, <1>7, Untouched DEF UserEffect, Inv

\* revoke_material.
LEMMA RevokeEffect == ASSUME Inv, Safe, NEW m \in Materials, RevokeMaterial(m) PROVE UserEffect
<1> USE DEF tables, settings, process, history
<1>1. /\ UNCHANGED <<dict, consent, granted, profile, model, stage, phase, lost, clouded,
                     crashes>>
      /\ mat' = [mat EXCEPT ![m] = [mat[m] EXCEPT !.status = "revoked",
                                                  !.rev = mat[m].rev + 1, !.result = 0]]
      /\ results' = [results EXCEPT ![m] = Withdrawn(m, mat[m])]
      /\ job' = CancelJobs({TaskOf[m]})
  BY DEF RevokeMaterial
<1>2. mat'[m].rev > mat[m].rev /\ mat'[m].status = "revoked"
  BY <1>1 DEF Inv, TypeOK, Material
<1>3. JobKept /\ (m = job.m => job'.cancelled)
  BY <1>1, TokenCancelled DEF Inv
<1>4. \A n \in Materials : RowKept(n) \/ SetAside(n)
  <2>1. SetAside(m)
    BY <1>2, <1>3 DEF SetAside
  <2>2. \A n \in Materials : n # m => mat'[n] = mat[n] /\ results'[n] = results[n]
    BY <1>1 DEF Inv, TypeOK
  <2> QED BY <2>1, <2>2, SameIsKept
<1> QED BY <1>1, <1>3, <1>4, Untouched DEF UserEffect, Inv

\* cancel_task.
LEMMA CancelEffect ==
  ASSUME Inv, Safe, NEW t \in Tasks, NEW saved \in BOOLEAN, CancelTask(t, saved)
  PROVE  UserEffect
<1> USE DEF tables, settings, process, history
<1>1. /\ UNCHANGED <<dict, results, consent, granted, profile, model, stage, phase,
                     lost, clouded, crashes>>
      /\ job' = CancelJobs({t})
      /\ mat' = [m \in Materials |->
                   IF /\ saved
                      /\ m \in MaterialsOf(t)
                      /\ mat[m].status \in {"queued", "running", "awaiting_consent",
                                            "needs_review"}
                   THEN [mat[m] EXCEPT !.status = "cancelled", !.rev = mat[m].rev + 1]
                   ELSE mat[m]]
  BY DEF CancelTask
<1>2. /\ JobKept
      /\ \A m \in Materials : m = job.m /\ TaskOf[m] = t => job'.cancelled
  BY <1>1, TokenCancelled DEF Inv
<1>3. ASSUME NEW m \in Materials PROVE RowKept(m) \/ SetAside(m)
  <2>1. CASE mat'[m] = mat[m]
    BY <1>1, <2>1, SameIsKept
  <2>2. CASE mat'[m] # mat[m]
    <3>1. /\ TaskOf[m] = t
          /\ mat'[m] = [mat[m] EXCEPT !.status = "cancelled", !.rev = mat[m].rev + 1]
      BY <1>1, <2>2 DEF MaterialsOf
    <3>2. mat'[m].rev > mat[m].rev /\ mat'[m].status = "cancelled"
      BY <3>1 DEF Inv, TypeOK, Material
    <3> QED BY <1>2, <3>1, <3>2 DEF SetAside
  <2> QED BY <2>1, <2>2
<1> QED BY <1>1, <1>2, <1>3, Untouched DEF UserEffect, Inv

\* retry_task: it waits until nothing of the task is running.
LEMMA RetryEffect ==
  ASSUME Inv, Safe, NEW t \in Tasks, NEW saved \in BOOLEAN, RetryTask(t, saved)
  PROVE  UserEffect
<1> USE DEF tables, settings, process, history
<1> DEFINE again == {m \in MaterialsOf(t) : saved /\ Retriable(m)}
<1>1. /\ UNCHANGED <<dict, granted, profile, model, stage, job, phase, clouded, crashes>>
      /\ consent' = [consent EXCEPT ![t] = NoConsent]
      /\ mat' = [m \in Materials |-> IF m \in again THEN Requeued(mat[m]) ELSE mat[m]]
      /\ results' = [m \in Materials |-> IF m \in again THEN Withdrawn(m, mat[m])
                                                         ELSE results[m]]
      /\ lost' = {x \in lost : x[1] \notin again}
  BY DEF RetryTask
<1>2. ASSUME NEW m \in Materials PROVE RowKept(m) \/ SetAside(m)
  <2>1. CASE m \in again
    <3>1. mat'[m] = Requeued(mat[m])
      BY <1>1, <2>1
    <3>2. mat[m].status # "running"
      BY <2>1 DEF RetryTask
    <3>3. NotLost(m)'
      <4> HIDE DEF again
      <4> QED BY <1>1, <2>1 DEF NotLost
    <3> QED BY <3>1, <3>2, <3>3, RequeuedFields DEF SetAside, Current
  <2>2. CASE m \notin again
    BY <1>1, <2>2, SameIsKept
  <2> QED BY <2>1, <2>2
<1>3. \A u \in Tasks : ConsentKept(u)
  BY <1>1 DEF ConsentKept, NoConsent, Inv, TypeOK
<1>4. lost' \subseteq lost
  BY <1>1
<1> QED BY <1>1, <1>2, <1>3, <1>4, Untouched DEF UserEffect, Inv

\* consent: nothing of the task is running, and what it queues owes no answer.
LEMMA GrantEffect == ASSUME Inv, Safe, NEW t \in Tasks, GrantConsent(t) PROVE UserEffect
<1> USE DEF tables, settings, process, history
<1> DEFINE pending == {m \in MaterialsOf(t) :
                        mat[m].status \in {"queued", "awaiting_consent", "needs_review"}}
           grants == {<<m, mat[m].rev, mat[m].src>> : m \in pending}
<1>1. /\ UNCHANGED <<dict, results, profile, model, stage, job, phase, clouded, crashes>>
      /\ \A m \in MaterialsOf(t) : mat[m].status # "running"
      /\ mat' = [m \in Materials |-> IF m \in pending
                                     THEN [mat[m] EXCEPT !.status = "queued"] ELSE mat[m]]
      /\ granted' = granted + 1
      /\ consent' = [consent EXCEPT ![t] =
                      [id |-> granted + 1, profile |-> profile, expired |-> FALSE,
                       grants |-> grants, used |-> {}]]
      /\ lost' = {x \in lost : x[1] \notin pending}
  BY DEF GrantConsent
<1> HIDE DEF grants
<1>2. ASSUME NEW m \in Materials
      PROVE  /\ RowKept(m) \/ Consented(m)
             /\ m \in pending => NotLost(m)'
  <2>1. CASE m \in pending
    <3>1. mat[m].status \in {"queued", "awaiting_consent", "needs_review"}
      BY <2>1
    <3>2. mat'[m].status = "queued"
      BY <1>1, <2>1 DEF Inv, TypeOK, Material
    <3>3. NotLost(m)'
      <4> HIDE DEF pending
      <4> QED BY <1>1, <2>1 DEF NotLost
    <3> QED BY <3>1, <3>2, <3>3 DEF Consented
  <2>2. CASE m \notin pending
    BY <1>1, <2>2, SameIsKept
  <2> QED BY <2>1, <2>2
<1>3. ASSUME NEW u \in Tasks PROVE ConsentKept(u)
  <2>1. CASE u = t
    <3>1. consent'[u].id = granted + 1 /\ granted' = granted + 1
      BY <1>1, <2>1 DEF Inv, TypeOK
    <3>2. ASSUME NEW m \in Materials, TaskOf[m] = t
          PROVE  /\ mat[m].status # "running"
                 /\ mat'[m].status \in {"queued", "running"} => NotLost(m)'
      <4>1. mat[m].status # "running"
        BY <1>1, <3>2 DEF MaterialsOf
      <4>2. CASE m \in pending
        BY <1>2, <4>1, <4>2
      <4>3. CASE m \notin pending
        <5>1. mat'[m] = mat[m]
          BY <1>1, <4>3
        <5>2. mat[m].status \notin {"queued", "running"}
          BY <3>2, <4>1, <4>3 DEF MaterialsOf
        <5> QED BY <4>1, <5>1, <5>2
      <4> QED BY <4>2, <4>3
    <3> QED BY <2>1, <3>1, <3>2 DEF ConsentKept
  <2>2. CASE u # t
    BY <1>1, <2>2 DEF ConsentKept, Inv, TypeOK
  <2> QED BY <2>1, <2>2
<1>4. granted' \in Nat /\ granted <= granted' /\ lost' \subseteq lost
  BY <1>1 DEF Inv, TypeOK
<1> QED BY <1>1, <1>2, <1>3, <1>4, Untouched DEF UserEffect, Inv

\* save_provider, save_ai_defaults, revoking and expiring a consent.
LEMMA SettingsEffect ==
  ASSUME Inv, Safe,
         \/ SaveProvider \/ SaveAiDefaults
         \/ \E t \in Tasks : RevokeConsent(t) \/ ExpireConsent(t)
  PROVE  UserEffect
<1> USE DEF tables, settings, process, history
<1>1. CASE SaveProvider
  <2>1. /\ UNCHANGED <<mat, dict, results, consent, granted, model, stage, phase, lost,
                       clouded, crashes>>
        /\ job' = CancelJobs(Tasks)
    BY <1>1 DEF SaveProvider
  <2>2. JobKept
    BY <2>1, TokenCancelled DEF Inv
  <2> QED BY <2>1, <2>2, Untouched DEF UserEffect, Inv
<1>2. CASE SaveAiDefaults
  BY <1>2, Untouched DEF SaveAiDefaults, UserEffect, Inv
<1>3. ASSUME NEW t \in Tasks, RevokeConsent(t) PROVE UserEffect
  <2>1. /\ UNCHANGED <<mat, dict, results, granted, profile, model, stage, phase, lost,
                       clouded, crashes>>
        /\ job' = CancelJobs({t})
        /\ consent' = [consent EXCEPT ![t] = NoConsent]
    BY <1>3 DEF RevokeConsent
  <2>2. JobKept
    BY <2>1, TokenCancelled DEF Inv
  <2>3. \A u \in Tasks : ConsentKept(u)
    BY <2>1 DEF ConsentKept, NoConsent, Inv, TypeOK
  <2> QED BY <2>1, <2>2, <2>3, Untouched DEF UserEffect, Inv
<1>4. ASSUME NEW t \in Tasks, ExpireConsent(t) PROVE UserEffect
  <2>1. /\ UNCHANGED <<mat, dict, results, granted, profile, model, stage, job, phase, lost,
                       clouded, crashes>>
        /\ consent' = [consent EXCEPT ![t].expired = TRUE]
    BY <1>4 DEF ExpireConsent
  <2>2. \A u \in Tasks : ConsentKept(u)
    BY <2>1 DEF ConsentKept, Inv, TypeOK, Consent
  <2> QED BY <2>1, <2>2, Untouched DEF UserEffect, Inv
<1> QED BY <1>1, <1>2, <1>3, <1>4

\* A result that expires is not revoked by it.
LEMMA ExpireEffect == ASSUME Inv, Safe, NEW m \in Materials, ExpireResult(m) PROVE UserEffect
<1> USE DEF tables, settings, process, history
<1> DEFINE rs == results[m]
           k == mat[m].result
           e == [rs[k] EXCEPT !.expired = TRUE]
           ns == [rs EXCEPT ![k] = e]
<1>1. /\ UNCHANGED <<mat, dict, consent, granted, profile, model, stage, job, phase,
                     lost, clouded, crashes>>
      /\ results' = [results EXCEPT ![m] = ns] /\ k # 0
  BY DEF ExpireResult
<1>2. /\ RowOK(mat[m], rs, dict[Group(m)]) /\ rs \in Seq(Result) /\ Len(rs) \in Nat
  BY LenProperties DEF Inv, TypeOK, RowsOK
<1>3. k \in 1..Len(rs)
  BY <1>1, <1>2 DEF RowOK
<1>4. rs[k] \in Result
  BY <1>2, <1>3, ElementOfSeq
<1>5. e \in Result /\ e.revoked = rs[k].revoked
  BY <1>4 DEF Result
<1> HIDE DEF e
<1>6. /\ Len(ns) = Len(rs)
      /\ \A j \in 1..Len(rs) : ns[j] = IF j = k THEN e ELSE rs[j]
  BY <1>2, <1>3, <1>5, ExceptSeq
<1> HIDE DEF ns
<1>7. \A n \in Materials : RowKept(n)
  BY <1>1, <1>5, <1>6 DEF RowKept, Inv, TypeOK
<1> QED BY <1>1, <1>7, Untouched DEF UserEffect, Inv

\* update_dictionary_locked on a row: withdrawn rows stay, every other is requeued.
LEMMA DictionaryRowEffect ==
  ASSUME Inv, NEW g \in Groups, NEW n \in Materials,
         lost' = DictionaryLost(g), job' = CancelJobs({TaskOf[o] : o \in InGroup(g)}),
         mat'[n] = DictionaryRows(g)[n], results'[n] = DictionaryResults(g)[n]
  PROVE  RowKept(n) \/ SetAside(n)
<1>1. CASE n \notin InGroup(g)
  BY <1>1, SameIsKept DEF DictionaryRows, DictionaryResults
<1>2. CASE n \in InGroup(g)
  <2>1. mat'[n] = DictionaryChanged(mat[n]) /\ results'[n] = Withdrawn(n, mat[n])
    BY <1>2 DEF DictionaryRows, DictionaryResults
  <2>2. CASE mat[n].status \in {"cancelled", "revoked"}
    <3>1. mat[n].result = 0 /\ mat[n] \in Material
      BY <2>2, NotReadyRevoked DEF Inv, TypeOK
    <3>2. mat'[n] = [mat[n] EXCEPT !.result = 0]
      BY <2>1, <2>2 DEF DictionaryChanged
    <3>3. mat'[n] = mat[n]
      BY <3>1, <3>2 DEF Material
    <3>4. results'[n] = results[n]
      BY <2>1, <3>1 DEF Withdrawn
    <3> QED BY <3>3, <3>4, SameIsKept
  <2>3. CASE mat[n].status \notin {"cancelled", "revoked"}
    <3>1. mat'[n] = Requeued(mat[n])
      BY <2>1, <2>3 DEF DictionaryChanged
    <3>2. NotLost(n)'
      BY <1>2, <2>3 DEF NotLost, DictionaryLost
    <3>3. n = job.m => job'.cancelled
      BY <1>2, TokenCancelled DEF Inv
    <3> QED BY <3>1, <3>2, <3>3, RequeuedFields DEF SetAside
  <2> QED BY <2>2, <2>3
<1> QED BY <1>1, <1>2

\* set_dictionary.
LEMMA SetDictionaryEffect ==
  ASSUME Inv, Safe, NEW g \in Groups, NEW saved \in BOOLEAN, SetDictionary(g, saved)
  PROVE  UserEffect
<1> USE DEF tables, settings, process, history
<1>1. /\ UNCHANGED <<consent, granted, profile, model, stage, phase, clouded, crashes>>
      /\ job' = CancelJobs({TaskOf[o] : o \in InGroup(g)})
  BY DEF SetDictionary
<1>2. JobKept
  BY <1>1, TokenCancelled DEF Inv
<1>3. CASE saved
  <2>1. mat' = DictionaryRows(g) /\ results' = DictionaryResults(g) /\ lost' = DictionaryLost(g)
    BY <1>3 DEF SetDictionary
  <2>2. \A n \in Materials : RowKept(n) \/ SetAside(n)
    BY <1>1, <2>1, DictionaryRowEffect
  <2>3. lost' \subseteq lost
    BY <2>1 DEF DictionaryLost
  <2> QED BY <1>1, <1>2, <2>2, <2>3, Untouched DEF UserEffect, Inv
<1>4. CASE ~saved
  <2>1. UNCHANGED <<mat, dict, results, lost>>
    BY <1>4 DEF SetDictionary
  <2> QED BY <1>1, <1>2, <2>1, Untouched DEF UserEffect, Inv
<1> QED BY <1>3, <1>4

\* finish_locked: a row it publishes shows the result it has just appended.
LEMMA FinishedShows ==
  ASSUME NEW m \in Materials, NEW c \in Material, NEW d \in Nat, NEW a \in Analysis,
         NEW waiting \in BOOLEAN, NEW rs \in Seq(Result), Len(rs) = Len(results[m]),
         c.text = c.src
  PROVE  /\ ShowsResult(Finished(m, c, d, a, waiting), FinishedResults(rs, c, d, a))
         /\ Finished(m, c, d, a, waiting).status
              \in {"ready", "awaiting_consent", "needs_review"}
         /\ Finished(m, c, d, a, waiting).rev = c.rev
         /\ Finished(m, c, d, a, waiting).analysis = a
<1> DEFINE f == Finished(m, c, d, a, waiting)
<1>1. Len(rs) \in Nat
  BY LenProperties
<1>2. /\ f.status = IF ~a.review THEN "ready"
                    ELSE IF waiting THEN "awaiting_consent" ELSE "needs_review"
      /\ f.result = IF a.review THEN 0 ELSE Len(rs) + 1
      /\ f.rev = c.rev /\ f.analysis = a /\ f.text = c.text /\ f.src = c.src
  BY DEF Finished, Material
<1>3. CASE a.review
  BY <1>2, <1>3 DEF ShowsResult
<1>4. CASE ~a.review
  <2> DEFINE r == [rev |-> c.rev, dict |-> d, src |-> a.src, adict |-> a.dict,
                   revoked |-> FALSE, expired |-> FALSE]
  <2>1. r \in Result /\ ~r.revoked
    BY DEF Result, Material, Analysis
  <2>2. FinishedResults(rs, c, d, a) = Append(rs, r)
    BY <1>4 DEF FinishedResults
  <2> HIDE DEF r, f
  <2>3. /\ Len(Append(rs, r)) = Len(rs) + 1
        /\ Append(rs, r)[Len(rs) + 1] = r
    BY <2>1, AppendProperties
  <2>4. f.result \in 1..Len(Append(rs, r)) /\ Append(rs, r)[f.result] = r
    BY <1>1, <1>2, <1>4, <2>3
  <2>5. ShowsResult(f, Append(rs, r))
    BY <1>2, <2>1, <2>4 DEF ShowsResult
  <2> QED BY <1>2, <1>4, <2>2, <2>5 DEF f
<1> QED BY <1>3, <1>4

\* The row a review stores.
LEMMA ReviewedRow ==
  ASSUME Inv, NEW m \in Materials, Reviewable(m), NEW c \in Material, c.text = mat[m].text,
         c.src = mat[m].src, c.rev > mat[m].rev, NEW d \in Nat, NEW review \in BOOLEAN,
         NEW rs \in Seq(Result), Len(rs) = Len(results[m]), NEW no \in BOOLEAN,
         mat'[m] = Finished(m, c, d, ReviewAnalysis(m, d, review), no),
         results'[m] = FinishedResults(rs, c, d, ReviewAnalysis(m, d, review))
  PROVE  Reviewed(m)
<1> DEFINE a == ReviewAnalysis(m, d, review)
<1>1. mat[m].text = mat[m].src /\ a \in Analysis /\ a.src = mat[m].src
  <2>1. PICK z \in Nat, y \in BOOLEAN : TRUE
    OBVIOUS
  <2> QED BY <2>1, ReviewTypes
<1>2. a.ai = mat[m].analysis.ai
  BY DEF ReviewAnalysis
<1>3. c.text = c.src
  BY <1>1
<1>4. /\ mat'[m] = Finished(m, c, d, a, no)
      /\ results'[m] = FinishedResults(rs, c, d, a)
  OBVIOUS
<1> HIDE DEF a
<1>5. /\ ShowsResult(mat'[m], results'[m])
      /\ mat'[m].status \in {"ready", "awaiting_consent", "needs_review"}
      /\ mat'[m].rev = c.rev /\ mat'[m].analysis = a
  <2> DEFINE f == Finished(m, c, d, a, no)
             r == FinishedResults(rs, c, d, a)
  <2>1. /\ ShowsResult(f, r)
        /\ f.status \in {"ready", "awaiting_consent", "needs_review"}
        /\ f.rev = c.rev /\ f.analysis = a
    BY <1>1, <1>3, FinishedShows
  <2>2. mat'[m] = f /\ results'[m] = r
    BY <1>4
  <2> HIDE DEF f, r
  <2> QED BY <2>1, <2>2
<1>6. stage[m].stage # "none" => a.ai /\ a.src = stage[m].src
  BY <1>1, <1>2 DEF Reviewable, ReviewEvidence
<1>7. mat[m].status # "running"
  BY DEF Reviewable
<1> QED BY <1>5, <1>6, <1>7 DEF Reviewed

\* A review marks at most the stage of its material, which is not in work.
LEMMA ReviewStageKept ==
  ASSUME Inv, phase = "up", NEW m \in Materials, Reviewable(m), NEW r \in Nat,
         NEW marked \in BOOLEAN, stage' = ReviewStage(m, r, marked)
  PROVE  \A n \in Materials : StageKept(n)
BY DEF ReviewStage, StageKept, Reviewable, Inv, TypeOK

\* review.
LEMMA ReviewEffect ==
  ASSUME Inv, Safe, NEW m \in Materials, NEW review \in BOOLEAN, NEW marked \in BOOLEAN,
         Review(m, review, marked)
  PROVE  UserEffect
<1> USE DEF tables, settings, process, history
<1> DEFINE c == [mat[m] EXCEPT !.rev = mat[m].rev + 1]
           d == dict[Group(m)]
           a == ReviewAnalysis(m, d, review)
           w == Withdrawn(m, c)
<1>1. /\ UNCHANGED <<dict, consent, granted, profile, model, job, phase, lost, clouded,
                     crashes>>
      /\ mat' = [mat EXCEPT ![m] = Finished(m, c, d, a, FALSE)]
      /\ results' = [results EXCEPT ![m] = FinishedResults(w, c, d, a)]
      /\ stage' = ReviewStage(m, c.rev, marked) /\ Reviewable(m) /\ phase = "up"
  BY DEF Review
<1>2. /\ mat[m] \in Material /\ mat[m].rev + 1 \in Nat /\ mat[m].rev \in Nat
      /\ d \in Nat /\ RowOK(mat[m], results[m], d)
  BY GroupType DEF Inv, TypeOK, Material, RowsOK
<1>3. /\ c \in Material /\ c.rev = mat[m].rev + 1 /\ c.result = mat[m].result
      /\ c.text = mat[m].text /\ c.src = mat[m].src
  BY <1>2, BumpedRow
<1>4. w \in Seq(Result) /\ Len(w) = Len(results[m])
  BY <1>2, <1>3, WithdrawnRows DEF Inv
<1>5. /\ mat'[m] = Finished(m, c, d, ReviewAnalysis(m, d, review), FALSE)
      /\ results'[m] = FinishedResults(w, c, d, ReviewAnalysis(m, d, review))
  BY <1>1 DEF Inv, TypeOK
<1>6. \A n \in Materials : n # m => mat'[n] = mat[n] /\ results'[n] = results[n]
  BY <1>1 DEF Inv, TypeOK
<1> HIDE DEF c, d, a, w
<1>7. Reviewed(m)
  <2> DEFINE no == FALSE
  <2>1. no \in BOOLEAN /\ mat'[m] = Finished(m, c, d, ReviewAnalysis(m, d, review), no)
    BY <1>5
  <2> HIDE DEF no
  <2>2. c.rev > mat[m].rev
    BY <1>2, <1>3
  <2> QED BY <1>1, <1>2, <1>3, <1>4, <1>5, <2>1, <2>2, ReviewedRow
<1>8. \A n \in Materials : StageKept(n)
  BY <1>1, <1>2, <1>3, ReviewStageKept
<1>9. \A n \in Materials : RowKept(n) \/ Reviewed(n)
  BY <1>6, <1>7, SameIsKept
<1> QED BY <1>1, <1>8, <1>9, Untouched DEF UserEffect, Inv

\* review that adds dictionary entries.
LEMMA ReviewDictionaryEffect ==
  ASSUME Inv, Safe, NEW m \in Materials, NEW review \in BOOLEAN, NEW marked \in BOOLEAN,
         ReviewWithDictionary(m, review, marked)
  PROVE  UserEffect
<1> USE DEF tables, settings, process, history
<1> DEFINE g == Group(m)
           q == Requeued(mat[m])
           c == [q EXCEPT !.rev = q.rev + 1]
           d == dict[g] + 1
           a == ReviewAnalysis(m, d, review)
           w == Withdrawn(m, mat[m])
<1>1. /\ UNCHANGED <<consent, granted, profile, model, phase, clouded, crashes>>
      /\ mat' = [DictionaryRows(g) EXCEPT ![m] = Finished(m, c, d, a, FALSE)]
      /\ results' = [DictionaryResults(g) EXCEPT ![m] = FinishedResults(w, c, d, a)]
      /\ job' = CancelJobs({TaskOf[o] : o \in InGroup(g)})
      /\ stage' = ReviewStage(m, c.rev, marked) /\ Reviewable(m) /\ phase = "up"
      /\ lost' = DictionaryLost(g)
  BY DEF ReviewWithDictionary
<1>2. /\ g \in Groups /\ mat[m] \in Material /\ mat[m].rev \in Nat
      /\ dict[g] \in Nat /\ d \in Nat /\ RowOK(mat[m], results[m], dict[g])
  BY GroupType DEF Inv, TypeOK, Material, RowsOK
<1>3. /\ q \in Material /\ q.rev = mat[m].rev + 1 /\ q.rev + 1 \in Nat
      /\ q.src = mat[m].src /\ q.text = mat[m].text
  <2>1. mat[m].text \in {None, mat[m].src}
    BY <1>2 DEF RowOK
  <2> QED BY <1>2, <2>1, RequeuedRow
<1> HIDE DEF q
<1>4. /\ c \in Material /\ c.rev = q.rev + 1 /\ c.text = mat[m].text
      /\ c.src = mat[m].src
  BY <1>3, BumpedRow
<1>5. w \in Seq(Result) /\ Len(w) = Len(results[m])
  BY <1>2, WithdrawnRows DEF Inv
<1>6. /\ mat'[m] = Finished(m, c, d, ReviewAnalysis(m, d, review), FALSE)
      /\ results'[m] = FinishedResults(w, c, d, ReviewAnalysis(m, d, review))
  BY <1>1 DEF DictionaryRows, DictionaryResults
<1>7. \A n \in Materials : n # m => /\ mat'[n] = DictionaryRows(g)[n]
                                    /\ results'[n] = DictionaryResults(g)[n]
  BY <1>1 DEF DictionaryRows, DictionaryResults
<1> HIDE DEF c, d, a, w, g
<1>8. Reviewed(m)
  <2> DEFINE no == FALSE
  <2>1. no \in BOOLEAN /\ mat'[m] = Finished(m, c, d, ReviewAnalysis(m, d, review), no)
    BY <1>6
  <2> HIDE DEF no
  <2>2. c.rev > mat[m].rev
    BY <1>2, <1>3, <1>4
  <2> QED BY <1>1, <1>2, <1>3, <1>4, <1>5, <1>6, <2>1, <2>2, ReviewedRow
<1>9. \A n \in Materials : RowKept(n) \/ SetAside(n) \/ Reviewed(n)
  BY <1>1, <1>2, <1>7, <1>8, DictionaryRowEffect
<1>10. \A n \in Materials : StageKept(n)
  <2>1. c.rev \in Nat
    BY <1>4 DEF Material
  <2> QED BY <1>1, <2>1, ReviewStageKept
<1>11. JobKept /\ lost' \subseteq lost
  BY <1>1, TokenCancelled DEF Inv, DictionaryLost
<1> QED BY <1>1, <1>9, <1>10, <1>11, Untouched DEF UserEffect, Inv

\* Every request.
LEMMA UserNextEffect == ASSUME Inv, Safe, UserNext PROVE UserEffect
BY SubmitEffect, GrantEffect, SettingsEffect, CancelEffect, RetryEffect, ReplaceEffect,
   RevokeEffect, SetDictionaryEffect, ReviewEffect, ReviewDictionaryEffect, ExpireEffect
   DEF UserNext

-----------------------------------------------------------------------------
(* The worker's steps. *)

\* The worker moves on with its copy; the rows stay.
Moves ==
  /\ job.m \in Materials /\ phase = "up"
  /\ UNCHANGED <<mat, results, phase, lost, granted>>
  /\ job'.m = job.m /\ job'.copy = job.copy /\ job'.cancelled = job.cancelled
  /\ job'.pc # "ai_stage"
  /\ job'.pc # "settle" => job.pc \notin {"ai_stage", "settle"}
  /\ \A n \in Materials : Unusable(n) => Unusable(n)'

\* A move keeps the parts that are not about what is recorded and consented to.
LEMMA MovesSafe ==
  ASSUME Inv, Safe, Moves, DispatchRecorded', ConsentsUsed'
  PROVE  Safe'
<1>1. /\ UNCHANGED <<mat, results, phase, lost>> /\ phase = "up"
      /\ job.m # None /\ job'.m = job.m /\ job'.copy = job.copy
  BY ConstantsAssumption DEF Moves
<1>2. ReadyShows'
  BY <1>1 DEF Safe, ReadyShows, ShowsResult
<1>3. RunningHeld'
  <2>1. \A m \in Materials : mat'[m].status = "running" =>
          phase' # "recover_stages" /\ (phase' = "up" => job'.m = m /\ Current')
    BY <1>1 DEF Safe, RunningHeld, Current
  <2> QED BY <2>1 DEF RunningHeld, Moves
<1>4. TokenHolds'
  BY <1>1 DEF Safe, TokenHolds, Moves, Current
<1>5. LostParked'
  <2>1. ASSUME NEW m \in Materials, NEW k \in Kinds, <<m, k>> \in lost'
        PROVE  /\ mat'[m].status # "none"
               /\ mat'[m].status \notin {"queued", "running"} \/ (k = "cloud" /\ Unusable(m)')
    BY <1>1, <2>1 DEF Safe, LostParked, Moves
  <2> QED BY <2>1 DEF LostParked
<1> QED BY <1>2, <1>3, <1>4, <1>5 DEF Safe

\* Consents and histories that stay keep what holds of them away from "cloud".
LEMMA ConsentsStay ==
  ASSUME ConsentsUsed, UNCHANGED <<consent, granted, clouded>>, job'.pc # "cloud"
  PROVE  ConsentsUsed'
BY DEF ConsentsUsed

\* The places where a request is about to leave or has left.
Sending == {"ocr", "ocr_wait", "redact", "redact_wait", "cloud", "cloud_wait"}

\* Elsewhere nothing has to be on record.
LEMMA NothingRecorded == ASSUME job'.pc \notin Sending PROVE DispatchRecorded'
BY DEF DispatchRecorded, Sending

\* Moving the worker changes nothing else of its locals.
LEMMA MovedJob ==
  ASSUME TypeOK, NEW pc, job' = [job EXCEPT !.pc = pc]
  PROVE  /\ job'.pc = pc /\ job'.m = job.m /\ job'.copy = job.copy
         /\ job'.cancelled = job.cancelled /\ job'.cid = job.cid
BY DEF TypeOK, Job

\* A busy worker has a material.
LEMMA BusyWorker ==
  ASSUME TypeOK, job.pc # "idle" PROVE job.m \in Materials /\ job.m # None
BY DEF TypeOK, Job

\* A consent that stays is as unusable as it was.
LEMMA SameUnusable ==
  ASSUME consent' = consent PROVE \A n \in Materials : Unusable(n) => Unusable(n)'
BY DEF Unusable

\* A move to a place where nothing is sent.
LEMMA PlainMove ==
  ASSUME Inv, Safe, Moves, UNCHANGED <<consent, clouded>>, job'.pc \notin Sending
  PROVE  Safe'
BY MovesSafe, ConsentsStay, NothingRecorded DEF Moves, Safe, Sending

\* Goto such a place.
LEMMA PlainGoto ==
  ASSUME Inv, Safe, phase = "up", job.pc # "idle", NEW pc, Goto(pc),
         pc \notin Sending \cup {"ai_stage"},
         pc # "settle" => job.pc \notin {"ai_stage", "settle"}
  PROVE  Safe'
<1>1. /\ job' = [job EXCEPT !.pc = pc] /\ UNCHANGED <<consent, clouded>>
      /\ UNCHANGED <<mat, results, phase, lost, granted>>
  BY DEF Goto, tables, settings, process, history
<1>2. Moves
  BY <1>1, MovedJob, BusyWorker, SameUnusable DEF Moves, Inv
<1> QED BY <1>1, <1>2, MovedJob, PlainMove DEF Inv

\* So do the steps that only move the worker.
LEMMA PlainGotos ==
  ASSUME Inv, Safe,
         \/ SelectModel \/ ReadLocal \/ OcrSkip \/ OcrReply \/ OcrCancelled
         \/ CloudFail \/ JobError
  PROVE  Safe'
<1>1. CASE SelectModel
  BY <1>1, PlainGoto DEF SelectModel, At, Sending
<1>2. CASE ReadLocal
  BY <1>2, PlainGoto DEF ReadLocal, At, Sending
<1>3. CASE OcrSkip
  BY <1>3, PlainGoto DEF OcrSkip, At, Sending
<1>4. CASE OcrReply
  BY <1>4, PlainGoto DEF OcrReply, At, Sending
<1>5. CASE OcrCancelled
  BY <1>5, PlainGoto DEF OcrCancelled, At, Sending
<1>6. CASE CloudFail
  BY <1>6, PlainGoto DEF CloudFail, At, Sending
<1>7. CASE JobError
  BY <1>7, PlainGoto DEF JobError, Sending
<1> QED BY <1>1, <1>2, <1>3, <1>4, <1>5, <1>6, <1>7

\* A stage row written on the way to a place where nothing is sent.
LEMMA PlainStage ==
  ASSUME Inv, Safe, phase = "up", job.pc \notin {"idle", "ai_stage", "settle"},
         NEW name, NEW pc, SaveStage(name, pc), pc \notin Sending \cup {"ai_stage"}
  PROVE  Safe'
<1>1. /\ job' = [job EXCEPT !.pc = pc] /\ UNCHANGED <<consent, clouded>>
      /\ UNCHANGED <<mat, results, phase, lost, granted>>
  BY DEF SaveStage, tables, settings, process, history
<1>2. Moves
  BY <1>1, MovedJob, BusyWorker, SameUnusable DEF Moves, Inv
<1> QED BY <1>1, <1>2, MovedJob, PlainMove DEF Inv

\* A stage row that says what is about to be sent.
LEMMA RecordedStage ==
  ASSUME Inv, Safe, phase = "up", job.pc \notin {"idle", "ai_stage", "settle"},
         NEW name, NEW pc, SaveStage(name, pc),
         \/ name = "ocr_running" /\ pc = "ocr"
         \/ name = "redaction_running" /\ pc = "redact"
  PROVE  Safe'
<1>1. /\ job' = [job EXCEPT !.pc = pc] /\ UNCHANGED <<consent, clouded>>
      /\ UNCHANGED <<mat, results, phase, lost, granted>>
      /\ stage' = [stage EXCEPT ![job.m] =
                     [stage |-> name, rev |-> job.copy.rev, src |-> job.copy.src]]
  BY DEF SaveStage, tables, settings, process, history
<1>2. Moves
  BY <1>1, MovedJob, BusyWorker, SameUnusable DEF Moves, Inv
<1>3. /\ job'.pc = pc /\ job'.m = job.m /\ job'.copy = job.copy /\ job.m \in Materials
      /\ pc # "cloud"
  BY <1>1, MovedJob, BusyWorker DEF Inv
<1>4. stage'[job'.m] = [stage |-> name, rev |-> job'.copy.rev, src |-> job'.copy.src]
  BY <1>1, <1>3 DEF Inv, TypeOK
<1>5. DispatchRecorded'
  BY <1>3, <1>4 DEF DispatchRecorded
<1>6. ConsentsUsed'
  BY <1>1, <1>2, <1>3, ConsentsStay DEF Safe, Moves
<1> QED BY <1>2, <1>5, <1>6, MovesSafe

\* The steps that write a stage row and go on.
LEMMA StagesSafe ==
  ASSUME Inv, Safe,
         \/ ReadAi \/ StageTextReady \/ StageRedaction
         \/ \E marked \in BOOLEAN : AiFail(marked)
  PROVE  Safe'
<1>1. CASE ReadAi
  <2>1. phase = "up" /\ job.pc = "read_ai"
    BY <1>1 DEF ReadAi, At
  <2>2. CASE mat[job.m].src = job.copy.src
    BY <1>1, <2>1, <2>2, RecordedStage DEF ReadAi
  <2>3. CASE mat[job.m].src # job.copy.src
    BY <1>1, <2>1, <2>3, PlainGoto DEF ReadAi, Sending
  <2> QED BY <2>2, <2>3
<1>2. CASE StageTextReady
  BY <1>2, PlainStage DEF StageTextReady, At, Sending
<1>3. CASE StageRedaction
  BY <1>3, RecordedStage DEF StageRedaction, At
<1>4. ASSUME NEW marked \in BOOLEAN, AiFail(marked) PROVE Safe'
  <2>1. phase = "up" /\ job.pc \in {"ocr", "ocr_wait", "redact", "redact_wait"}
    BY <1>4 DEF AiFail
  <2>2. CASE marked
    BY <1>4, <2>1, <2>2, PlainStage DEF AiFail, Sending
  <2>3. CASE ~marked
    BY <1>4, <2>1, <2>3, PlainGoto DEF AiFail, Sending
  <2> QED BY <2>2, <2>3
<1> QED BY <1>1, <1>2, <1>3, <1>4

\* A model request leaves: what recovery needs is on record already.
LEMMA ModelDispatchSafe ==
  ASSUME Inv, Safe, OcrDispatch \/ RedactDispatch
  PROVE  Safe'
<1>1. PICK from \in {"ocr", "redact"}, to \in {"ocr_wait", "redact_wait"} :
        /\ from = "ocr" <=> to = "ocr_wait"
        /\ phase = "up" /\ job.pc = from
        /\ job' = [job EXCEPT !.pc = to, !.sent = profile]
  BY DEF OcrDispatch, RedactDispatch, Dispatch, At
<1>2. UNCHANGED <<consent, clouded, stage>> /\ UNCHANGED <<mat, results, phase, lost, granted>>
  BY DEF OcrDispatch, RedactDispatch, Dispatch, tables, settings, process, history
<1>3. /\ job'.pc = to /\ job'.m = job.m /\ job'.copy = job.copy
      /\ job'.cancelled = job.cancelled /\ job.m \in Materials
  BY <1>1, BusyWorker DEF Inv, TypeOK, Job
<1>4. Moves
  BY <1>1, <1>2, <1>3, SameUnusable DEF Moves
<1>5. DispatchRecorded'
  BY <1>1, <1>2, <1>3 DEF Safe, DispatchRecorded, Current
<1>6. ConsentsUsed'
  BY <1>2, <1>3, ConsentsStay DEF Safe
<1> QED BY <1>4, <1>5, <1>6, MovesSafe

\* An answer arrives.
LEMMA AnswerSafe ==
  ASSUME Inv, Safe, NEW review \in BOOLEAN, Redacted(review) \/ CloudReply(review)
  PROVE  Safe'
<1>1. PICK pc \in {"ai_finish", "finish"} :
        \E a : job' = [job EXCEPT !.pc = pc, !.analysis = a]
  BY DEF Redacted, CloudReply
<1>2. /\ UNCHANGED <<consent, clouded>> /\ UNCHANGED <<mat, results, phase, lost, granted>>
      /\ phase = "up" /\ job.pc \in {"redact", "redact_wait", "cloud_wait"}
  BY DEF Redacted, CloudReply, At, tables, settings, process, history
<1>3. /\ job'.pc = pc /\ job'.m = job.m /\ job'.copy = job.copy
      /\ job'.cancelled = job.cancelled /\ job.m \in Materials
  BY <1>1, <1>2, BusyWorker DEF Inv, TypeOK, Job
<1>4. Moves
  BY <1>2, <1>3, SameUnusable DEF Moves
<1> QED BY <1>2, <1>3, <1>4, PlainMove DEF Sending

\* claim_cloud: the consent is used up before anything is sent.
LEMMA ClaimCloudSafe == ASSUME Inv, Safe, ClaimCloud PROVE Safe'
<1> USE DEF tables, settings, process, history
<1> DEFINE t == TaskOf[job.m]
           c == consent[t]
<1>1. /\ UNCHANGED <<mat, results, phase, lost, granted, clouded>>
      /\ job.pc = "claim_cloud" /\ phase = "up"
  BY DEF ClaimCloud, At
<1>2. /\ job.m \in Materials /\ job.m # None /\ t \in Tasks /\ c \in Consent
  BY <1>1, BusyWorker, ConstantsAssumption DEF Inv, TypeOK
<1>3. CASE job' = [job EXCEPT !.waiting = TRUE, !.pc = "finish"] /\ consent' = consent
  <2>1. /\ job'.pc = "finish" /\ job'.m = job.m /\ job'.copy = job.copy
        /\ job'.cancelled = job.cancelled
    BY <1>3 DEF Inv, TypeOK, Job
  <2>2. Moves
    BY <1>1, <1>2, <1>3, <2>1, SameUnusable DEF Moves
  <2> QED BY <1>1, <1>3, <2>1, <2>2, PlainMove DEF Sending
<1>4. CASE job' = [job EXCEPT !.pc = "settle"] /\ consent' = consent
  <2>1. /\ job'.pc = "settle" /\ job'.m = job.m /\ job'.copy = job.copy
        /\ job'.cancelled = job.cancelled
    BY <1>4 DEF Inv, TypeOK, Job
  <2>2. Moves
    BY <1>1, <1>2, <1>4, <2>1, SameUnusable DEF Moves
  <2> QED BY <1>1, <1>4, <2>1, <2>2, PlainMove DEF Sending
<1>5. CASE /\ CloudMatches(c) /\ job.m \notin c.used /\ Current
           /\ job' = [job EXCEPT !.cid = c.id, !.pc = "cloud"]
           /\ consent' = [consent EXCEPT ![t].used = c.used \cup {job.m}]
  <2>1. /\ job'.pc = "cloud" /\ job'.m = job.m /\ job'.copy = job.copy
        /\ job'.cancelled = job.cancelled /\ job'.cid = c.id
    BY <1>5 DEF Inv, TypeOK, Job
  <2>2. /\ \A u \in Tasks : /\ consent'[u].id = consent[u].id
                             /\ consent[u].used \subseteq consent'[u].used
        /\ job.m \in consent'[t].used /\ consent'[t].id = c.id
    BY <1>2, <1>5 DEF Inv, TypeOK, Consent
  <2>3. \A n \in Materials : Unusable(n) => Unusable(n)'
    BY <2>2, ConstantsAssumption DEF Unusable
  <2>4. Moves
    BY <1>1, <1>2, <2>1, <2>3 DEF Moves
  <2>5. DispatchRecorded'
    <3>1. PICK n \in Materials : n = job.m
      BY <1>2
    <3>2. Unusable(n)'
      BY <2>2, <3>1 DEF Unusable
    <3> QED BY <2>1, <3>1, <3>2 DEF DispatchRecorded, Unusable
  <2>6. /\ c.id \in 1..granted /\ <<c.id, job.m>> \notin clouded
        /\ <<job.m, "cloud">> \notin lost
    <3>1. c.id # 0 /\ c.id \in Nat /\ granted \in Nat /\ c.id <= granted
      BY <1>2, <1>5 DEF CloudMatches, Consent, Safe, ConsentsUsed, Inv, TypeOK
    <3>2. <<c.id, job.m>> \notin clouded
      BY <1>2, <1>5, <3>1 DEF Safe, ConsentsUsed
    <3>3. mat[job.m].status = "running" /\ ~(job.m \in c.used) /\ "cloud" \in Kinds
      BY <1>5 DEF Current, Kinds
    <3>4. <<job.m, "cloud">> \notin lost
      BY <1>2, <3>1, <3>3 DEF Safe, LostParked, Unusable
    <3> QED BY <3>1, <3>2, <3>4
  <2>7. ConsentsUsed'
    <3>1. \A u \in Tasks : consent'[u].id <= granted'
      BY <1>1, <2>2 DEF Safe, ConsentsUsed
    <3>2. ASSUME NEW i \in Nat, NEW m \in Materials, <<i, m>> \in clouded'
          PROVE  /\ i \in 1..granted'
                 /\ consent'[TaskOf[m]].id = i => m \in consent'[TaskOf[m]].used
      <4>1. TaskOf[m] \in Tasks
        BY ConstantsAssumption
      <4> QED BY <1>1, <2>2, <3>2, <4>1 DEF Safe, ConsentsUsed
    <3>3. /\ job'.cid \in 1..granted' /\ job'.m \in consent'[TaskOf[job'.m]].used
          /\ <<job'.cid, job'.m>> \notin clouded' /\ <<job'.m, "cloud">> \notin lost'
      BY <1>1, <2>1, <2>2, <2>6
    <3> QED BY <3>1, <3>2, <3>3 DEF ConsentsUsed
  <2> QED BY <2>4, <2>5, <2>7, MovesSafe
<1>6. \/ job' = [job EXCEPT !.waiting = TRUE, !.pc = "finish"] /\ consent' = consent
      \/ job' = [job EXCEPT !.pc = "settle"] /\ consent' = consent
      \/ /\ CloudMatches(c) /\ job.m \notin c.used /\ Current
         /\ job' = [job EXCEPT !.cid = c.id, !.pc = "cloud"]
         /\ consent' = [consent EXCEPT ![t].used = c.used \cup {job.m}]
  BY <1>2 DEF ClaimCloud, Inv, TypeOK
<1> QED BY <1>3, <1>4, <1>5, <1>6

\* The cloud request leaves.
LEMMA CloudDispatchSafe == ASSUME Inv, Safe, CloudDispatch PROVE Safe'
<1> USE DEF tables, settings, process, history
<1>1. /\ UNCHANGED <<mat, results, phase, lost, granted, consent, stage>>
      /\ job.pc = "cloud" /\ phase = "up" /\ job' = [job EXCEPT !.pc = "cloud_wait"]
      /\ clouded' = clouded \cup {<<job.cid, job.m>>}
  BY DEF CloudDispatch, At
<1>2. job.m \in Materials /\ job.cid \in Nat
  BY <1>1, BusyWorker DEF Inv, TypeOK, Job
<1>3. /\ job'.pc = "cloud_wait" /\ job'.m = job.m /\ job'.copy = job.copy
      /\ job'.cancelled = job.cancelled
  BY <1>1, MovedJob DEF Inv
<1>4. Moves
  BY <1>1, <1>2, <1>3, SameUnusable DEF Moves
<1>5. DispatchRecorded'
  BY <1>1, <1>3 DEF Safe, DispatchRecorded, Current, Unusable
<1>6. ConsentsUsed'
  <2>1. ASSUME NEW i \in Nat, NEW m \in Materials, <<i, m>> \in clouded'
        PROVE  /\ i \in 1..granted'
               /\ consent'[TaskOf[m]].id = i => m \in consent'[TaskOf[m]].used
    BY <1>1, <1>2, <2>1 DEF Safe, ConsentsUsed
  <2> QED BY <1>1, <1>3, <2>1 DEF Safe, ConsentsUsed
<1> QED BY <1>4, <1>5, <1>6, MovesSafe

\* The job is over; its row is settled, queued again or somebody else's.
JobOver ==
  /\ job.m \in Materials /\ phase = "up"
  /\ UNCHANGED <<phase, lost, granted, consent, clouded>>
  /\ job' = IdleJob \/ (job'.pc = "ai_stage" /\ job'.m = job.m)
  /\ \A n \in Materials : n # job.m => mat'[n] = mat[n] /\ results'[n] = results[n]
  /\ ShowsResult(mat'[job.m], results'[job.m])
  /\ mat'[job.m].status # "running"
  /\ mat[job.m].status # "none" => mat'[job.m].status # "none"
  /\ mat'[job.m].status = "queued" => mat[job.m].status \in {"queued", "running"}

\* Ending a job keeps the safety invariant.
LEMMA JobOverSafe == ASSUME Inv, Safe, JobOver PROVE Safe'
<1>1. /\ UNCHANGED <<phase, lost, granted, consent, clouded>> /\ phase = "up"
      /\ job.m \in Materials /\ job'.pc \in {"idle", "ai_stage"}
      /\ job'.pc = "ai_stage" => job'.m = job.m
      /\ job'.pc = "idle" => job'.m = None
  BY DEF JobOver, IdleJob
<1>2. ReadyShows'
  <2>1. \A m \in Materials : ShowsResult(mat'[m], results'[m])
    BY DEF JobOver, Safe, ReadyShows, ShowsResult
  <2> QED BY <2>1 DEF ReadyShows, ShowsResult
<1>3. RunningHeld'
  <2>1. \A m \in Materials : mat'[m].status # "running"
    BY <1>1 DEF JobOver, Safe, RunningHeld
  <2> QED BY <1>1, <2>1 DEF RunningHeld
<1>4. TokenHolds' /\ DispatchRecorded'
  BY <1>1 DEF TokenHolds, DispatchRecorded
<1>5. LostParked'
  <2>1. ASSUME NEW m \in Materials, NEW k \in Kinds, <<m, k>> \in lost'
        PROVE  /\ mat'[m].status # "none"
               /\ mat'[m].status \notin {"queued", "running"} \/ (k = "cloud" /\ Unusable(m)')
    <3>1. /\ mat[m].status # "none"
          /\ mat[m].status \notin {"queued", "running"} \/ (k = "cloud" /\ Unusable(m))
      BY <1>1, <2>1 DEF Safe, LostParked
    <3>2. Unusable(m) => Unusable(m)'
      BY <1>1 DEF Unusable
    <3> QED BY <3>1, <3>2 DEF JobOver
  <2> QED BY <2>1 DEF LostParked
<1>6. ConsentsUsed'
  BY <1>1 DEF Safe, ConsentsUsed
<1> QED BY <1>2, <1>3, <1>4, <1>5, <1>6 DEF Safe

\* The job ends without a word on its row, which somebody has changed.
LEMMA SupersededOver ==
  ASSUME Inv, Safe, job.m \in Materials, phase = "up", ~Current \/ job.pc = "ai_stage",
         UNCHANGED <<mat, results, phase, lost, granted, consent, clouded>>, job' = IdleJob
  PROVE  JobOver
<1>1. mat[job.m].status # "running"
  BY DEF Safe, RunningHeld
<1> QED BY <1>1 DEF JobOver, Safe, ReadyShows

\* The stage row of a published analysis is written after its row.
LEMMA AiStageSafe == ASSUME Inv, Safe, AiStage PROVE Safe'
<1> USE DEF tables, settings, process, history
<1>1. /\ job.pc = "ai_stage" /\ phase = "up" /\ job' = IdleJob
      /\ UNCHANGED <<mat, results, phase, lost, granted, consent, clouded>>
  BY DEF AiStage, At
<1> QED BY <1>1, BusyWorker, SupersededOver, JobOverSafe DEF Inv

\* settle_material_failure.
LEMMA SettleSafe == ASSUME Inv, Safe, Settle PROVE Safe'
<1> USE DEF tables, settings, process, history
<1>1. /\ job.pc = "settle" /\ phase = "up" /\ job' = IdleJob
      /\ UNCHANGED <<results, phase, lost, granted, consent, clouded>>
  BY DEF Settle, At
<1>2. job.m \in Materials
  BY <1>1, BusyWorker DEF Inv
<1>3. CASE ~Current
  BY <1>1, <1>2, <1>3, SupersededOver, JobOverSafe DEF Settle
<1>4. CASE Current
  <2>1. mat' = [mat EXCEPT ![job.m].status = "failed"]
    BY <1>4 DEF Settle
  <2>2. /\ mat'[job.m].status = "failed"
        /\ \A n \in Materials : n # job.m => mat'[n] = mat[n]
    BY <1>2, <2>1 DEF Inv, TypeOK, Material
  <2>3. JobOver
    BY <1>1, <1>2, <2>2 DEF JobOver, ShowsResult
  <2> QED BY <2>3, JobOverSafe
<1> QED BY <1>3, <1>4

\* The critical section that publishes, parks or requeues what the job was about.
LEMMA FinishSafe ==
  ASSUME Inv, Safe, job.pc \in {"ai_finish", "finish"}, phase = "up", NEW a \in Analysis,
         a.src = job.copy.src, a.dict = job.g, NEW waiting \in BOOLEAN,
         NEW pc \in {"idle", "ai_stage"}, Finish(a, waiting, pc)
  PROVE  Safe'
<1> USE DEF tables, settings, process, history
<1>1. UNCHANGED <<phase, lost, granted, consent, clouded>>
  BY DEF Finish
<1>2. /\ job.m \in Materials /\ job.m # None /\ job.copy.text = job.copy.src
  BY BusyWorker DEF Inv, JobConsistent
<1>3. CASE ~Current
  BY <1>1, <1>2, <1>3, SupersededOver, JobOverSafe DEF Finish
<1>4. CASE Current
  <2> DEFINE m == job.m
             c == job.copy
             w == Withdrawn(m, c)
             f == Finished(m, c, job.g, a, waiting)
             rs == FinishedResults(w, c, job.g, a)
             j == [job EXCEPT !.pc = pc, !.analysis = a]
  <2>1. /\ m \in Materials /\ mat[m] = c /\ dict[Group(m)] = job.g
        /\ c \in Material /\ job.g \in Nat /\ c.result = mat[m].result
        /\ mat[m].status = "running"
    BY <1>2, <1>4, WorkerRow
  <2>2. /\ mat' = [mat EXCEPT ![m] = f] /\ results' = [results EXCEPT ![m] = rs]
        /\ job' = IF pc = "idle" THEN IdleJob ELSE j
    BY <1>4, <2>1 DEF Finish
  <2>3. RowOK(mat[m], results[m], dict[Group(m)]) /\ TypeOK
    BY <2>1 DEF Inv, RowsOK
  <2>4. w \in Seq(Result) /\ Len(w) = Len(results[m])
    BY <2>1, <2>3, WithdrawnRows
  <2>5. job' = IdleJob \/ (job'.pc = "ai_stage" /\ job'.m = m)
    BY <2>2, <2>3 DEF TypeOK, Job
  <2> HIDE DEF w, m, c
  <2>6. /\ ShowsResult(f, rs)
        /\ f.status \in {"ready", "awaiting_consent", "needs_review"}
    <3>1. c.text = c.src
      BY <1>2 DEF c
    <3> QED BY <2>1, <2>4, <3>1, FinishedShows
  <2> HIDE DEF f, rs, j
  <2>7. /\ mat'[m] = f /\ results'[m] = rs
        /\ \A n \in Materials : n # m => mat'[n] = mat[n] /\ results'[n] = results[n]
    BY <2>1, <2>2, <2>3 DEF TypeOK
  <2>8. JobOver
    BY <1>1, <2>1, <2>5, <2>6, <2>7 DEF JobOver, m
  <2> QED BY <2>8, JobOverSafe
<1> QED BY <1>3, <1>4

\* The ends of the model path and of the local path.
LEMMA FinishStepsSafe == ASSUME Inv, Safe, AiFinish \/ LocalFinish PROVE Safe'
<1>1. CASE AiFinish
  <2>1. /\ job.pc = "ai_finish" /\ phase = "up" /\ Finish(job.analysis, FALSE, "ai_stage")
    BY <1>1 DEF AiFinish, At
  <2>2. /\ job.analysis \in Analysis /\ job.analysis.src = job.copy.src
        /\ job.analysis.dict = job.g
    BY <2>1 DEF Inv, TypeOK, Job, JobConsistent
  <2> DEFINE no == FALSE
  <2>3. no \in BOOLEAN /\ Finish(job.analysis, no, "ai_stage")
    BY <2>1
  <2> HIDE DEF no
  <2> QED BY <2>1, <2>2, <2>3, FinishSafe
<1>2. CASE LocalFinish
  <2> DEFINE a == [job.analysis EXCEPT !.review = job.analysis.review \/ job.cancelled]
             waiting == job.waiting /\ ~job.cancelled
  <2>1. job.pc = "finish" /\ phase = "up" /\ Finish(a, waiting, "idle")
    BY <1>2 DEF LocalFinish, At
  <2>2. /\ job.analysis \in Analysis /\ job.analysis.src = job.copy.src
        /\ job.analysis.dict = job.g /\ job.cancelled \in BOOLEAN
        /\ job.waiting \in BOOLEAN
    BY <2>1 DEF Inv, TypeOK, Job, JobConsistent
  <2>3. a \in Analysis /\ a.src = job.copy.src /\ a.dict = job.g
    BY <2>2 DEF Analysis
  <2>4. waiting \in BOOLEAN
    BY <2>2
  <2> HIDE DEF a, waiting
  <2> QED BY <2>1, <2>3, <2>4, FinishSafe
<1> QED BY <1>1, <1>2

\* The worker writes on the row it works on.
LEMMA RowWrittenSafe ==
  ASSUME Inv, Safe, Current, job.m \in Materials, phase = "up", NEW c,
         c.status = "running", c.rev = job.copy.rev, mat' = [mat EXCEPT ![job.m] = c],
         UNCHANGED <<results, phase, lost, granted, consent, clouded>>,
         job'.m = job.m, job'.copy = c, job'.pc \in {"text_ready", "claim_cloud", "finish"}
  PROVE  Safe'
<1>1. /\ mat'[job.m] = c
      /\ \A n \in Materials : n # job.m => mat'[n] = mat[n]
  BY DEF Inv, TypeOK
<1>2. Current'
  BY <1>1 DEF Current
<1>3. mat[job.m].status = "running"
  BY DEF Current
<1>4. ReadyShows'
  BY <1>1 DEF Safe, ReadyShows, ShowsResult
<1>5. RunningHeld'
  BY <1>1, <1>2 DEF Safe, RunningHeld
<1>6. TokenHolds' /\ DispatchRecorded'
  BY <1>2 DEF TokenHolds, DispatchRecorded
<1>7. LostParked'
  <2>1. ASSUME NEW m \in Materials, NEW k \in Kinds, <<m, k>> \in lost'
        PROVE  /\ mat'[m].status # "none"
               /\ mat'[m].status \notin {"queued", "running"} \/ (k = "cloud" /\ Unusable(m)')
    <3>1. /\ mat[m].status # "none"
          /\ mat[m].status \notin {"queued", "running"} \/ (k = "cloud" /\ Unusable(m))
      BY <2>1 DEF Safe, LostParked
    <3>2. Unusable(m) => Unusable(m)'
      BY DEF Unusable
    <3> QED BY <1>1, <1>3, <3>1, <3>2
  <2> QED BY <2>1 DEF LostParked
<1>8. ConsentsUsed'
  BY DEF Safe, ConsentsUsed
<1> QED BY <1>4, <1>5, <1>6, <1>7, <1>8 DEF Safe

\* The model path's text is stored on the fresh row.
LEMMA SaveTextSafe == ASSUME Inv, Safe, SaveText PROVE Safe'
<1> USE DEF tables, settings, process, history
<1>1. /\ job.pc = "ocr_done" /\ phase = "up"
      /\ UNCHANGED <<results, phase, lost, granted, consent, clouded>>
  BY DEF SaveText, At
<1>2. job.m \in Materials /\ job.m # None
  BY <1>1, BusyWorker DEF Inv
<1>3. CASE ~Current
  BY <1>1, <1>2, <1>3, SupersededOver, JobOverSafe DEF SaveText
<1>4. CASE Current
  <2> DEFINE c == [mat[job.m] EXCEPT !.text = job.copy.src]
  <2>1. mat' = [mat EXCEPT ![job.m] = c] /\ job' = [job EXCEPT !.copy = c, !.pc = "text_ready"]
    BY <1>4 DEF SaveText
  <2>2. c.status = "running" /\ c.rev = job.copy.rev
    BY <1>2, <1>4, WorkerRow DEF Material, Current
  <2> HIDE DEF c
  <2>3. job'.m = job.m /\ job'.copy = c /\ job'.pc = "text_ready"
    BY <2>1 DEF Inv, TypeOK, Job
  <2> QED BY <1>1, <1>2, <1>4, <2>1, <2>2, <2>3, RowWrittenSafe
<1> QED BY <1>3, <1>4

\* The local path's text and analysis are stored.
LEMMA LocalAnalyzeSafe ==
  ASSUME Inv, Safe, NEW review \in BOOLEAN, LocalAnalyze(review)
  PROVE  Safe'
<1> USE DEF tables, settings, process, history
<1> DEFINE a == [src |-> job.copy.src, dict |-> job.g, ai |-> FALSE, review |-> review]
           c == [job.copy EXCEPT !.text = job.copy.src, !.analysis = a]
           pc == IF review THEN "claim_cloud" ELSE "finish"
<1>1. /\ job.pc = "local" /\ phase = "up"
      /\ UNCHANGED <<results, phase, lost, granted, consent, clouded>>
  BY DEF LocalAnalyze, At
<1>2. job.m \in Materials /\ job.m # None
  BY <1>1, BusyWorker DEF Inv
<1>3. CASE ~Current
  BY <1>1, <1>2, <1>3, SupersededOver, JobOverSafe DEF LocalAnalyze
<1>4. CASE Current
  <2>1. /\ mat' = [mat EXCEPT ![job.m] = c]
        /\ job' = [job EXCEPT !.copy = c, !.analysis = a, !.pc = pc]
    BY <1>4 DEF LocalAnalyze
  <2>2. mat[job.m] = job.copy /\ job.copy \in Material /\ job.copy.status = "running"
    BY <1>2, <1>4, WorkerRow
  <2> HIDE DEF a
  <2>3. c.status = "running" /\ c.rev = job.copy.rev
    BY <2>2 DEF Material
  <2>4. pc \in {"text_ready", "claim_cloud", "finish"}
    OBVIOUS
  <2> HIDE DEF c, pc
  <2>5. job'.m = job.m /\ job'.copy = c /\ job'.pc = pc
    BY <2>1 DEF Inv, TypeOK, Job
  <2> QED BY <1>1, <1>2, <1>4, <2>1, <2>3, <2>4, <2>5, RowWrittenSafe
<1> QED BY <1>3, <1>4

\* claim_next.
LEMMA ClaimSafe == ASSUME Inv, Safe, NEW m \in Materials, Claim(m) PROVE Safe'
<1> USE DEF tables, settings, process, history
<1> DEFINE c == [mat[m] EXCEPT !.status = "running", !.dict = dict[Group(m)]]
           g == dict[Group(m)]
<1>1. /\ UNCHANGED <<results, phase, lost, granted, consent, clouded>>
      /\ phase = "up" /\ job.pc = "idle" /\ mat[m].status = "queued"
      /\ mat' = [mat EXCEPT ![m] = c]
      /\ job' = [IdleJob EXCEPT !.pc = "select", !.m = m, !.copy = c, !.g = g]
  BY DEF Claim
<1>2. c.status = "running" /\ c.rev = mat[m].rev
  BY DEF Inv, TypeOK, Material
<1> HIDE DEF c, g
<1>3. /\ mat'[m] = c
      /\ \A n \in Materials : n # m => mat'[n] = mat[n]
  BY <1>1 DEF Inv, TypeOK
<1>4. job'.m = m /\ job'.copy = c /\ job'.pc = "select"
  BY <1>1 DEF IdleJob
<1>5. Current'
  BY <1>2, <1>3, <1>4 DEF Current
<1>6. ReadyShows'
  BY <1>1, <1>2, <1>3 DEF Safe, ReadyShows, ShowsResult
<1>7. RunningHeld'
  <2>1. \A n \in Materials : n # m => mat[n].status # "running"
    BY <1>1, ConstantsAssumption DEF Safe, RunningHeld, Inv, TypeOK
  <2> QED BY <1>1, <1>3, <1>4, <1>5, <2>1 DEF RunningHeld
<1>8. TokenHolds' /\ DispatchRecorded'
  BY <1>4, <1>5 DEF TokenHolds, DispatchRecorded
<1>9. LostParked'
  <2>1. ASSUME NEW n \in Materials, NEW k \in Kinds, <<n, k>> \in lost'
        PROVE  /\ mat'[n].status # "none"
               /\ mat'[n].status \notin {"queued", "running"} \/ (k = "cloud" /\ Unusable(n)')
    <3>1. /\ mat[n].status # "none"
          /\ mat[n].status \notin {"queued", "running"} \/ (k = "cloud" /\ Unusable(n))
      BY <1>1, <2>1 DEF Safe, LostParked
    <3>2. Unusable(n) => Unusable(n)'
      BY <1>1 DEF Unusable
    <3> QED BY <1>1, <1>2, <1>3, <3>1, <3>2
  <2> QED BY <2>1 DEF LostParked
<1>10. ConsentsUsed'
  BY <1>1, <1>4 DEF Safe, ConsentsUsed
<1> QED BY <1>6, <1>7, <1>8, <1>9, <1>10 DEF Safe

\* Every step of the worker.
LEMMA WorkerSafe == ASSUME Inv, Safe, WorkerNext PROVE Safe'
BY ClaimSafe, PlainGotos, StagesSafe, ModelDispatchSafe, AnswerSafe, SaveTextSafe,
   LocalAnalyzeSafe, ClaimCloudSafe, CloudDispatchSafe, FinishStepsSafe, AiStageSafe,
   SettleSafe DEF WorkerNext

-----------------------------------------------------------------------------
(* Crashes and recovery. *)

\* What a crash loses is the answer to the request the worker waits for.
LEMMA LostAnswer ==
  ASSUME NEW m, NEW k, <<m, k>> \in InFlight
  PROVE  /\ m = job.m /\ Current
         /\ \/ k = "ocr" /\ job.pc = "ocr_wait"
            \/ k = "redact" /\ job.pc = "redact_wait"
            \/ k = "cloud" /\ job.pc = "cloud_wait"
<1>1. job.pc \in {"ocr_wait", "redact_wait", "cloud_wait"} /\ Current
  BY DEF InFlight
<1>2. CASE job.pc = "ocr_wait"
  BY <1>1, <1>2 DEF InFlight
<1>3. CASE job.pc = "redact_wait"
  BY <1>1, <1>3 DEF InFlight
<1>4. CASE job.pc = "cloud_wait"
  BY <1>1, <1>4 DEF InFlight
<1> QED BY <1>1, <1>2, <1>3, <1>4

\* What LostParked says of one answer.
Parked(m, k) ==
  /\ mat[m].status # "none"
  /\ \/ mat[m].status \notin {"queued", "running"}
     \/ k = "cloud" /\ Unusable(m)
     \/ /\ k # "cloud" /\ phase # "up" /\ RunningStage(m)
        /\ stage[m].rev = mat[m].rev /\ stage[m].src = mat[m].src

\* The worker gone, what remains of the invariant is about rows, stages and consents.
LEMMA IdleSafe ==
  ASSUME Safe, job'.m = None, job'.pc = "idle", ReadyShows',
         UNCHANGED <<granted, consent, clouded>>,
         \A m \in Materials : mat'[m].status = "running" =>
           phase' # "recover_stages" /\ phase' # "up",
         \A m \in Materials, k \in Kinds : <<m, k>> \in lost' => Parked(m, k)'
  PROVE  Safe'
<1>1. RunningHeld' /\ TokenHolds' /\ DispatchRecorded'
  BY DEF RunningHeld, TokenHolds, DispatchRecorded
<1>2. LostParked'
  BY DEF LostParked, Parked
<1>3. ConsentsUsed'
  BY DEF Safe, ConsentsUsed
<1> QED BY <1>1, <1>2, <1>3 DEF Safe

\* Where the rows, stages and consents stay, what was parked stays so.
LEMMA ParkedStays ==
  ASSUME Safe, NEW m \in Materials, NEW k \in Kinds, <<m, k>> \in lost,
         UNCHANGED <<mat, stage, consent>>,
         phase' # "up" \/ ~RunningStage(m) \/ phase' = phase
  PROVE  Parked(m, k)'
<1>1. Parked(m, k)
  BY DEF Safe, LostParked, Parked
<1>2. Unusable(m) => Unusable(m)'
  BY DEF Unusable
<1>3. RunningStage(m) => RunningStage(m)'
  BY DEF RunningStage
<1> QED BY <1>1, <1>2, <1>3 DEF Parked

\* The process dies: what the lost answer was about is on record.
LEMMA CrashSafe == ASSUME Inv, Safe, Crash PROVE Safe'
<1> USE DEF tables, settings, process, history
<1>1. /\ UNCHANGED <<mat, results, stage, granted, consent, clouded>>
      /\ job' = IdleJob /\ phase' = "recover_materials" /\ lost' = lost \cup InFlight
  BY DEF Crash
<1>2. ReadyShows'
  BY <1>1 DEF Safe, ReadyShows, ShowsResult
<1>3. job'.m = None /\ job'.pc = "idle"
  BY <1>1 DEF IdleJob
<1>4. ASSUME NEW m \in Materials, NEW k \in Kinds, <<m, k>> \in lost' PROVE Parked(m, k)'
  <2>1. CASE <<m, k>> \in lost
    BY <1>1, <2>1, ParkedStays
  <2>2. CASE <<m, k>> \in InFlight
    <3>1. /\ m = job.m /\ m # None /\ Current
          /\ \/ k = "ocr" /\ job.pc = "ocr_wait"
             \/ k = "redact" /\ job.pc = "redact_wait"
             \/ k = "cloud" /\ job.pc = "cloud_wait"
      BY <2>2, LostAnswer, ConstantsAssumption
    <3>2. /\ mat[m] = job.copy /\ mat[m].status = "running" /\ mat[m].rev = job.copy.rev
      BY <3>1 DEF Inv, CopyIsCurrent, Current
    <3>3. CASE k = "cloud"
      <4>1. Unusable(m)
        BY <3>1, <3>3 DEF Safe, DispatchRecorded
      <4>2. Unusable(m)'
        BY <1>1, <4>1 DEF Unusable
      <4> QED BY <1>1, <3>2, <3>3, <4>2 DEF Parked
    <3>4. CASE k # "cloud"
      <4>1. /\ stage[m].stage \in {"ocr_running", "redaction_running"}
            /\ stage[m].rev = mat[m].rev /\ stage[m].src = mat[m].src
        <5>1. CASE k = "ocr"
          BY <3>1, <3>2, <5>1 DEF Safe, DispatchRecorded
        <5>2. CASE k = "redact"
          BY <3>1, <3>2, <5>2 DEF Safe, DispatchRecorded
        <5> QED BY <3>1, <3>4, <5>1, <5>2
      <4>2. RunningStage(m)'
        BY <1>1, <4>1 DEF RunningStage
      <4> QED BY <1>1, <3>2, <3>4, <4>1, <4>2 DEF Parked
    <3> QED BY <3>3, <3>4
  <2> QED BY <1>1, <1>4, <2>1, <2>2
<1> QED BY <1>1, <1>2, <1>3, <1>4, IdleSafe

\* open: the first pass.
LEMMA RecoverMaterialSafe ==
  ASSUME Inv, Safe, NEW m \in Materials, RecoverMaterial(m) PROVE Safe'
<1> USE DEF tables, settings, process, history
<1> DEFINE st == IF consent[TaskOf[m]].id # 0 /\ m \in consent[TaskOf[m]].used
                 THEN "needs_review" ELSE "queued"
<1>1. /\ UNCHANGED <<results, stage, job, phase, lost, granted, consent, clouded>>
      /\ phase = "recover_materials" /\ mat[m].status = "running"
      /\ mat' = [mat EXCEPT ![m].status = st]
  BY DEF RecoverMaterial
<1>2. st \in {"needs_review", "queued"} /\ (Unusable(m) /\ st = "queued" => Unusable(m)')
  BY <1>1 DEF Unusable
<1> HIDE DEF st
<1>3. /\ mat'[m].status = st /\ mat'[m].rev = mat[m].rev /\ mat'[m].src = mat[m].src
      /\ \A n \in Materials : n # m => mat'[n] = mat[n]
  BY <1>1 DEF Inv, TypeOK, Material
<1>4. ReadyShows'
  BY <1>1, <1>2, <1>3 DEF Safe, ReadyShows, ShowsResult
<1>5. job'.m = None /\ job'.pc = "idle"
  BY <1>1 DEF Inv, TypeOK, JobConsistent
<1>6. ASSUME NEW n \in Materials, NEW k \in Kinds, <<n, k>> \in lost' PROVE Parked(n, k)'
  <2>1. Parked(n, k)
    BY <1>1, <1>6 DEF Safe, LostParked, Parked
  <2>2. RunningStage(n) => RunningStage(n)'
    BY <1>1 DEF RunningStage
  <2>3. CASE n = m
    BY <1>1, <1>2, <1>3, <2>1, <2>2, <2>3 DEF Parked
  <2>4. CASE n # m
    <3>1. Unusable(n) => Unusable(n)'
      BY <1>1 DEF Unusable
    <3> QED BY <1>1, <1>3, <2>1, <2>2, <2>4, <3>1 DEF Parked
  <2> QED BY <2>3, <2>4
<1> QED BY <1>1, <1>4, <1>5, <1>6, IdleSafe

\* recover_ai_stages: a stage whose row is pending is closed only after the row.
LEMMA RecoverStageSafe ==
  ASSUME Inv, Safe, NEW m \in Materials, RecoverStage(m) PROVE Safe'
<1> USE DEF tables, settings, process, history
<1>1. /\ UNCHANGED <<results, job, phase, lost, granted, consent, clouded>>
      /\ phase = "recover_stages" /\ RunningStage(m)
  BY DEF RecoverStage
<1>2. job'.m = None /\ job'.pc = "idle"
  BY <1>1 DEF Inv, TypeOK, JobConsistent
<1>3. \A n \in Materials : mat[n].status # "running"
  BY <1>1 DEF Safe, RunningHeld
<1>4. \A n \in Materials, k \in Kinds : <<n, k>> \in lost' => Parked(n, k)
  BY <1>1 DEF Safe, LostParked, Parked
<1>5. \A n \in Materials : Unusable(n) => Unusable(n)'
  BY <1>1 DEF Unusable
<1>6. CASE mat' = [mat EXCEPT ![m].status = "needs_review"] /\ stage' = stage
  <2>1. /\ mat'[m].status = "needs_review"
        /\ \A n \in Materials : n # m => mat'[n] = mat[n]
    BY <1>6 DEF Inv, TypeOK, Material
  <2>2. ReadyShows'
    BY <1>1, <2>1 DEF Safe, ReadyShows, ShowsResult
  <2>3. ASSUME NEW n \in Materials, NEW k \in Kinds, <<n, k>> \in lost' PROVE Parked(n, k)'
    <3>1. CASE n = m
      BY <2>1, <3>1 DEF Parked
    <3>2. CASE n # m
      <4>1. RunningStage(n) => RunningStage(n)'
        BY <1>6 DEF RunningStage
      <4> QED BY <1>1, <1>4, <1>5, <1>6, <2>1, <2>3, <3>2, <4>1 DEF Parked
    <3> QED BY <3>1, <3>2
  <2>4. \A n \in Materials : mat'[n].status # "running"
    BY <1>3, <2>1
  <2> QED BY <1>1, <1>2, <2>2, <2>3, <2>4, IdleSafe
<1>7. CASE /\ mat' = mat /\ stage' = [stage EXCEPT ![m].stage = "interrupted"]
           /\ ~(/\ mat[m].rev = stage[m].rev /\ mat[m].src = stage[m].src
                /\ mat[m].status \in {"running", "queued"})
  <2>1. ReadyShows'
    BY <1>1, <1>7 DEF Safe, ReadyShows, ShowsResult
  <2>2. ASSUME NEW n \in Materials, NEW k \in Kinds, <<n, k>> \in lost' PROVE Parked(n, k)'
    <3>1. CASE n = m
      BY <1>4, <1>5, <1>7, <2>2, <3>1 DEF Parked
    <3>2. CASE n # m
      <4>1. stage'[n] = stage[n]
        BY <1>7, <3>2 DEF Inv, TypeOK
      <4>2. RunningStage(n) => RunningStage(n)'
        BY <4>1 DEF RunningStage
      <4> QED BY <1>1, <1>4, <1>5, <1>7, <2>2, <4>1, <4>2 DEF Parked
    <3> QED BY <3>1, <3>2
  <2>3. \A n \in Materials : mat'[n].status # "running"
    BY <1>3, <1>7
  <2> QED BY <1>1, <1>2, <2>1, <2>2, <2>3, IdleSafe
<1> QED BY <1>6, <1>7 DEF RecoverStage

\* A recovery pass ends when nothing is left to recover.
LEMMA PassesSafe == ASSUME Inv, Safe, MaterialsRecovered \/ StagesRecovered PROVE Safe'
<1> USE DEF tables, settings, process, history
<1>1. /\ UNCHANGED <<mat, results, stage, job, lost, granted, consent, clouded>>
      /\ phase # "up"
  BY DEF MaterialsRecovered, StagesRecovered
<1>2. job'.m = None /\ job'.pc = "idle"
  BY <1>1 DEF Inv, TypeOK, JobConsistent
<1>3. ReadyShows'
  BY <1>1 DEF Safe, ReadyShows, ShowsResult
<1>4. \A m \in Materials : mat'[m].status # "running"
  BY <1>1 DEF MaterialsRecovered, StagesRecovered, Safe, RunningHeld
<1>5. \A m \in Materials : phase' # "up" \/ ~RunningStage(m)
  BY DEF MaterialsRecovered, StagesRecovered
<1>6. \A m \in Materials, k \in Kinds : <<m, k>> \in lost' => Parked(m, k)'
  BY <1>1, <1>5, ParkedStays
<1> QED BY <1>1, <1>2, <1>3, <1>4, <1>6, IdleSafe

-----------------------------------------------------------------------------
(* The invariant and the safety invariants it gives. *)

\* In the empty workspace nothing is running, lost or consented to.
LEMMA InitSafe == Init => Safe
<1> SUFFICES ASSUME Init PROVE Safe
  OBVIOUS
<1>1. /\ \A m \in Materials : mat[m].status = "none"
      /\ \A t \in Tasks : consent[t].id = 0
      /\ granted = 0 /\ lost = {} /\ clouded = {} /\ job.m = None /\ job.pc = "idle"
  BY DEF Init, NoMaterial, NoConsent, IdleJob
<1>2. ReadyShows /\ RunningHeld /\ TokenHolds /\ DispatchRecorded /\ LostParked
  BY <1>1 DEF ReadyShows, ShowsResult, RunningHeld, TokenHolds, DispatchRecorded, LostParked
<1>3. ConsentsUsed
  BY <1>1 DEF ConsentsUsed
<1> QED BY <1>2, <1>3 DEF Safe

\* Every step of the workspace keeps the safety invariant.
LEMMA NextSafe == Inv /\ Safe /\ [Next]_vars => Safe'
<1> SUFFICES ASSUME Inv, Safe, [Next]_vars PROVE Safe'
  OBVIOUS
<1>1. CASE UserNext
  BY <1>1, UserNextEffect, UserSafe
<1>2. CASE WorkerNext
  BY <1>2, WorkerSafe
<1>3. CASE RecoveryNext
  BY <1>3, RecoverMaterialSafe, RecoverStageSafe, PassesSafe DEF RecoveryNext
<1>4. CASE Crash
  BY <1>4, CrashSafe
<1>5. CASE UNCHANGED vars
  <2>1. UNCHANGED <<mat, results, consent, granted, stage, job, phase, lost, clouded>>
    BY <1>5 DEF vars
  <2>2. ReadyShows' /\ RunningHeld' /\ TokenHolds'
    BY <2>1 DEF Safe, ReadyShows, ShowsResult, RunningHeld, TokenHolds, Current
  <2>3. DispatchRecorded' /\ LostParked'
    BY <2>1 DEF Safe, DispatchRecorded, LostParked, Current, Unusable, RunningStage
  <2>4. ConsentsUsed'
    BY <2>1 DEF Safe, ConsentsUsed
  <2> QED BY <2>2, <2>3, <2>4 DEF Safe
<1> QED BY <1>1, <1>2, <1>3, <1>4, <1>5 DEF Next

\* Both invariants hold in every reachable state.
LEMMA SafeHolds == Spec => [](Inv /\ Safe)
<1>1. Init => Inv /\ Safe
  BY InitInv, InitSafe
<1>2. (Inv /\ Safe) /\ [Next]_vars => (Inv /\ Safe)'
  BY NextInv, NextSafe
<1> QED BY <1>1, <1>2, PTL DEF Spec

\* No error path, panic or race of the worker strands a material in "running":
\* outside recovery the row belongs to the job in progress.
THEOREM NothingStranded == Spec => []NoStranded
<1>1. Safe => NoStranded
  BY DEF Safe, RunningHeld, NoStranded
<1> QED BY <1>1, SafeHolds, PTL

\* No handler leaves a ready row that read_result_locked refuses.
THEOREM ReadyCanBeRead == Spec => []ReadyIsReadable
<1>1. Inv /\ Safe => ReadyIsReadable
  <2> SUFFICES ASSUME Inv, Safe, NEW m \in Materials, mat[m].status = "ready"
               PROVE  /\ mat[m].result \in 1..Len(results[m])
                      /\ results[m][mat[m].result].expired \/ Readable(m, mat[m].result)
    BY DEF ReadyIsReadable
  <2> DEFINE i == mat[m].result
  <2>1. i \in 1..Len(results[m]) /\ ~results[m][i].revoked /\ mat[m].text = mat[m].src
    BY DEF Safe, ReadyShows, ShowsResult
  <2>2. /\ mat[m].rev = results[m][i].rev /\ mat[m].src = results[m][i].src
        /\ dict[Group(m)] = results[m][i].dict
    BY <2>1 DEF Inv, RowsOK, RowOK
  <2> QED BY <2>1, <2>2 DEF Readable
<1> QED BY <1>1, SafeHolds, PTL

-----------------------------------------------------------------------------
(* What a step may do. *)

Waits == {"ocr_wait", "redact_wait", "cloud_wait"}

\* The three steps that send a request, with what they check.
LEMMA Senders ==
  ASSUME Inv, Safe, [Next]_vars, job'.pc # job.pc, job'.pc \in Waits
  PROVE  /\ phase = "up" /\ job.m \in Materials /\ job.m # None
         /\ \/ job.pc = "ocr" /\ job'.pc = "ocr_wait" /\ ~job.cancelled
            \/ job.pc = "redact" /\ job'.pc = "redact_wait" /\ ~job.cancelled
            \/ job.pc = "cloud" /\ job'.pc = "cloud_wait" /\ RecheckCloud
<1> USE DEF Waits
<1>1. ~UserNext /\ ~Crash /\ job' # job /\ job' # IdleJob
  BY UserNextEffect DEF UserEffect, JobKept, Crash, IdleJob
<1>2. ~RecoveryNext
  BY <1>1 DEF RecoveryNext, RecoverMaterial, RecoverStage, MaterialsRecovered,
              StagesRecovered
<1>3. WorkerNext
  BY <1>1, <1>2 DEF Next, vars
<1>4. ASSUME NEW pc, Goto(pc) PROVE pc \in Waits
  BY <1>4, MovedJob DEF Goto, Inv
<1>5. ASSUME NEW name, NEW pc, SaveStage(name, pc) PROVE pc \in Waits
  BY <1>5, MovedJob DEF SaveStage, Inv
<1>6. /\ ~SelectModel /\ ~ReadLocal /\ ~OcrSkip /\ ~OcrReply /\ ~OcrCancelled
      /\ ~CloudFail /\ ~JobError
  BY <1>4 DEF SelectModel, ReadLocal, OcrSkip, OcrReply, OcrCancelled, CloudFail, JobError
<1>7. /\ ~ReadAi /\ ~StageTextReady /\ ~StageRedaction
      /\ ~\E marked \in BOOLEAN : AiFail(marked)
  BY <1>4, <1>5 DEF ReadAi, StageTextReady, StageRedaction, AiFail
<1>8. ~\E m \in Materials : Claim(m)
  BY DEF Claim, IdleJob
<1>9. ~SaveText
  BY <1>1 DEF SaveText, Inv, TypeOK, Job
<1>10. ~\E review \in BOOLEAN : Redacted(review) \/ CloudReply(review)
  BY DEF Redacted, CloudReply, Inv, TypeOK, Job
<1>11. ~\E review \in BOOLEAN : LocalAnalyze(review)
  <2> SUFFICES ASSUME NEW review \in BOOLEAN, LocalAnalyze(review) PROVE FALSE
    OBVIOUS
  <2>1. \E c : \E a : job' = [job EXCEPT !.copy = c, !.analysis = a,
                                       !.pc = IF review THEN "claim_cloud" ELSE "finish"]
    BY <1>1 DEF LocalAnalyze
  <2> QED BY <2>1 DEF Inv, TypeOK, Job
<1>12. ASSUME NEW a, NEW waiting, NEW pc, pc \in {"idle", "ai_stage"}, Finish(a, waiting, pc)
       PROVE  FALSE
  <2>1. job' = [job EXCEPT !.pc = pc, !.analysis = a]
    BY <1>1, <1>12 DEF Finish
  <2> QED BY <1>12, <2>1 DEF Inv, TypeOK, Job
<1>13. ~AiFinish /\ ~LocalFinish /\ ~AiStage /\ ~Settle
  BY <1>1, <1>12 DEF AiFinish, LocalFinish, AiStage, Settle
<1>14. ~ClaimCloud
  <2>1. ASSUME ClaimCloud PROVE FALSE
    <3>1. \/ job' = [job EXCEPT !.waiting = TRUE, !.pc = "finish"]
          \/ job' = [job EXCEPT !.pc = "settle"]
          \/ \E c : job' = [job EXCEPT !.cid = c, !.pc = "cloud"]
      BY <2>1 DEF ClaimCloud
    <3> QED BY <3>1 DEF Inv, TypeOK, Job
  <2> QED BY <2>1
<1>15. OcrDispatch \/ RedactDispatch \/ CloudDispatch
  BY <1>3, <1>6, <1>7, <1>8, <1>9, <1>10, <1>11, <1>13, <1>14 DEF WorkerNext
<1>16. CASE CloudDispatch
  <2>1. /\ job.pc = "cloud" /\ job' = [job EXCEPT !.pc = "cloud_wait"] /\ RecheckCloud
        /\ phase = "up"
    BY <1>16 DEF CloudDispatch, At
  <2> QED BY <2>1, MovedJob, BusyWorker DEF Inv
<1>17. ASSUME NEW from, NEW to, from # "idle", Dispatch(from, to)
       PROVE  /\ phase = "up" /\ job.pc = from /\ job'.pc = to /\ ~job.cancelled
              /\ job.m \in Materials /\ job.m # None
  <2>1. /\ phase = "up" /\ job.pc = from /\ ~job.cancelled
        /\ job' = [job EXCEPT !.pc = to, !.sent = profile]
    BY <1>17 DEF Dispatch, At
  <2>2. job'.pc = to
    BY <2>1 DEF Inv, TypeOK, Job
  <2> QED BY <1>17, <2>1, <2>2, BusyWorker DEF Inv
<1> QED BY <1>15, <1>16, <1>17 DEF OcrDispatch, RedactDispatch

\* Cancelling, replacing, revoking and dictionary changes win over a request that
\* is about to leave.
THEOREM DispatchesCurrent == Spec => DispatchIsCurrent
<1> DEFINE A == job'.pc # job.pc /\ job'.pc \in {"ocr_wait", "redact_wait", "cloud_wait"} =>
                  Current /\ dict[Group(job.m)] = job.g
<1>1. Inv /\ Safe /\ [Next]_vars => A
  <2> SUFFICES ASSUME Inv, Safe, [Next]_vars, job'.pc # job.pc, job'.pc \in Waits
               PROVE  Current /\ dict[Group(job.m)] = job.g
    BY DEF Waits
  <2>1. Current /\ job.m # None
    BY Senders DEF Safe, TokenHolds, RecheckCloud
  <2> QED BY <2>1 DEF Inv, CopyIsCurrent
<1>2. Inv /\ Safe /\ [Next]_vars => [A]_vars
  BY <1>1
<1> HIDE DEF A
<1>3. Spec => [][A]_vars
  BY <1>2, SafeHolds, PTL DEF Spec
<1> QED BY <1>3 DEF A, DispatchIsCurrent

\* A dispatch whose answer a crash lost is not sent again until the user acts.
THEOREM NeverReplayed == Spec => NoReplay
<1> DEFINE A == job'.pc # job.pc =>
                  /\ job'.pc = "ocr_wait" => <<job.m, "ocr">> \notin lost
                  /\ job'.pc = "redact_wait" => <<job.m, "redact">> \notin lost
                  /\ job'.pc = "cloud_wait" => <<job.m, "cloud">> \notin lost
<1>1. Inv /\ Safe /\ [Next]_vars => A
  <2> SUFFICES ASSUME Inv, Safe, [Next]_vars, job'.pc # job.pc, job'.pc \in Waits
               PROVE  /\ job'.pc = "ocr_wait" => <<job.m, "ocr">> \notin lost
                      /\ job'.pc = "redact_wait" => <<job.m, "redact">> \notin lost
                      /\ job'.pc = "cloud_wait" => <<job.m, "cloud">> \notin lost
    BY DEF Waits
  <2>1. Current /\ phase = "up" /\ job.m \in Materials
    BY Senders DEF Safe, TokenHolds, RecheckCloud
  <2>2. \A k \in Kinds : <<job.m, k>> \in lost => k = "cloud"
    BY <2>1 DEF Safe, LostParked, Current
  <2>3. <<job.m, "ocr">> \notin lost /\ <<job.m, "redact">> \notin lost
    BY <2>2 DEF Kinds
  <2>4. job'.pc = "cloud_wait" => <<job.m, "cloud">> \notin lost
    BY Senders DEF Safe, ConsentsUsed
  <2> QED BY <2>3, <2>4
<1>2. Inv /\ Safe /\ [Next]_vars => [A]_vars
  BY <1>1
<1> HIDE DEF A
<1>3. Spec => [][A]_vars
  BY <1>2, SafeHolds, PTL DEF Spec
<1> QED BY <1>3 DEF A, NoReplay

\* A consent covers one dispatch of each material it was granted for.
THEOREM ConsentsSpent == Spec => OneDispatchPerConsent
<1> DEFINE A == job.pc # "cloud_wait" /\ job'.pc = "cloud_wait" =>
                  LET c == consent[TaskOf[job.m]] IN
                  /\ c.id = job.cid /\ ~c.expired /\ c.profile = profile
                  /\ <<job.m, mat[job.m].rev, mat[job.m].src>> \in c.grants
                  /\ <<job.cid, job.m>> \notin clouded
<1>1. Inv /\ Safe /\ [Next]_vars => A
  <2> SUFFICES ASSUME Inv, Safe, [Next]_vars, job.pc # "cloud_wait", job'.pc = "cloud_wait"
               PROVE  A
    OBVIOUS
  <2>1. job.pc = "cloud" /\ RecheckCloud
    BY Senders DEF Waits
  <2>2. /\ mat[job.m].rev = job.copy.rev /\ mat[job.m].src = job.copy.src
        /\ consent[TaskOf[job.m]].id = job.cid /\ CloudMatches(consent[TaskOf[job.m]])
    BY <2>1 DEF RecheckCloud, Current
  <2>3. <<job.cid, job.m>> \notin clouded
    BY <2>1 DEF Safe, ConsentsUsed
  <2> QED BY <2>2, <2>3 DEF CloudMatches
<1>2. Inv /\ Safe /\ [Next]_vars => [A]_vars
  BY <1>1
<1> HIDE DEF A
<1>3. Spec => [][A]_vars
  BY <1>2, SafeHolds, PTL DEF Spec
<1> QED BY <1>3 DEF A, OneDispatchPerConsent

\* What the worker and the recovery change, they leave under its revision.
WorkRow(m) ==
  \/ mat'[m] = mat[m]
  \/ mat'[m].rev = mat[m].rev /\ mat[m].status \in {"queued", "running"}

\* finish_locked keeps the revision of the row it is given.
LEMMA FinishedRev ==
  ASSUME NEW m, NEW c \in Material, NEW d, NEW a, NEW waiting
  PROVE  Finished(m, c, d, a, waiting).rev = c.rev
BY DEF Finished, Material

\* The critical section that ends a job.
LEMMA FinishRows ==
  ASSUME Inv, job.pc # "idle", NEW a, NEW waiting, NEW pc, Finish(a, waiting, pc),
         NEW m \in Materials
  PROVE  WorkRow(m)
<1> USE DEF tables, settings, process, history
<1>1. job.m \in Materials /\ job.m # None
  BY BusyWorker DEF Inv
<1>2. CASE ~Current
  BY <1>2 DEF Finish, WorkRow
<1>3. CASE Current
  <2>1. mat[job.m] = job.copy /\ dict[Group(job.m)] = job.g /\ job.copy \in Material
        /\ mat[job.m].status = "running"
    BY <1>1, <1>3, WorkerRow
  <2> DEFINE f == Finished(job.m, job.copy, job.g, a, waiting)
  <2>2. mat' = [mat EXCEPT ![job.m] = f]
    BY <1>3, <2>1 DEF Finish
  <2>3. f.rev = job.copy.rev
    BY <2>1, FinishedRev
  <2> HIDE DEF f
  <2> QED BY <1>1, <2>1, <2>2, <2>3 DEF WorkRow, Inv, TypeOK
<1> QED BY <1>2, <1>3

\* Each step of the worker.
LEMMA WorkerRows ==
  ASSUME Inv, WorkerNext, NEW m \in Materials PROVE WorkRow(m)
<1> USE DEF tables, settings, process, history
<1>1. CASE mat' = mat
  BY <1>1 DEF WorkRow
<1>2. ASSUME NEW n \in Materials, Claim(n) PROVE WorkRow(m)
  BY <1>2 DEF Claim, WorkRow, Inv, TypeOK, Material
<1>3. CASE SaveText
  <2>1. CASE Current
    <3>1. mat' = [mat EXCEPT ![job.m] = [mat[job.m] EXCEPT !.text = job.copy.src]]
      BY <1>3, <2>1 DEF SaveText
    <3> QED BY <2>1, <3>1 DEF WorkRow, Current, Inv, TypeOK, Material
  <2> QED BY <1>1, <1>3, <2>1 DEF SaveText
<1>4. ASSUME NEW review \in BOOLEAN, LocalAnalyze(review) PROVE WorkRow(m)
  <2>1. CASE Current
    <3> DEFINE a == [src |-> job.copy.src, dict |-> job.g, ai |-> FALSE, review |-> review]
    <3>1. mat' = [mat EXCEPT ![job.m] = [job.copy EXCEPT !.text = job.copy.src, !.analysis = a]]
      BY <1>4, <2>1 DEF LocalAnalyze
    <3>2. job.m # None
      BY <1>4, BusyWorker DEF LocalAnalyze, At, Inv
    <3>3. mat[job.m] = job.copy /\ mat[job.m].status = "running" /\ job.copy \in Material
      BY <2>1, <3>2, WorkerRow
    <3> HIDE DEF a
    <3> QED BY <3>1, <3>3 DEF WorkRow, Inv, TypeOK, Material
  <2> QED BY <1>1, <1>4, <2>1 DEF LocalAnalyze
<1>5. CASE AiFinish \/ LocalFinish
  BY <1>5, FinishRows DEF AiFinish, LocalFinish, At
<1>6. CASE Settle
  BY <1>6 DEF Settle, WorkRow, Current, Inv, TypeOK, Material
<1>7. CASE \/ SelectModel \/ ReadLocal \/ ReadAi \/ OcrDispatch \/ OcrSkip \/ OcrReply
           \/ OcrCancelled \/ StageTextReady \/ StageRedaction \/ RedactDispatch
           \/ AiStage \/ ClaimCloud \/ CloudDispatch \/ CloudFail \/ JobError
           \/ \E review \in BOOLEAN : Redacted(review) \/ CloudReply(review)
           \/ \E marked \in BOOLEAN : AiFail(marked)
  <2>1. ASSUME NEW pc, Goto(pc) PROVE mat' = mat
    BY <2>1 DEF Goto
  <2>2. ASSUME NEW name, NEW pc, SaveStage(name, pc) PROVE mat' = mat
    BY <2>2 DEF SaveStage
  <2>3. ASSUME NEW from, NEW to, Dispatch(from, to) PROVE mat' = mat
    BY <2>3 DEF Dispatch
  <2>4. CASE \/ SelectModel \/ ReadLocal \/ OcrSkip \/ OcrReply \/ OcrCancelled
             \/ CloudFail \/ JobError
    BY <1>1, <2>1, <2>4
       DEF SelectModel, ReadLocal, OcrSkip, OcrReply, OcrCancelled, CloudFail, JobError
  <2>5. CASE \/ ReadAi \/ StageTextReady \/ StageRedaction
             \/ \E marked \in BOOLEAN : AiFail(marked)
    BY <1>1, <2>1, <2>2, <2>5 DEF ReadAi, StageTextReady, StageRedaction, AiFail
  <2>6. CASE OcrDispatch \/ RedactDispatch
    BY <1>1, <2>3, <2>6 DEF OcrDispatch, RedactDispatch
  <2>7. CASE \/ AiStage \/ ClaimCloud \/ CloudDispatch
             \/ \E review \in BOOLEAN : Redacted(review) \/ CloudReply(review)
    BY <1>1, <2>7 DEF AiStage, ClaimCloud, CloudDispatch, Redacted, CloudReply
  <2> QED BY <1>7, <2>4, <2>5, <2>6, <2>7
<1> QED BY <1>2, <1>3, <1>4, <1>5, <1>6, <1>7 DEF WorkerNext

\* What a step does to a row.
LEMMA StepRows ==
  ASSUME Inv, Safe, [Next]_vars, NEW m \in Materials
  PROVE  \/ WorkRow(m)
         \/ UserEffect /\ (RowKept(m) \/ SetAside(m) \/ Reviewed(m) \/ Consented(m))
<1> USE DEF tables, settings, process, history
<1>1. CASE UserNext
  BY <1>1, UserNextEffect DEF UserEffect
<1>2. CASE WorkerNext
  BY <1>2, WorkerRows
<1>3. CASE RecoveryNext
  <2>1. ASSUME NEW n \in Materials, RecoverMaterial(n) PROVE WorkRow(m)
    BY <2>1 DEF RecoverMaterial, WorkRow, Inv, TypeOK, Material
  <2>2. ASSUME NEW n \in Materials, RecoverStage(n) PROVE WorkRow(m)
    BY <2>2 DEF RecoverStage, WorkRow, Inv, TypeOK, Material
  <2>3. CASE MaterialsRecovered \/ StagesRecovered
    BY <2>3 DEF MaterialsRecovered, StagesRecovered, WorkRow
  <2> QED BY <1>3, <2>1, <2>2, <2>3 DEF RecoveryNext
<1>4. CASE Crash \/ UNCHANGED vars
  BY <1>4 DEF Crash, vars, WorkRow
<1> QED BY <1>1, <1>2, <1>3, <1>4 DEF Next

\* A manual review keeps the model's findings.
THEOREM ReviewsKeepEvidence == Spec => ReviewKeepsEvidence
<1> DEFINE A == \A m \in Materials :
                  mat'[m].status = "ready" /\ mat'[m].rev # mat[m].rev
                    /\ stage[m].stage # "none"
                    => mat'[m].analysis.ai /\ mat'[m].analysis.src = stage[m].src
<1>1. Inv /\ Safe /\ [Next]_vars => A
  BY StepRows DEF WorkRow, RowKept, SetAside, Reviewed, Consented
<1>2. Inv /\ Safe /\ [Next]_vars => [A]_vars
  BY <1>1
<1> HIDE DEF A
<1>3. Spec => [][A]_vars
  BY <1>2, SafeHolds, PTL DEF Spec
<1> QED BY <1>3 DEF A, ReviewKeepsEvidence

\* A settled row changes only under a new revision.
THEOREM SettledRowsKept == Spec => SettledNeedsRevision
<1> DEFINE A == \A m \in Materials :
                  mat[m].status \in {"ready", "failed", "cancelled", "revoked"}
                    /\ mat'[m] # mat[m]
                    => mat'[m].rev > mat[m].rev
<1>1. Inv /\ Safe /\ [Next]_vars => A
  BY StepRows DEF WorkRow, RowKept, SetAside, Reviewed, Consented
<1>2. Inv /\ Safe /\ [Next]_vars => [A]_vars
  BY <1>1
<1> HIDE DEF A
<1>3. Spec => [][A]_vars
  BY <1>2, SafeHolds, PTL DEF Spec
<1> QED BY <1>3 DEF A, SettledNeedsRevision
=============================================================================
