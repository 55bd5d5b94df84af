------------------------------- MODULE AiRuns -------------------------------
(***************************************************************************)
(* AI runs and the conversation they belong to.  A run is a stored row and *)
(* a background task with its own copy of the row; the task checks and     *)
(* saves it under the workspace gate and dispatches to a provider outside  *)
(* it, while users cancel, delete and continue runs, replace the context   *)
(* of the conversation, revoke or replace the materials and reconfigure    *)
(* the provider.  Sources are original materials; the cancellation token   *)
(* of a run is the only thing these handlers share with its task.          *)
(***************************************************************************)
EXTENDS Naturals, Sequences, FiniteSets

CONSTANTS Runs,       \* run ids, each used once
          Chats,      \* the runs of the conversation; the others are searches
          Sources,    \* materials
          Legacy,     \* materials migrated without length and format
          Faults,     \* SUBSET {"crash", "prompt", "save", "panic"}
          MaxRounds,  \* rounds of one execution (8 in the code)
          MaxContext, \* bound on context replacements
          MaxChange,  \* bound on changes of a material
          MaxProfile  \* bound on provider saves

ASSUME AiRunsAssumption ==
  /\ IsFiniteSet(Runs)
  /\ Chats \subseteq Runs
  /\ Legacy \subseteq Sources
  /\ Faults \subseteq {"crash", "prompt", "save", "panic"}
  /\ MaxRounds \in Nat \ {0}
  /\ {MaxContext, MaxChange, MaxProfile} \subseteq Nat

VARIABLES
  row,   \* [Runs -> Row]: the stored runs
  task,  \* [Runs -> Task]: the background tasks
  tok,   \* [Runs -> {"none", "live", "cancelled"}]: chat_cancellations
  conv,  \* the stored conversation: revision, sources and messages
  mat,   \* [Sources -> Material]: the stored materials
  prov,  \* revision of the provider profile
  sup,   \* [Runs -> {"none", "active", "failed", "completed"}]: the supervisor's record
  up     \* "up", or "down" from a crash until the workspace is open again

vars == <<row, task, tok, conv, mat, prov, sup, up>>

Active == {"queued", "running"}

Ended == {"completed", "paused", "failed", "cancelled", "interrupted"}

\* man is the context manifest (or the selected materials), pin and bound the
\* material revisions and source hashes it was started and read with, msgs
\* whether its messages are built, hist the earlier turns they include.
Row == [status : Active \cup Ended \cup {"none", "deleted"}, rev : Nat,
        man : SUBSET Sources, prov : Nat, pin : [Sources -> Nat],
        bound : [Sources -> Nat], msgs : BOOLEAN, hist : SUBSET Runs]

NoRow == [status |-> "none", rev |-> 0, man |-> {}, prov |-> 0,
          pin |-> [m \in Sources |-> 0], bound |-> [m \in Sources |-> 0],
          msgs |-> FALSE, hist |-> {}]

\* sha is the hash in the row, bytes that of the stored source; meta says whether
\* the row has a length and a format.
Material == [revoked : BOOLEAN, rev : Nat, sha : Nat, bytes : Nat,
             meta : BOOLEAN]

Pcs == {"idle", "admit", "start", "read", "bytes", "backfill", "extract", "history", "built",
        "validate", "round", "slot", "send", "sent", "tool", "toolsave", "final",
        "check", "complete", "append", "pause", "error", "panic", "drop"}

AnySource == CHOOSE m \in Sources : TRUE

\* copy is the task's own run, use what its dispatch is for, seen the profile
\* it was prepared with, snap the material row read, err the error it ends with.
Task == [pc : Pcs, copy : Row, todo : SUBSET Sources, snap : Material,
         m : Sources \cup {AnySource},
         use : {"ocr", "round", "title"}, seen : Nat, n : 0..(MaxRounds + 1),
         err : {"cancelled", "failed"}]

NewMaterial(m) == [revoked |-> FALSE, rev |-> 1, sha |-> 1, bytes |-> 1,
                   meta |-> m \notin Legacy]

Idle == [pc |-> "idle", copy |-> NoRow, todo |-> {}, snap |-> NewMaterial(AnySource),
         m |-> AnySource, use |-> "round", seen |-> 0, n |-> 0, err |-> "failed"]

Message == [role : {"user", "assistant"}, run : Runs, man : SUBSET Sources]

Conversation == [rev : Nat, sources : SUBSET Sources, msgs : Seq(Message),
                 titled : BOOLEAN]

TypeOK ==
  /\ row \in [Runs -> Row]
  /\ task \in [Runs -> Task]
  /\ tok \in [Runs -> {"none", "live", "cancelled"}]
  /\ conv \in Conversation
  /\ mat \in [Sources -> Material]
  /\ prov \in Nat
  /\ sup \in [Runs -> {"none", "active", "failed", "completed"}]
  /\ up \in {"up", "down"}

Init ==
  /\ row = [r \in Runs |-> NoRow]
  /\ task = [r \in Runs |-> Idle]
  /\ tok = [r \in Runs |-> "none"]
  /\ conv = [rev |-> 1, sources |-> {}, msgs |-> <<>>, titled |-> FALSE]
  /\ mat = [m \in Sources |-> NewMaterial(m)]
  /\ prov = 1
  /\ sup = [r \in Runs |-> "none"]
  /\ up = "up"

-----------------------------------------------------------------------------
(* Checks made under the gate. *)

IsActive(r) == row[r].status \in Active

\* Faulty variant: the stored row is not consulted.
StillActive_Unchecked(r) == r \in Chats => task[r].copy.man \subseteq conv.sources

\* The stored row is active at the revision of the task's copy and the
\* conversation still contains the run's manifest.
StillActive(r) ==
  /\ IsActive(r)
  /\ row[r].rev = task[r].copy.rev
  /\ r \in Chats => task[r].copy.man \subseteq conv.sources

\* The provider and the sources are the ones run c is bound to.
BindingsHold(c) ==
  /\ c.prov = prov
  /\ \A m \in c.man : /\ ~mat[m].revoked
                      /\ mat[m].rev = c.pin[m]
                      /\ c.bound[m] \in {0, mat[m].sha}

\* Turns with both messages, each made within the context ctx.
TurnsWithin(ctx) ==
  {r \in Chats : /\ \A i \in 1..Len(conv.msgs) :
                      conv.msgs[i].run = r => conv.msgs[i].man \subseteq ctx
                 /\ \A role \in {"user", "assistant"} :
                      \E i \in 1..Len(conv.msgs) :
                        conv.msgs[i].run = r /\ conv.msgs[i].role = role}

-----------------------------------------------------------------------------
(* The supervisor's records, which the health report counts. *)

Started(r) == sup' = [sup EXCEPT ![r] = "active"]

Failed(r) == sup' = [sup EXCEPT ![r] = "failed"]

\* Joined after a normal return: a recorded failure stays.
Joined(r) == sup' = [sup EXCEPT ![r] = IF @ = "failed" THEN @ ELSE "completed"]

-----------------------------------------------------------------------------
(* User operations. *)

\* Run r, stored as c, gets its task, its token and its supervisor record.
Spawned(r, c) ==
  /\ row' = [row EXCEPT ![r] = c]
  /\ task' = [task EXCEPT ![r] = [Idle EXCEPT !.pc = "admit", !.copy = c]]
  /\ tok' = [tok EXCEPT ![r] = "live"]
  /\ Started(r)

NewRun(S) == [NoRow EXCEPT !.status = "queued", !.rev = 1, !.man = S, !.prov = prov,
                           !.pin = [m \in Sources |-> IF m \in S THEN mat[m].rev ELSE 0]]

\* Faulty variant: a chat run starts while another one is unfinished.
MayStart_Busy(r, S) ==
  /\ up = "up" /\ row[r].status = "none"
  /\ r \in Chats => S = conv.sources
  /\ \A m \in S : ~mat[m].revoked

MayStart(r, S) ==
  /\ up = "up" /\ row[r].status = "none"
  /\ r \in Chats => S = conv.sources /\ ~\E q \in Chats : IsActive(q)
  /\ \A m \in S : ~mat[m].revoked

\* A chat run takes the current manifest, and its prompt joins the conversation.
StartRun(r, S) ==
  /\ MayStart(r, S)
  /\ Spawned(r, NewRun(S))
  /\ conv' = IF r \in Chats
             THEN [conv EXCEPT !.msgs = Append(@, [role |-> "user", run |-> r, man |-> S])]
             ELSE conv
  /\ UNCHANGED <<mat, prov, up>>

\* The run is stored and the conversation cannot be: the request fails and
\* nobody executes the queued run.
StartFails(r, S) ==
  /\ "prompt" \in Faults /\ r \in Chats
  /\ MayStart(r, S)
  /\ row' = [row EXCEPT ![r] = NewRun(S)]
  /\ UNCHANGED <<task, tok, conv, mat, prov, sup, up>>

CancelRun(r) ==
  /\ up = "up" /\ IsActive(r)
  /\ row' = [row EXCEPT ![r].status = "cancelled", ![r].rev = @ + 1]
  /\ tok' = [tok EXCEPT ![r] = IF @ = "live" THEN "cancelled" ELSE @]
  /\ UNCHANGED <<task, conv, mat, prov, sup, up>>

DeleteRun(r) ==
  /\ up = "up" /\ row[r].status \in Ended
  /\ row' = [row EXCEPT ![r].status = "deleted"]
  /\ UNCHANGED <<task, tok, conv, mat, prov, sup, up>>

\* A search that did not complete goes on under the fresh id n with the
\* messages and bindings of r; a completed one is started again.
ContinueRun(r, n) ==
  /\ up = "up" /\ r \notin Chats /\ n \notin Chats /\ row[n].status = "none"
  /\ row[r].status \in Ended
  /\ BindingsHold(row[r])
  /\ Spawned(n, IF row[r].status = "completed" THEN NewRun(row[r].man)
                ELSE [row[r] EXCEPT !.status = "queued", !.rev = @ + 1])
  /\ UNCHANGED <<conv, mat, prov, up>>

\* The unfinished runs whose manifest the new context does not contain.
Deselected(S) == {r \in Chats : IsActive(r) /\ ~(row[r].man \subseteq S)}

ReplaceContext(S) ==
  LET gone == Deselected(S) IN
  /\ up = "up" /\ conv.rev <= MaxContext
  /\ conv' = [conv EXCEPT !.rev = @ + 1, !.sources = S]
  /\ row' = [r \in Runs |-> IF r \in gone
                            THEN [row[r] EXCEPT !.status = "cancelled", !.rev = @ + 1]
                            ELSE row[r]]
  /\ tok' = [r \in Runs |-> IF r \in gone /\ tok[r] = "live" THEN "cancelled" ELSE tok[r]]
  /\ UNCHANGED <<task, mat, prov, sup, up>>

AllCancelled == tok' = [r \in Runs |-> IF tok[r] = "live" THEN "cancelled" ELSE tok[r]]

RevokeMaterial(m) ==
  /\ up = "up" /\ mat[m].rev <= MaxChange
  /\ mat' = [mat EXCEPT ![m].revoked = TRUE, ![m].rev = @ + 1]
  /\ AllCancelled
  /\ UNCHANGED <<row, task, conv, prov, sup, up>>

ReplaceMaterial(m) ==
  /\ up = "up" /\ mat[m].rev <= MaxChange
  /\ mat' = [mat EXCEPT ![m] = [revoked |-> FALSE, rev |-> @.rev + 1, sha |-> @.bytes + 1,
                                bytes |-> @.bytes + 1, meta |-> TRUE]]
  /\ AllCancelled
  /\ UNCHANGED <<row, task, conv, prov, sup, up>>

\* A review decision or a retry: a new revision of the same source.
ReviseMaterial(m) ==
  /\ up = "up" /\ mat[m].rev <= MaxChange /\ ~mat[m].revoked
  /\ mat' = [mat EXCEPT ![m].rev = @ + 1]
  /\ UNCHANGED <<row, task, tok, conv, prov, sup, up>>

SaveProvider ==
  /\ up = "up" /\ prov <= MaxProfile
  /\ prov' = prov + 1
  /\ AllCancelled
  /\ UNCHANGED <<row, task, conv, mat, sup, up>>

-----------------------------------------------------------------------------
(* The background task. *)

At(r, pc) == up = "up" /\ task[r].pc = pc

Cancelled(r) == tok[r] = "cancelled"

\* The task goes to pc; nothing else changes.
Goto(r, pc) ==
  /\ task' = [task EXCEPT ![r].pc = pc]
  /\ UNCHANGED <<row, tok, conv, mat, prov, sup, up>>

\* execute_ai_run returns an error; the supervisor records it unless the run was
\* cancelled.
Fail(r, err) ==
  /\ task' = [task EXCEPT ![r] = [Idle EXCEPT !.pc = "error", !.err = err]]
  /\ IF err = "cancelled" THEN UNCHANGED sup ELSE Failed(r)
  /\ UNCHANGED <<row, tok, conv, mat, prov, up>>

\* The error of a run that is no longer active.
Refused(r) == Fail(r, IF row[r].status = "cancelled" THEN "cancelled" ELSE "failed")

\* save_run_progress with the task's copy c, then on to pc.
SaveProgress(r, c, pc) ==
  IF StillActive(r)
  THEN /\ row' = [row EXCEPT ![r] = c]
       /\ task' = [task EXCEPT ![r].pc = pc, ![r].copy = c]
       /\ UNCHANGED <<tok, conv, mat, prov, sup, up>>
  ELSE Refused(r)

\* validate_run_bindings, then on to pc.
Validate(r, pc) ==
  IF ~StillActive(r) THEN Refused(r)
  ELSE IF BindingsHold(task[r].copy) THEN Goto(r, pc) ELSE Fail(r, "failed")

\* The reservation becomes active, or the token is cancelled first.
Admit(r) ==
  /\ At(r, "admit")
  /\ IF Cancelled(r) THEN Fail(r, "cancelled") ELSE Goto(r, "start")

Start(r) ==
  /\ At(r, "start")
  /\ IF StillActive(r)
     THEN LET c == [task[r].copy EXCEPT !.status = "running"] IN
          /\ row' = [row EXCEPT ![r] = c]
          /\ task' = [task EXCEPT ![r].copy = c, ![r].todo = c.man, ![r].n = 1,
                                  ![r].pc = IF c.msgs THEN "validate" ELSE "read"]
          /\ UNCHANGED <<tok, conv, mat, prov, sup, up>>
     ELSE Refused(r)

\* The row of the next source is read without the gate.
Read(r) ==
  /\ At(r, "read") /\ task[r].todo # {}
  /\ \E m \in task[r].todo :
       IF mat[m].revoked \/ mat[m].rev # task[r].copy.pin[m]
       THEN Fail(r, "failed")
       ELSE /\ task' = [task EXCEPT ![r].pc = "bytes", ![r].m = m,
                                    ![r].snap = mat[m],
                                    ![r].todo = @ \ {m},
                                    ![r].copy.bound[m] = mat[m].sha]
            /\ UNCHANGED <<row, tok, conv, mat, prov, sup, up>>

\* The text kept in the row, or source bytes with the hash of the row read.
ReadBytes(r) ==
  /\ At(r, "bytes")
  /\ \/ Goto(r, IF task[r].snap.meta THEN "extract" ELSE "backfill")
     \/ mat[task[r].m].bytes # task[r].snap.sha /\ Fail(r, "failed")

\* A migrated row gets its length and format: the row read is written back
\* under the gate.
Backfill(r) ==
  /\ At(r, "backfill")
  /\ mat' = [mat EXCEPT ![task[r].m] = [task[r].snap EXCEPT !.meta = TRUE,
                                                             !.bytes = mat[task[r].m].bytes]]
  /\ task' = [task EXCEPT ![r].pc = "extract"]
  /\ UNCHANGED <<row, tok, conv, prov, sup, up>>

\* A scanned source goes to the provider for OCR; one that cannot be read ends
\* the run.
Extract(r) ==
  /\ At(r, "extract")
  /\ \/ /\ \E pc \in {"read", "slot"} :
             task' = [task EXCEPT ![r].pc = pc, ![r].use = "ocr", ![r].snap = Idle.snap,
                                  ![r].m = AnySource]
        /\ UNCHANGED <<row, tok, conv, mat, prov, sup, up>>
     \/ Fail(r, "failed")

AllRead(r) ==
  /\ At(r, "read") /\ task[r].todo = {}
  /\ Goto(r, "history")

\* The conversation is read once, without the gate: earlier turns within its
\* present context join the messages.
History(r) ==
  /\ At(r, "history")
  /\ \E H \in SUBSET (IF r \in Chats THEN TurnsWithin(conv.sources) ELSE {}) :
       task' = [task EXCEPT ![r].pc = "built", ![r].copy.msgs = TRUE, ![r].copy.hist = H]
  /\ UNCHANGED <<row, tok, conv, mat, prov, sup, up>>

Built(r) == At(r, "built") /\ SaveProgress(r, task[r].copy, "validate")

ValidateRound(r) == At(r, "validate") /\ Validate(r, "round")

Round(r) ==
  /\ At(r, "round")
  /\ IF StillActive(r)
     THEN /\ row' = [row EXCEPT ![r] = task[r].copy]
          /\ task' = [task EXCEPT ![r].pc = "slot", ![r].use = "round"]
          /\ UNCHANGED <<tok, conv, mat, prov, sup, up>>
     ELSE Refused(r)

\* The caller's view of a dispatch that ends without an answer: a title is
\* given up, anything else ends the run.
NoAnswer(r, err) == IF task[r].use = "title" THEN Goto(r, "drop") ELSE Fail(r, err)

\* A transport slot, then the provider snapshot under the gate.
TakeSlot(r) ==
  /\ At(r, "slot")
  /\ IF Cancelled(r) THEN NoAnswer(r, "cancelled")
     ELSE /\ task' = [task EXCEPT ![r].pc = "send", ![r].seen = prov]
          /\ UNCHANGED <<row, tok, conv, mat, prov, sup, up>>

\* Faulty variant: the token is not looked at under the gate.
Send_NoToken(r) ==
  /\ At(r, "send")
  /\ IF prov # task[r].seen THEN NoAnswer(r, "failed") ELSE Goto(r, "sent")

\* The last check, under the gate, before the request leaves.
Send(r) ==
  /\ At(r, "send")
  /\ IF Cancelled(r) THEN NoAnswer(r, "cancelled")
     ELSE IF prov # task[r].seen THEN NoAnswer(r, "failed") ELSE Goto(r, "sent")

\* No usable answer: cancelled, refused, timed out, truncated or malformed.
SendFails(r) ==
  /\ At(r, "sent")
  /\ NoAnswer(r, IF Cancelled(r) THEN "cancelled" ELSE "failed")

\* The next round, or a pause after the last one.
NextRound(r) ==
  [task[r] EXCEPT !.n = @ + 1, !.seen = 0,
                  !.pc = IF task[r].n = MaxRounds THEN "pause" ELSE "validate"]

\* An answer under the profile of the request.  A round's answer asks for legal
\* tools, is final, has to be repaired, or asks for too many tools.
Answer(r) ==
  /\ At(r, "sent") /\ ~Cancelled(r) /\ prov = task[r].seen
  /\ CASE task[r].use = "ocr" -> /\ task' = [task EXCEPT ![r].pc = "read", ![r].seen = 0]
                                 /\ UNCHANGED conv
       [] task[r].use = "title" -> /\ task' = [task EXCEPT ![r].pc = "drop"]
                                   /\ conv' = [conv EXCEPT !.titled = TRUE]
       [] task[r].use = "round" -> /\ \/ task' = [task EXCEPT ![r].pc = "tool", ![r].seen = 0]
                                      \/ task' = [task EXCEPT ![r].pc = "final", ![r].seen = 0]
                                      \/ task' = [task EXCEPT ![r] = NextRound(r)]
                                      \/ task' = [task EXCEPT ![r].pc = "pause", ![r].seen = 0]
                                   /\ UNCHANGED conv
  /\ UNCHANGED <<row, tok, mat, prov, sup, up>>

\* A legal tool: the token, the bindings, then the tool itself.
Tool(r) ==
  /\ At(r, "tool")
  /\ IF Cancelled(r) THEN Fail(r, "cancelled") ELSE Validate(r, "toolsave")

ToolSaved(r) ==
  /\ At(r, "toolsave")
  /\ IF StillActive(r)
     THEN /\ row' = [row EXCEPT ![r] = task[r].copy]
          /\ task' = [task EXCEPT ![r] = NextRound(r)]
          /\ UNCHANGED <<tok, conv, mat, prov, sup, up>>
     ELSE Refused(r)

ValidateFinal(r) == At(r, "final") /\ Validate(r, "check")

CheckFinal(r) ==
  /\ At(r, "check")
  /\ IF Cancelled(r) THEN Fail(r, "cancelled") ELSE Goto(r, "complete")

Complete(r) ==
  /\ At(r, "complete")
  /\ SaveProgress(r, [task[r].copy EXCEPT !.status = "completed"],
                  IF r \in Chats THEN "append" ELSE "drop")

Pause(r) ==
  /\ At(r, "pause")
  /\ SaveProgress(r, [task[r].copy EXCEPT !.status = "paused"], "drop")

\* Faulty variant: the answer joins the conversation without a look for it.
AppendAnswer_Twice(r) ==
  /\ At(r, "append")
  /\ conv' = [conv EXCEPT !.msgs = @ \o
        <<[role |-> "assistant", run |-> r, man |-> task[r].copy.man],
          [role |-> "assistant", run |-> r, man |-> task[r].copy.man]>>]
  /\ task' = [task EXCEPT ![r].pc = "drop"]
  /\ UNCHANGED <<row, tok, mat, prov, sup, up>>

\* The answer joins the conversation in a second transaction; a conversation
\* without a title asks the model for one.
AppendAnswer(r) ==
  LET answer == [role |-> "assistant", run |-> r, man |-> task[r].copy.man] IN
  /\ At(r, "append")
  /\ conv' = [conv EXCEPT !.msgs = IF \E i \in 1..Len(@) : @[i] = answer
                                     THEN @ ELSE Append(@, answer)]
  /\ task' = [task EXCEPT ![r].pc = IF conv.titled THEN "drop" ELSE "slot",
                          ![r].use = "title"]
  /\ UNCHANGED <<row, tok, mat, prov, sup, up>>

\* finish_ai_run_error_if_active: what the row's status becomes.
Finished(r) ==
  IF ~IsActive(r) THEN row[r].status
  ELSE IF task[r].err = "cancelled" THEN "cancelled" ELSE "failed"

FinishError(r, pc) ==
  /\ row' = [row EXCEPT ![r].status = Finished(r),
                        ![r].rev = IF row[r].status = Finished(r) THEN @ ELSE @ + 1]
  /\ task' = [task EXCEPT ![r].pc = pc]
  /\ UNCHANGED <<tok, conv, mat, prov, up>>

\* The task ends with an error; a failed save of it is ignored.
Error(r) ==
  /\ At(r, "error")
  /\ \/ FinishError(r, "drop") /\ UNCHANGED sup
     \/ "save" \in Faults /\ Goto(r, "drop")

\* The task panics anywhere; its supervisor records it and ends the run, or fails
\* to save that, and the token stays.
Panic(r) ==
  /\ "panic" \in Faults /\ up = "up"
  /\ task[r].pc \notin {"idle", "panic"}
  /\ task' = [task EXCEPT ![r] = [Idle EXCEPT !.pc = "panic"]]
  /\ UNCHANGED <<row, tok, conv, mat, prov, sup, up>>

Panicked(r) ==
  /\ At(r, "panic")
  /\ Failed(r)
  /\ \/ FinishError(r, "idle")
     \/ /\ "save" \in Faults
        /\ task' = [task EXCEPT ![r].pc = "idle"]
        /\ UNCHANGED <<row, tok, conv, mat, prov, up>>

\* The token is removed and the supervisor joins the task.
Drop(r) ==
  /\ At(r, "drop")
  /\ Joined(r)
  /\ tok' = [tok EXCEPT ![r] = "none"]
  /\ task' = [task EXCEPT ![r] = Idle]
  /\ UNCHANGED <<row, conv, mat, prov, up>>

-----------------------------------------------------------------------------
(* Crash and restart. *)

Crash ==
  /\ "crash" \in Faults /\ up = "up"
  /\ up' = "down"
  /\ task' = [r \in Runs |-> Idle]
  /\ tok' = [r \in Runs |-> "none"]
  /\ sup' = [r \in Runs |-> "none"]
  /\ UNCHANGED <<row, conv, mat, prov>>

\* Faulty variant: queued runs are left as they are.
Recover_Running(r) ==
  /\ up = "down" /\ row[r].status = "running"
  /\ row' = [row EXCEPT ![r].status = "interrupted"]
  /\ UNCHANGED <<task, tok, conv, mat, prov, sup, up>>

\* recover_ai_runs, one save per run.
Recover(r) ==
  /\ up = "down" /\ IsActive(r)
  /\ row' = [row EXCEPT ![r].status = "interrupted"]
  /\ UNCHANGED <<task, tok, conv, mat, prov, sup, up>>

\* The workspace opens when every listed run has been saved.
Opened_Early == up = "down"

Opened == up = "down" /\ ~\E r \in Runs : IsActive(r)

Open ==
  /\ Opened
  /\ up' = "up"
  /\ UNCHANGED <<row, task, tok, conv, mat, prov, sup>>

-----------------------------------------------------------------------------
Work(r) ==
  \/ Admit(r) \/ Start(r) \/ Read(r) \/ ReadBytes(r) \/ Backfill(r) \/ Extract(r)
  \/ AllRead(r) \/ History(r) \/ Built(r) \/ ValidateRound(r) \/ Round(r) \/ TakeSlot(r) \/ Send(r)
  \/ SendFails(r) \/ Answer(r) \/ Tool(r) \/ ToolSaved(r) \/ ValidateFinal(r)
  \/ CheckFinal(r) \/ Complete(r) \/ Pause(r) \/ AppendAnswer(r) \/ Error(r)
  \/ Panicked(r) \/ Drop(r)

Restart == Open \/ \E r \in Runs : Recover(r)

Next ==
  \/ \E r \in Runs, S \in SUBSET Sources : StartRun(r, S) \/ StartFails(r, S)
  \/ \E r \in Runs : CancelRun(r) \/ DeleteRun(r)
  \/ \E r, n \in Runs : ContinueRun(r, n)
  \/ \E S \in SUBSET Sources : ReplaceContext(S)
  \/ \E m \in Sources : RevokeMaterial(m) \/ ReplaceMaterial(m) \/ ReviseMaterial(m)
  \/ SaveProvider
  \/ \E r \in Runs : Work(r) \/ Panic(r)
  \/ Crash \/ Restart

Spec == Init /\ [][Next]_vars

\* Tasks are scheduled, a dispatch ends (the client has timeouts), and a
\* workspace that went down is opened again.
FairSpec == Spec /\ (\A r \in Runs : WF_vars(Work(r))) /\ WF_vars(Restart)

-----------------------------------------------------------------------------
(* Properties. *)

\* start_ai_run's busy check and the gate: one unfinished run per conversation,
\* also after failed saves, panics and restarts.
OneTurn == Cardinality({r \in Chats : IsActive(r)}) <= 1

\* Every answer in the conversation follows its own prompt, is there once, and
\* belongs to a run that completed (or was deleted since): finish_ai_chat runs
\* outside the transaction that completes the run.
AnswersFollow ==
  \A i \in 1..Len(conv.msgs) :
    conv.msgs[i].role = "assistant" =>
      /\ row[conv.msgs[i].run].status \in {"completed", "deleted"}
      /\ \E j \in 1..(i - 1) : /\ conv.msgs[j].run = conv.msgs[i].run
                               /\ conv.msgs[j].role = "user"
      /\ ~\E j \in 1..(i - 1) : conv.msgs[j] = conv.msgs[i]

\* An unfinished turn whose prompt could not be saved.
Unprompted(r) ==
  /\ r \in Chats /\ IsActive(r)
  /\ ~\E i \in 1..Len(conv.msgs) : conv.msgs[i].run = r

\* Besides types: unless its prompt or its end could not be saved, an unfinished
\* run has a task with a token a user can cancel, so that recovery and the
\* supervisor leave no run behind; one without a prompt never gets a task.  The
\* runs the health report counts as active are those whose task has not ended,
\* and a run that failed is never one it takes for completed.
Owned ==
  /\ TypeOK
  /\ up = "up" => \A r \in Runs :
       /\ IsActive(r) => IF Unprompted(r) THEN task[r].pc = "idle"
                         ELSE task[r].pc # "idle" /\ tok[r] # "none"
       /\ task[r].pc # "idle" => sup[r] \in {"active", "failed"}
       /\ task[r].pc = "idle" => sup[r] # "active"
       /\ sup[r] = "completed" => row[r].status \notin Active \cup {"failed"}

\* A worker's save, the error path and the panic handler never bring an ended
\* run back or change what it saved: it stays as it is until it is deleted.
EndedStays ==
  [][\A r \in Runs : row[r].status \in Ended =>
       row'[r] \in {row[r], [row[r] EXCEPT !.status = "deleted"]}]_vars

\* The request of a round (and of OCR) that leaves is the one of an unfinished
\* run under the profile it was started with, of sources in their bound version
\* that are not revoked and that the conversation still selects, although these
\* were last checked before the wait for a slot.
SentBound ==
  [][\A r \in Runs :
       task[r].pc = "send" /\ task'[r].pc = "sent" /\ task[r].use # "title" =>
         LET c == task[r].copy IN
         /\ IsActive(r)
         /\ c.prov = prov
         /\ r \in Chats => c.man \subseteq conv.sources
         /\ \A m \in c.man : c.bound[m] # 0 => ~mat[m].revoked /\ c.bound[m] = mat[m].sha]_vars

\* "Later context excludes the corresponding history turns": a round that leaves
\* carries no earlier turn made with a source the conversation does not select.
SentHistory ==
  [][\A r \in Runs :
       task[r].pc = "send" /\ task'[r].pc = "sent" /\ task[r].use = "round" =>
         \A q \in task[r].copy.hist : row[q].man \subseteq conv.sources]_vars

\* "Sending is blocked after a revocation or a change of the material": a
\* material row never returns to an earlier revision.
MaterialAdvances == [][\A m \in Sources : mat'[m].rev >= mat[m].rev]_vars

\* Every run that is started with its prompt ends, whatever the users, the
\* provider, panics and crashes do.
Settles == \A r \in Runs : IsActive(r) /\ ~Unprompted(r) ~> ~IsActive(r)
=============================================================================
