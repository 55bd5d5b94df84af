---------------------------- MODULE AiRunsProofs ----------------------------
(***************************************************************************)
(* TLAPS proofs about AiRuns, for every set of runs, turns and sources,    *)
(* every set of faults and every bound.                                    *)
(***************************************************************************)
EXTENDS AiRuns, FiniteSetTheorems, SequenceTheorems, TLAPS

\* A message of role `role` of run r is in the conversation.
Said(r, role) == \E i \in 1..Len(conv.msgs) : conv.msgs[i].run = r /\ conv.msgs[i].role = role

\* The run is completed for its task: the answer, the title and the end remain.
Closing(r) == task[r].pc = "append" \/ task[r].use = "title"

\* The task executes its run.
Working(r) ==
  /\ task[r].pc \notin {"idle", "append", "drop", "error", "panic"}
  /\ task[r].use # "title"

\* The locals of a task and the row it works on.
TaskOK(r) ==
  /\ task[r].n <= MaxRounds \/ task[r].pc \in {"pause", "drop"}
  /\ task[r].use = "title" => task[r].pc \in {"slot", "send", "sent", "drop"}
  /\ Working(r) => task[r].copy.status \in Active
  /\ Closing(r) => r \in Chats /\ row[r].status \in {"completed", "deleted"}
  /\ r \in Chats /\ task[r].pc # "idle" => Said(r, "user")
  /\ row[r].status = "none" => /\ task[r].pc = "idle" /\ tok[r] = "none" /\ sup[r] = "none"
                               /\ \A i \in 1..Len(conv.msgs) : conv.msgs[i].run # r
  /\ up = "down" => task[r].pc = "idle" /\ tok[r] = "none" /\ sup[r] = "none"

\* The supervisor's record of a task.
SupOK(r) ==
  /\ up = "up" /\ task[r].pc # "idle" => tok[r] # "none" /\ sup[r] \in {"active", "failed"}
  /\ task[r].pc = "idle" => sup[r] # "active"
  /\ task[r].pc = "error" /\ task[r].err = "failed" => sup[r] = "failed"

\* Without failed saves of its end, a run whose task is past its end, or gone, has
\* ended, and one that failed is recorded so.
EndOK(r) ==
  /\ up = "up" /\ IsActive(r) /\ task[r].pc \in {"idle", "drop"} =>
       task[r].pc = "idle" /\ Unprompted(r)
  /\ row[r].status = "failed" => sup[r] \in {"failed", "none"}
  /\ sup[r] = "completed" => row[r].status \notin Active \cup {"failed"}

\* As long as its token is live, a task works on an unfinished row with its own
\* manifest, under the provider of its start, with sources as they were read.
LiveOK(r) ==
  Working(r) /\ tok[r] = "live" =>
    LET c == task[r].copy IN
    /\ IsActive(r)
    /\ row[r].man = c.man
    /\ c.prov = prov
    /\ r \in Chats => c.man \subseteq conv.sources
    /\ \A m \in c.man : c.bound[m] # 0 => ~mat[m].revoked /\ c.bound[m] = mat[m].sha

\* There is nothing to write back.
NoBackfill ==
  /\ \A m \in Sources : mat[m].meta
  /\ \A r \in Runs : task[r].snap.meta /\ task[r].pc # "backfill"

Inv == TypeOK /\ \A r \in Runs : TaskOK(r) /\ SupOK(r)

OneActive == \A r, q \in Chats : IsActive(r) /\ IsActive(q) => r = q

EndInv == Inv /\ \A r \in Runs : EndOK(r)

LiveInv == Inv /\ NoBackfill /\ \A r \in Runs : LiveOK(r)
-----------------------------------------------------------------------------
(* Types. *)

\* The records of a run and a task that start from nothing.
LEMMA IdleTypes == NoRow \in Row /\ Idle \in Task /\ Idle.snap \in Material
<1>1. NoRow \in Row
  BY DEF NoRow, Row
<1>2. NewMaterial(AnySource) \in Material
  BY DEF NewMaterial, Material
<1>3. 0 \in 0..(MaxRounds + 1)
  BY AiRunsAssumption
<1> QED BY <1>1, <1>2, <1>3 DEF Idle, Task, Pcs

\* A row with another status or revision is a row.
LEMMA RowEdits ==
  ASSUME NEW c \in Row
  PROVE  /\ c.rev + 1 \in Nat
         /\ \A s \in Active \cup Ended \cup {"none", "deleted"} :
              /\ [c EXCEPT !.status = s] \in Row
              /\ [c EXCEPT !.status = s].status = s
              /\ [c EXCEPT !.status = s].man = c.man
              /\ [c EXCEPT !.status = s].prov = c.prov
              /\ [c EXCEPT !.status = s].bound = c.bound
              /\ [c EXCEPT !.status = s].rev = c.rev
              /\ \A n \in Nat : /\ [c EXCEPT !.status = s, !.rev = n] \in Row
                                /\ [c EXCEPT !.status = s, !.rev = n].status = s
<1> DEFINE St == Active \cup Ended \cup {"none", "deleted"}
<1>1. c.rev + 1 \in Nat
  BY DEF Row
<1>2. ASSUME NEW s \in St
      PROVE  /\ [c EXCEPT !.status = s] \in Row
             /\ [c EXCEPT !.status = s].status = s
             /\ [c EXCEPT !.status = s].man = c.man
             /\ [c EXCEPT !.status = s].prov = c.prov
             /\ [c EXCEPT !.status = s].bound = c.bound
             /\ [c EXCEPT !.status = s].rev = c.rev
  BY DEF Row
<1>3. ASSUME NEW s \in St, NEW n \in Nat
      PROVE  /\ [c EXCEPT !.status = s, !.rev = n] \in Row
             /\ [c EXCEPT !.status = s, !.rev = n].status = s
  BY DEF Row
<1> QED BY <1>1, <1>2, <1>3

\* A task that goes elsewhere is a task.
LEMMA TaskEdits ==
  ASSUME NEW t \in Task, NEW pc \in Pcs
  PROVE  /\ [t EXCEPT !.pc = pc] \in Task
         /\ \A c \in Row : [t EXCEPT !.pc = pc, !.copy = c] \in Task
         /\ t.copy \in Row /\ t.n \in 0..(MaxRounds + 1) /\ t.snap \in Material
BY DEF Task

\* A new run of the sources S is a queued row without bindings.
LEMMA NewRunType ==
  ASSUME TypeOK, NEW S \in SUBSET Sources
  PROVE  /\ NewRun(S) \in Row /\ NewRun(S).status = "queued"
         /\ NewRun(S).man = S /\ NewRun(S).prov = prov
         /\ \A m \in Sources : NewRun(S).bound[m] = 0
<1>1. [m \in Sources |-> IF m \in S THEN mat[m].rev ELSE 0] \in [Sources -> Nat]
  BY DEF TypeOK, Material
<1>2. prov \in Nat
  BY DEF TypeOK
<1> QED BY <1>1, <1>2 DEF NewRun, NoRow, Row, Active

-----------------------------------------------------------------------------
(* Steps of one task. *)

\* The records of run q are left alone.
Untouched(q) ==
  row'[q] = row[q] /\ task'[q] = task[q] /\ tok'[q] = tok[q] /\ sup'[q] = sup[q]

\* The conversation keeps its messages and may get one of run r.
Grows(r) ==
  /\ \A i \in 1..Len(conv.msgs) :
       i \in 1..Len(conv'.msgs) /\ conv'.msgs[i] = conv.msgs[i]
  /\ \A i \in 1..Len(conv'.msgs) : i \in 1..Len(conv.msgs) \/ conv'.msgs[i].run = r

\* A step about run r is nothing to another one.
LEMMA Others ==
  ASSUME NEW r \in Runs, NEW q \in Runs, q # r, TaskOK(q), SupOK(q),
         Untouched(q), Grows(r), up' = up
  PROVE  TaskOK(q)' /\ SupOK(q)'
<1>1. Said(q, "user") => Said(q, "user")'
  BY DEF Grows, Said
<1>2. ASSUME \A i \in 1..Len(conv.msgs) : conv.msgs[i].run # q
      PROVE  \A i \in 1..Len(conv'.msgs) : conv'.msgs[i].run # q
  BY <1>2 DEF Grows
<1>3. TaskOK(q)'
  BY <1>1, <1>2 DEF TaskOK, Untouched, Working, Closing
<1>4. SupOK(q)'
  BY DEF SupOK, Untouched
<1> QED BY <1>3, <1>4

\* What a task may become that goes on or drops.
Onward(r, t) ==
  /\ t \in Task
  /\ t.pc \notin {"idle", "panic", "error", "append"}
  /\ t.n <= MaxRounds \/ t.pc \in {"pause", "drop"}
  /\ t.use = "title" => t.pc \in {"slot", "send", "sent", "drop"} /\ Closing(r)
  /\ t.pc # "drop" /\ t.use # "title" => t.copy.status \in Active

\* Only the locals of r and the title of the conversation change.
Moves(r, t) ==
  /\ task' = [task EXCEPT ![r] = t]
  /\ conv' \in {conv, [conv EXCEPT !.titled = TRUE]}
  /\ UNCHANGED <<row, tok, mat, prov, sup, up>>

\* Such a step keeps the invariant.
LEMMA MoveStep ==
  ASSUME Inv, NEW r \in Runs, up = "up", task[r].pc # "idle", NEW t, Onward(r, t), Moves(r, t)
  PROVE  Inv'
<1>1. /\ \A q \in Runs : q # r => Untouched(q)
      /\ task'[r] = t /\ row'[r] = row[r] /\ tok'[r] = tok[r] /\ sup'[r] = sup[r]
  BY DEF Moves, Inv, TypeOK, Untouched
<1>2. Grows(r) /\ conv' \in Conversation /\ conv'.msgs = conv.msgs
  <2>1. conv \in Conversation
    BY DEF Inv, TypeOK
  <2> QED BY <2>1 DEF Moves, Grows, Conversation
<1>3. TypeOK'
  BY <1>2 DEF Inv, TypeOK, Moves, Onward
<1>4. TaskOK(r)'
  BY <1>1, <1>2 DEF Inv, TaskOK, Onward, Moves, Closing, Working, Said
<1>5. SupOK(r)'
  BY <1>1 DEF Inv, SupOK, Onward, Moves
<1>6. \A q \in Runs : q # r => TaskOK(q)' /\ SupOK(q)'
  BY <1>1, <1>2, Others DEF Inv, Moves
<1> QED BY <1>3, <1>4, <1>5, <1>6 DEF Inv

\* execute_ai_run gives up: the task turns to its error path.
LEMMA FailStep ==
  ASSUME Inv, NEW r \in Runs, up = "up", task[r].pc \notin {"idle"},
         NEW err \in {"cancelled", "failed"}, Fail(r, err)
  PROVE  Inv'
<1> DEFINE t == [Idle EXCEPT !.pc = "error", !.err = err]
<1>1. /\ t \in Task /\ t.pc = "error" /\ t.err = err /\ t.n = 0 /\ t.use = "round"
  BY IdleTypes DEF Idle, Task, Pcs
<1> HIDE DEF t
<1>2. /\ task' = [task EXCEPT ![r] = t]
      /\ sup' \in {sup, [sup EXCEPT ![r] = "failed"]}
      /\ err = "failed" => sup' = [sup EXCEPT ![r] = "failed"]
      /\ UNCHANGED <<row, tok, conv, mat, prov, up>>
  BY DEF Fail, Failed, t
<1>3. /\ \A q \in Runs : q # r => Untouched(q)
      /\ task'[r] = t /\ row'[r] = row[r] /\ tok'[r] = tok[r]
      /\ sup'[r] \in {sup[r], "failed"}
      /\ err = "failed" => sup'[r] = "failed"
  BY <1>2 DEF Inv, TypeOK, Untouched
<1>4. Grows(r)
  BY <1>2 DEF Grows
<1>5. TypeOK'
  BY <1>1, <1>2 DEF Inv, TypeOK
<1>6. TaskOK(r)'
  BY <1>1, <1>2, <1>3, AiRunsAssumption DEF Inv, TaskOK, Closing, Working, Said
<1>7. SupOK(r)'
  BY <1>1, <1>2, <1>3 DEF Inv, SupOK
<1>8. \A q \in Runs : q # r => TaskOK(q)' /\ SupOK(q)'
  BY <1>2, <1>3, <1>4, Others DEF Inv
<1> QED BY <1>5, <1>6, <1>7, <1>8 DEF Inv

\* A run that is not active any more.
LEMMA RefusedStep ==
  ASSUME Inv, NEW r \in Runs, up = "up", task[r].pc # "idle", Refused(r)
  PROVE  Inv'
BY FailStep DEF Refused

\* The task saves the row c and goes on as t.
Saves(r, c, t) ==
  /\ row' = [row EXCEPT ![r] = c]
  /\ task' = [task EXCEPT ![r] = t]
  /\ UNCHANGED <<tok, conv, mat, prov, sup, up>>

\* A save of a task keeps the invariant.
LEMMA SaveStep ==
  ASSUME Inv, NEW r \in Runs, up = "up", task[r].pc # "idle", IsActive(r),
         NEW c \in Row, c.status \in Active \cup Ended, NEW t, Saves(r, c, t),
         \/ Onward(r, t) /\ t.use # "title"
         \/ /\ t \in Task /\ t.pc = "append" /\ t.n <= MaxRounds /\ t.use # "title"
            /\ r \in Chats /\ c.status = "completed"
  PROVE  Inv'
<1>1. /\ \A q \in Runs : q # r => Untouched(q)
      /\ task'[r] = t /\ row'[r] = c /\ tok'[r] = tok[r] /\ sup'[r] = sup[r]
  BY DEF Saves, Inv, TypeOK, Untouched
<1>2. Grows(r)
  BY DEF Saves, Grows
<1>3. TypeOK'
  BY DEF Inv, TypeOK, Saves, Onward
<1>4. TaskOK(r)'
  BY <1>1 DEF Inv, TaskOK, Onward, Saves, Closing, Working, Said, Active, Ended
<1>5. SupOK(r)'
  BY <1>1 DEF Inv, SupOK, Onward, Saves
<1>6. \A q \in Runs : q # r => TaskOK(q)' /\ SupOK(q)'
  BY <1>1, <1>2, Others DEF Inv, Saves
<1> QED BY <1>3, <1>4, <1>5, <1>6 DEF Inv

\* finish_ai_run_error_if_active leaves a row that has ended.
LEMMA FinishedRow ==
  ASSUME TypeOK, NEW r \in Runs, row[r].status # "none",
         NEW pc \in Pcs, FinishError(r, pc)
  PROVE  /\ row' \in [Runs -> Row]
         /\ row'[r].status \notin Active \cup {"none"}
         /\ \A q \in Runs : q # r => row'[q] = row[q]
         /\ row[r].status \notin Active => row'[r].status = row[r].status
         /\ row[r].status \in Active =>
              row'[r].status = IF task[r].err = "cancelled" THEN "cancelled" ELSE "failed"
         /\ task' = [task EXCEPT ![r].pc = pc] /\ task' \in [Runs -> Task]
         /\ UNCHANGED <<tok, conv, mat, prov, up>>
<1> DEFINE s == Finished(r)
           n == IF row[r].status = s THEN row[r].rev ELSE row[r].rev + 1
           c == [row[r] EXCEPT !.status = s, !.rev = n]
<1>1. /\ row[r] \in Row /\ row[r].status \in Active \cup Ended \cup {"deleted"}
      /\ row[r].rev \in Nat
  BY DEF TypeOK, Row
<1>2. /\ s \in Ended \cup {"deleted"}
      /\ row[r].status \notin Active => s = row[r].status
      /\ row[r].status \in Active =>
           s = IF task[r].err = "cancelled" THEN "cancelled" ELSE "failed"
  BY <1>1 DEF Finished, IsActive, Active, Ended
<1>3. n \in Nat
  BY <1>1
<1>4. row' = [row EXCEPT ![r] = c]
  BY <1>1 DEF FinishError, TypeOK
<1> HIDE DEF s, n
<1>5. c \in Row /\ c.status = s
  BY <1>1, <1>2, <1>3, RowEdits
<1> HIDE DEF c
<1>6. task' \in [Runs -> Task]
  BY TaskEdits DEF FinishError, TypeOK
<1>7. /\ row' \in [Runs -> Row] /\ row'[r] = c
      /\ \A q \in Runs : q # r => row'[q] = row[q]
  BY <1>4, <1>5 DEF TypeOK
<1>8. UNCHANGED <<tok, conv, mat, prov, up>> /\ task' = [task EXCEPT ![r].pc = pc]
  BY DEF FinishError
<1>9. row'[r].status = s
  BY <1>5, <1>7
<1> QED BY <1>2, <1>6, <1>7, <1>8, <1>9 DEF Active, Ended

\* The error path and the panic handler.
LEMMA EndStep ==
  ASSUME Inv, NEW r \in Runs, up = "up", NEW pc,
         \/ pc = "drop" /\ task[r].pc = "error" /\ sup' = sup
         \/ pc = "idle" /\ task[r].pc = "panic" /\ Failed(r),
         \/ FinishError(r, pc)
         \/ /\ task' = [task EXCEPT ![r].pc = pc]
            /\ UNCHANGED <<row, tok, conv, mat, prov, up>>
  PROVE  Inv'
<1> DEFINE t == [task[r] EXCEPT !.pc = pc]
<1>1. /\ task[r] \in Task /\ pc \in Pcs /\ row[r].status # "none" /\ ~Closing(r)
      /\ sup' \in {sup, [sup EXCEPT ![r] = "failed"]}
  BY DEF Inv, TypeOK, TaskOK, Closing, Pcs, Failed
<1>2. /\ task' = [task EXCEPT ![r] = t]
      /\ UNCHANGED <<tok, conv, mat, prov, up>>
      /\ row' \in [Runs -> Row] /\ row'[r].status # "none"
      /\ \A q \in Runs : q # r => row'[q] = row[q]
  BY <1>1, FinishedRow DEF FinishError, Goto, Inv, TypeOK
<1>3. /\ t \in Task /\ t.pc = pc /\ t.use = task[r].use /\ t.n = task[r].n
  BY <1>1, TaskEdits DEF Task
<1> HIDE DEF t
<1>4. /\ \A q \in Runs : q # r => Untouched(q)
      /\ task'[r] = t /\ tok'[r] = tok[r] /\ sup'[r] \in {sup[r], "failed"}
  BY <1>1, <1>2 DEF Inv, TypeOK, Untouched
<1>5. Grows(r)
  BY <1>2 DEF Grows
<1>6. TypeOK'
  BY <1>1, <1>2, <1>3 DEF Inv, TypeOK
<1>7. TaskOK(r)'
  BY <1>1, <1>2, <1>3, <1>4 DEF Inv, TaskOK, Closing, Working, Said
<1>8. SupOK(r)'
  <2>1. sup[r] \in {"active", "failed"} /\ tok[r] # "none"
    BY DEF Inv, SupOK
  <2>2. pc = "idle" => sup'[r] = "failed"
    BY DEF Failed, Inv, TypeOK
  <2> QED BY <1>2, <1>3, <1>4, <2>1, <2>2 DEF SupOK
<1>9. \A q \in Runs : q # r => TaskOK(q)' /\ SupOK(q)'
  BY <1>2, <1>4, <1>5, Others DEF Inv
<1> QED BY <1>6, <1>7, <1>8, <1>9 DEF Inv

\* The end of a task.
LEMMA DropStep ==
  ASSUME Inv, NEW r \in Runs, Drop(r)
  PROVE  Inv'
<1>1. /\ up = "up" /\ task[r].pc = "drop" /\ row[r].status # "none"
      /\ sup[r] \in {"active", "failed"}
  BY DEF Drop, At, Inv, TaskOK, SupOK
<1>2. /\ task' = [task EXCEPT ![r] = Idle] /\ tok' = [tok EXCEPT ![r] = "none"]
      /\ sup' = [sup EXCEPT ![r] = IF sup[r] = "failed" THEN sup[r] ELSE "completed"]
      /\ UNCHANGED <<row, conv, mat, prov, up>>
  BY DEF Drop, Joined
<1>3. /\ \A q \in Runs : q # r => Untouched(q)
      /\ task'[r] = Idle /\ tok'[r] = "none" /\ row'[r] = row[r]
      /\ sup'[r] \in {"failed", "completed"}
  BY <1>1, <1>2 DEF Inv, TypeOK, Untouched
<1>4. Grows(r)
  BY <1>2 DEF Grows
<1>5. TypeOK'
  BY <1>1, <1>2, IdleTypes DEF Inv, TypeOK
<1>6. TaskOK(r)'
  BY <1>1, <1>2, <1>3, AiRunsAssumption DEF Idle, TaskOK, Closing, Working, Said
<1>7. SupOK(r)'
  BY <1>3 DEF Idle, SupOK
<1>8. \A q \in Runs : q # r => TaskOK(q)' /\ SupOK(q)'
  BY <1>2, <1>3, <1>4, Others DEF Inv
<1> QED BY <1>5, <1>6, <1>7, <1>8 DEF Inv

\* A panic leaves the task to the supervisor.
LEMMA PanicStep ==
  ASSUME Inv, NEW r \in Runs, Panic(r)
  PROVE  Inv'
<1> DEFINE t == [Idle EXCEPT !.pc = "panic"]
<1>1. /\ t \in Task /\ t.pc = "panic" /\ t.n = 0 /\ t.use = "round"
  BY IdleTypes DEF Idle, Task, Pcs
<1> HIDE DEF t
<1>2. /\ task' = [task EXCEPT ![r] = t]
      /\ UNCHANGED <<row, tok, conv, mat, prov, sup, up>>
      /\ up = "up" /\ task[r].pc # "idle"
  BY DEF Panic, t
<1>3. /\ \A q \in Runs : q # r => Untouched(q)
      /\ task'[r] = t
  BY <1>2 DEF Inv, TypeOK, Untouched
<1>4. Grows(r)
  BY <1>2 DEF Grows
<1>5. TypeOK'
  BY <1>1, <1>2 DEF Inv, TypeOK
<1>6. TaskOK(r)'
  BY <1>1, <1>2, <1>3, AiRunsAssumption DEF Inv, TaskOK, Closing, Working, Said
<1>7. SupOK(r)'
  BY <1>1, <1>2, <1>3 DEF Inv, SupOK
<1>8. \A q \in Runs : q # r => TaskOK(q)' /\ SupOK(q)'
  BY <1>2, <1>3, <1>4, Others DEF Inv
<1> QED BY <1>5, <1>6, <1>7, <1>8 DEF Inv

\* The conversation gets message x.
Says(x) ==
  /\ conv' = [conv EXCEPT !.msgs = Append(@, x)]
  /\ x \in Message

\* The new message comes last, the others stay.
LEMMA SaysGrows ==
  ASSUME TypeOK, NEW x, Says(x)
  PROVE  /\ conv' \in Conversation /\ conv'.sources = conv.sources
         /\ Grows(x.run) /\ Said(x.run, x.role)'
         /\ \A q \in Runs, role \in {"user", "assistant"} : Said(q, role) => Said(q, role)'
         /\ Len(conv'.msgs) = Len(conv.msgs) + 1 /\ Len(conv.msgs) \in Nat
         /\ conv'.msgs[Len(conv.msgs) + 1] = x
         /\ \A i \in 1..Len(conv.msgs) : conv'.msgs[i] = conv.msgs[i]
<1>1. conv \in Conversation /\ conv.msgs \in Seq(Message)
  BY DEF TypeOK, Conversation
<1>2. conv' \in Conversation /\ conv'.msgs = Append(conv.msgs, x)
      /\ conv'.sources = conv.sources
  BY <1>1, AppendProperties DEF Says, Conversation
<1>3. /\ Len(conv'.msgs) = Len(conv.msgs) + 1 /\ Len(conv.msgs) \in Nat
      /\ conv'.msgs[Len(conv.msgs) + 1] = x
      /\ \A i \in 1..Len(conv.msgs) : conv'.msgs[i] = conv.msgs[i]
  BY <1>1, <1>2, AppendProperties, LenProperties DEF Says
<1> QED BY <1>2, <1>3 DEF Grows, Said

\* The rest of the answer to a chat turn: the message, then maybe a title.
LEMMA AppendStep ==
  ASSUME Inv, NEW r \in Runs, AppendAnswer(r)
  PROVE  Inv'
<1> DEFINE x == [role |-> "assistant", run |-> r, man |-> task[r].copy.man]
           t == [task[r] EXCEPT !.pc = IF conv.titled THEN "drop" ELSE "slot",
                                !.use = "title"]
<1>1. /\ up = "up" /\ task[r].pc = "append" /\ task[r] \in Task /\ x \in Message
  BY DEF AppendAnswer, At, Inv, TypeOK, Task, Row, Message
<1>2. /\ task' = [task EXCEPT ![r] = t]
      /\ Says(x) \/ conv' = conv
      /\ UNCHANGED <<row, tok, mat, prov, sup, up>>
  <2>1. conv \in Conversation
    BY DEF Inv, TypeOK
  <2> QED BY <1>1, <2>1 DEF AppendAnswer, Says, Conversation
<1>3. /\ t \in Task /\ t.pc \in {"drop", "slot"} /\ t.use = "title" /\ t.n = task[r].n
  BY <1>1 DEF Task, Pcs
<1> HIDE DEF t
<1>4. /\ \A q \in Runs : q # r => Untouched(q)
      /\ task'[r] = t
  BY <1>2 DEF Inv, TypeOK, Untouched
<1>5. Grows(r) /\ conv' \in Conversation /\ (Said(r, "user") => Said(r, "user")')
  <2>1. x.run = r
    OBVIOUS
  <2> HIDE DEF x
  <2>2. CASE Says(x)
    BY <2>1, <2>2, SaysGrows DEF Inv
  <2>3. CASE conv' = conv
    BY <2>3 DEF Inv, TypeOK, Grows, Said
  <2> QED BY <1>2, <2>2, <2>3
<1>6. TypeOK'
  BY <1>2, <1>3, <1>5 DEF Inv, TypeOK
<1>7. TaskOK(r)'
  BY <1>1, <1>2, <1>3, <1>4, <1>5 DEF Inv, TaskOK, Closing, Working
<1>8. SupOK(r)'
  BY <1>1, <1>2, <1>3, <1>4 DEF Inv, SupOK
<1>9. \A q \in Runs : q # r => TaskOK(q)' /\ SupOK(q)'
  BY <1>2, <1>4, <1>5, Others DEF Inv
<1> QED BY <1>6, <1>7, <1>8, <1>9 DEF Inv

-----------------------------------------------------------------------------
(* Steps of users, crash and restart. *)

\* A run that was not there gets its row c and its task.
LEMMA SpawnStep ==
  ASSUME Inv, NEW r \in Runs, up = "up", row[r].status = "none",
         NEW c \in Row, c.status = "queued", Spawned(r, c),
         UNCHANGED <<mat, prov, up>>,
         IF r \in Chats THEN Says([role |-> "user", run |-> r, man |-> c.man])
                        ELSE conv' = conv
  PROVE  Inv'
<1> DEFINE t == [Idle EXCEPT !.pc = "admit", !.copy = c]
           x == [role |-> "user", run |-> r, man |-> c.man]
<1>1. /\ t \in Task /\ t.pc = "admit" /\ t.n = 0 /\ t.use = "round" /\ t.copy = c
  BY IdleTypes DEF Idle, Task, Pcs
<1>2. /\ row' = [row EXCEPT ![r] = c] /\ task' = [task EXCEPT ![r] = t]
      /\ tok' = [tok EXCEPT ![r] = "live"] /\ sup' = [sup EXCEPT ![r] = "active"]
      /\ mat' = mat /\ prov' = prov /\ up' = up
  BY DEF Spawned, Started
<1> HIDE DEF t
<1>3. /\ \A q \in Runs : q # r => Untouched(q)
      /\ task'[r] = t /\ row'[r] = c /\ tok'[r] = "live" /\ sup'[r] = "active"
  BY <1>2 DEF Inv, TypeOK, Untouched
<1>4. Grows(r) /\ conv' \in Conversation /\ (r \in Chats => Said(r, "user")')
  <2>1. x.run = r /\ x.role = "user"
    OBVIOUS
  <2>2. CASE r \in Chats
    <3>1. Says(x)
      BY <2>2
    <3> HIDE DEF x
    <3> QED BY <2>1, <3>1, SaysGrows DEF Inv
  <2>3. CASE r \notin Chats
    BY <2>3 DEF Inv, TypeOK, Grows
  <2> QED BY <2>2, <2>3
<1>5. TypeOK'
  BY <1>1, <1>2, <1>4 DEF Inv, TypeOK
<1>6. TaskOK(r)'
  BY <1>1, <1>2, <1>3, <1>4, AiRunsAssumption DEF TaskOK, Closing, Working, Active
<1>7. SupOK(r)'
  BY <1>1, <1>2, <1>3 DEF SupOK
<1>8. \A q \in Runs : q # r => TaskOK(q)' /\ SupOK(q)'
  BY <1>2, <1>3, <1>4, Others DEF Inv
<1> QED BY <1>5, <1>6, <1>7, <1>8 DEF Inv

\* The tasks and the messages stay; rows change their status only as users and
\* recovery may, tokens are cancelled.
QuietFor(q) ==
  /\ \/ row'[q].status = row[q].status
     \/ row[q].status \in Active /\ row'[q].status \in {"cancelled", "interrupted"}
     \/ row[q].status = "none" /\ row'[q].status = "queued" /\ q \in Chats
     \/ row[q].status \in Ended /\ row'[q].status = "deleted"
  /\ tok'[q] = tok[q] \/ (tok[q] = "live" /\ tok'[q] = "cancelled")

\* Such a step keeps the invariant.
LEMMA QuietStep ==
  ASSUME Inv, TypeOK', \A q \in Runs : QuietFor(q),
         task' = task, sup' = sup, conv'.msgs = conv.msgs,
         up' = up \/ (up' = "up" /\ \A q \in Runs : task[q].pc = "idle")
  PROVE  Inv'
<1> SUFFICES ASSUME NEW q \in Runs PROVE TaskOK(q)' /\ SupOK(q)'
  BY DEF Inv
<1>1. TaskOK(q) /\ SupOK(q) /\ QuietFor(q)
  BY DEF Inv
<1>2. TaskOK(q)'
  BY <1>1 DEF TaskOK, QuietFor, Closing, Working, Said, Active, Ended
<1>3. SupOK(q)'
  BY <1>1 DEF SupOK, QuietFor
<1> QED BY <1>2, <1>3

\* Cancelling every token.
LEMMA CancelledTokens ==
  ASSUME TypeOK, AllCancelled
  PROVE  /\ tok' \in [Runs -> {"none", "live", "cancelled"}]
         /\ \A q \in Runs : /\ tok'[q] = tok[q] \/ (tok[q] = "live" /\ tok'[q] = "cancelled")
                            /\ tok'[q] # "live"
BY DEF AllCancelled, TypeOK

\* The requests that leave tasks and messages alone.
QuietRequest ==
  \/ \E r \in Runs, S \in SUBSET Sources : StartFails(r, S)
  \/ \E r \in Runs : CancelRun(r) \/ DeleteRun(r) \/ Recover(r)
  \/ \E S \in SUBSET Sources : ReplaceContext(S)
  \/ \E m \in Sources : RevokeMaterial(m) \/ ReplaceMaterial(m) \/ ReviseMaterial(m)
  \/ SaveProvider

\* Their effect on one run, and on the types.
Quiet ==
  /\ TypeOK' /\ \A q \in Runs : QuietFor(q)
  /\ task' = task /\ sup' = sup /\ up' = up /\ conv'.msgs = conv.msgs

\* Each request and each step of recovery is such a step.
LEMMA QuietRequests ==
  ASSUME TypeOK, QuietRequest
  PROVE  Quiet
<1>1. ASSUME NEW r \in Runs, NEW S \in SUBSET Sources, StartFails(r, S)
      PROVE  Quiet
  <2>1. NewRun(S) \in Row /\ NewRun(S).status = "queued"
    BY NewRunType
  <2>2. row' = [row EXCEPT ![r] = NewRun(S)] /\ row[r].status = "none" /\ r \in Chats
    BY <1>1 DEF StartFails, MayStart
  <2>3. UNCHANGED <<task, tok, conv, mat, prov, sup, up>>
    BY <1>1 DEF StartFails
  <2> QED BY <2>1, <2>2, <2>3 DEF Quiet, QuietFor, TypeOK
<1>2. ASSUME NEW r \in Runs, CancelRun(r)
      PROVE  Quiet
  <2> DEFINE c == [row[r] EXCEPT !.status = "cancelled", !.rev = row[r].rev + 1]
  <2>1. row[r] \in Row /\ "cancelled" \in Active \cup Ended \cup {"none", "deleted"}
    BY DEF TypeOK, Ended
  <2>2. c \in Row /\ c.status = "cancelled"
    BY <2>1, RowEdits
  <2>3. /\ row' = [row EXCEPT ![r] = c] /\ row[r].status \in Active
        /\ tok' = [tok EXCEPT ![r] = IF tok[r] = "live" THEN "cancelled" ELSE tok[r]]
        /\ UNCHANGED <<task, conv, mat, prov, sup, up>>
    BY <1>2 DEF CancelRun, IsActive, TypeOK
  <2> HIDE DEF c
  <2> QED BY <2>2, <2>3 DEF Quiet, QuietFor, TypeOK
<1>3. ASSUME NEW r \in Runs, DeleteRun(r) \/ Recover(r)
      PROVE  Quiet
  <2>1. row[r] \in Row
    BY DEF TypeOK
  <2>2. PICK s \in {"deleted", "interrupted"} :
          /\ row' = [row EXCEPT ![r] = [row[r] EXCEPT !.status = s]]
          /\ \/ s = "deleted" /\ row[r].status \in Ended
             \/ s = "interrupted" /\ row[r].status \in Active
    BY <1>3 DEF DeleteRun, Recover, IsActive, TypeOK
  <2>3. [row[r] EXCEPT !.status = s] \in Row /\ [row[r] EXCEPT !.status = s].status = s
    BY <2>1, RowEdits DEF Ended
  <2>4. UNCHANGED <<task, tok, conv, mat, prov, sup, up>>
    BY <1>3 DEF DeleteRun, Recover
  <2> QED BY <2>2, <2>3, <2>4 DEF Quiet, QuietFor, TypeOK
<1>4. ASSUME NEW S \in SUBSET Sources, ReplaceContext(S)
      PROVE  Quiet
  <2> DEFINE c(q) == [row[q] EXCEPT !.status = "cancelled", !.rev = row[q].rev + 1]
  <2>1. ASSUME NEW q \in Runs
        PROVE  row[q] \in Row /\ c(q) \in Row /\ c(q).status = "cancelled"
    <3>1. row[q] \in Row /\ "cancelled" \in Active \cup Ended \cup {"none", "deleted"}
      BY DEF TypeOK, Ended
    <3> QED BY <3>1, RowEdits
  <2>2. /\ row' = [q \in Runs |-> IF q \in Deselected(S) THEN c(q) ELSE row[q]]
        /\ tok' = [q \in Runs |-> IF q \in Deselected(S) /\ tok[q] = "live"
                                  THEN "cancelled" ELSE tok[q]]
        /\ conv' = [conv EXCEPT !.rev = conv.rev + 1, !.sources = S]
        /\ UNCHANGED <<task, mat, prov, sup, up>>
    BY <1>4 DEF ReplaceContext
  <2> HIDE DEF c
  <2>3. \A q \in Deselected(S) : row[q].status \in Active
    BY DEF Deselected, IsActive
  <2>4. conv' \in Conversation /\ conv'.msgs = conv.msgs
    <3>1. /\ conv \in Conversation /\ S \in SUBSET Sources
          /\ conv' = [conv EXCEPT !.rev = conv.rev + 1, !.sources = S]
      BY <2>2 DEF TypeOK
    <3>2. conv.rev + 1 \in Nat
      BY <3>1 DEF Conversation
    <3> DEFINE n == conv.rev + 1
    <3>3. conv' = [conv EXCEPT !.rev = n, !.sources = S] /\ n \in Nat
      BY <3>1, <3>2
    <3> HIDE DEF n
    <3>4. [conv EXCEPT !.rev = n] \in Conversation /\ [conv EXCEPT !.rev = n].msgs = conv.msgs
      BY <3>1, <3>3 DEF Conversation
    <3> QED BY <3>1, <3>3, <3>4 DEF Conversation
  <2>5. /\ row' \in [Runs -> Row] /\ tok' \in [Runs -> {"none", "live", "cancelled"}]
        /\ \A q \in Runs : QuietFor(q)
    BY <2>1, <2>2, <2>3 DEF QuietFor, TypeOK
  <2> QED BY <2>2, <2>4, <2>5 DEF Quiet, TypeOK
<1>5. ASSUME NEW m \in Sources, RevokeMaterial(m) \/ ReplaceMaterial(m)
      PROVE  Quiet
  <2>1. mat' \in [Sources -> Material]
    <3>1. mat[m] \in Material /\ mat \in [Sources -> Material]
      BY DEF TypeOK
    <3>2. CASE RevokeMaterial(m)
      BY <3>1, <3>2 DEF RevokeMaterial, Material
    <3>3. CASE ReplaceMaterial(m)
      <4> DEFINE x == [revoked |-> FALSE, rev |-> mat[m].rev + 1, sha |-> mat[m].bytes + 1,
                       bytes |-> mat[m].bytes + 1, meta |-> TRUE]
      <4>1. x \in Material
        BY <3>1 DEF Material
      <4>2. mat' = [mat EXCEPT ![m] = x]
        BY <3>3 DEF ReplaceMaterial
      <4> QED BY <3>1, <4>1, <4>2
    <3> QED BY <1>5, <3>2, <3>3
  <2>2. AllCancelled /\ UNCHANGED <<row, task, conv, prov, sup, up>>
    BY <1>5 DEF RevokeMaterial, ReplaceMaterial
  <2> QED BY <2>1, <2>2, CancelledTokens DEF Quiet, QuietFor, TypeOK
<1>6. ASSUME NEW m \in Sources, ReviseMaterial(m)
      PROVE  Quiet
  <2>1. mat' \in [Sources -> Material]
    BY <1>6 DEF ReviseMaterial, TypeOK, Material
  <2>2. UNCHANGED <<row, task, tok, conv, prov, sup, up>>
    BY <1>6 DEF ReviseMaterial
  <2> QED BY <2>1, <2>2 DEF Quiet, QuietFor, TypeOK
<1>7. CASE SaveProvider
  <2>1. prov' \in Nat /\ AllCancelled /\ UNCHANGED <<row, task, conv, mat, sup, up>>
    BY <1>7 DEF SaveProvider, TypeOK
  <2> QED BY <2>1, CancelledTokens DEF Quiet, QuietFor, TypeOK
<1> QED BY <1>1, <1>2, <1>3, <1>4, <1>5, <1>6, <1>7 DEF QuietRequest

-----------------------------------------------------------------------------
(* What the steps of a task do. *)

\* Copy c of a task's run has the bindings of copy b, except for sources just read.
SameBindings(c, b) ==
  /\ c.man = b.man /\ c.prov = b.prov
  /\ \A m \in b.man : \/ c.bound[m] = b.bound[m]
                      \/ ~mat[m].revoked /\ c.bound[m] = mat[m].sha

\* The task goes on as t.
Moved(r, t) ==
  /\ up = "up" /\ task[r].pc # "idle"
  /\ Onward(r, t) /\ Moves(r, t)
  /\ t.pc = "drop" => Closing(r)
  /\ t.pc = "backfill" => ~task[r].snap.meta
  /\ t.snap \in {task[r].snap, Idle.snap} \cup {mat[m] : m \in Sources}
  /\ t.use # "title" => Working(r) /\ SameBindings(t.copy, task[r].copy)

\* The task gives up.
Failing(r, err) ==
  /\ up = "up" /\ task[r].pc # "idle"
  /\ err \in {"cancelled", "failed"}
  /\ Fail(r, err)

\* The task saves c and goes on as t.
Saved(r, c, t) ==
  /\ up = "up" /\ task[r].pc # "idle" /\ Working(r) /\ IsActive(r)
  /\ c \in Row /\ c.status \in Active \cup Ended
  /\ Saves(r, c, t)
  /\ \/ Onward(r, t)
     \/ /\ t \in Task /\ t.pc = "append" /\ t.n <= MaxRounds
        /\ r \in Chats /\ c.status = "completed"
  /\ t.use # "title"
  /\ t.pc = "drop" => c.status \in {"completed", "paused"}
  /\ t.pc # "backfill" /\ t.snap = task[r].snap
  /\ t.pc \notin {"drop", "append"} => c.status \in Active
  /\ t.copy.man = c.man /\ SameBindings(t.copy, task[r].copy)

Turns(r) ==
  \/ \E t \in Task : Moved(r, t)
  \/ \E err \in {"cancelled", "failed"} : Failing(r, err)
  \/ \E c \in Row, t \in Task : Saved(r, c, t)

\* Going elsewhere.
LEMMA GotoTurns ==
  ASSUME Inv, NEW r \in Runs, up = "up", Working(r), task[r].pc # "pause",
         NEW pc \in Pcs \ {"idle", "append", "drop", "error", "panic"},
         pc = "backfill" => ~task[r].snap.meta, Goto(r, pc)
  PROVE  Turns(r)
<1> DEFINE t == [task[r] EXCEPT !.pc = pc]
<1>1. task[r] \in Task /\ TaskOK(r) /\ task[r].pc # "idle"
  BY DEF Inv, TypeOK, Working
<1>2. /\ t \in Task /\ t.pc = pc /\ t.copy = task[r].copy /\ t.n = task[r].n
      /\ t.use = task[r].use /\ t.snap = task[r].snap
  BY <1>1 DEF Task
<1>3. Moves(r, t)
  BY DEF Goto, Moves
<1> HIDE DEF t
<1>4. task[r].use # "title" /\ task[r].n <= MaxRounds /\ task[r].copy.status \in Active
  BY <1>1 DEF Working, TaskOK
<1>5. Onward(r, t)
  BY <1>2, <1>4 DEF Onward
<1> QED BY <1>1, <1>2, <1>3, <1>5 DEF Moved, SameBindings, Turns

\* Giving up is a turn.
LEMMA FailTurns ==
  ASSUME NEW r \in Runs, up = "up", task[r].pc # "idle",
         \/ Refused(r)
         \/ \E err \in {"cancelled", "failed"} : Fail(r, err)
  PROVE  Turns(r)
BY DEF Refused, Failing, Turns

\* validate_run_bindings ends in a refusal or goes on.
LEMMA ValidateTurns ==
  ASSUME Inv, NEW r \in Runs, up = "up", Working(r), task[r].pc # "pause",
         NEW pc \in Pcs \ {"idle", "append", "drop", "error", "panic", "backfill"},
         Validate(r, pc)
  PROVE  Turns(r)
<1>1. task[r].pc # "idle"
  BY DEF Working
<1> QED BY <1>1, GotoTurns, FailTurns DEF Validate

\* save_run_progress with the copy c, and what follows it.
LEMMA SaveTurns ==
  ASSUME Inv, NEW r \in Runs, up = "up", Working(r),
         NEW c \in Row, SameBindings(c, task[r].copy), NEW pc,
         \/ pc = "validate" /\ c.status \in Active /\ task[r].pc # "pause"
         \/ pc = "append" /\ r \in Chats /\ c.status = "completed" /\ task[r].pc # "pause"
         \/ pc = "drop" /\ c.status \in {"completed", "paused"},
         SaveProgress(r, c, pc)
  PROVE  Turns(r)
<1>1. task[r] \in Task /\ TaskOK(r) /\ task[r].pc # "idle"
  BY DEF Inv, TypeOK, Working
<1>2. CASE ~StillActive(r)
  BY <1>1, <1>2, FailTurns DEF SaveProgress
<1>3. CASE StillActive(r)
  <2> DEFINE t == [task[r] EXCEPT !.pc = pc, !.copy = c]
  <2>1. /\ t \in Task /\ t.pc = pc /\ t.copy = c /\ t.n = task[r].n
        /\ t.use = task[r].use /\ t.snap = task[r].snap
    BY <1>1 DEF Task, Pcs
  <2>2. Saves(r, c, t)
    BY <1>3 DEF SaveProgress, Saves
  <2> HIDE DEF t
  <2>3. task[r].use # "title" /\ (task[r].n <= MaxRounds \/ pc = "drop")
    BY <1>1 DEF Working, TaskOK
  <2>4. IsActive(r)
    BY <1>3 DEF StillActive
  <2>5. c.status \in Active \cup Ended
    BY DEF Ended
  <2>6. Saved(r, c, t)
    BY <1>1, <2>1, <2>2, <2>3, <2>4, <2>5 DEF Saved, Onward
  <2> QED BY <2>1, <2>6 DEF Turns
<1> QED BY <1>2, <1>3

\* Saving the copy as it is, with another place and counter.
LEMMA RowTurns ==
  ASSUME Inv, NEW r \in Runs, up = "up", Working(r), IsActive(r),
         NEW t \in Task, t.copy = task[r].copy, t.snap = task[r].snap, t.use # "title",
         t.pc \in {"slot", "validate", "pause"},
         t.n <= MaxRounds \/ t.pc = "pause",
         Saves(r, task[r].copy, t)
  PROVE  Turns(r)
<1>1. task[r] \in Task /\ TaskOK(r) /\ task[r].pc # "idle" /\ task[r].copy \in Row
  BY DEF Inv, TypeOK, Working, Task
<1>2. task[r].copy.status \in Active
  BY <1>1 DEF TaskOK
<1>3. Saved(r, task[r].copy, t)
  BY <1>1, <1>2 DEF Saved, Onward, SameBindings
<1> QED BY <1>1, <1>3 DEF Turns

\* The counter of rounds.
LEMMA NextRoundType ==
  ASSUME Inv, NEW r \in Runs, Working(r), task[r].pc # "pause"
  PROVE  /\ NextRound(r) \in Task /\ NextRound(r).pc \in {"pause", "validate"}
         /\ NextRound(r).n <= MaxRounds \/ NextRound(r).pc = "pause"
         /\ NextRound(r).copy = task[r].copy /\ NextRound(r).snap = task[r].snap
         /\ NextRound(r).use = task[r].use
<1> DEFINE pc == IF task[r].n = MaxRounds THEN "pause" ELSE "validate"
           n == task[r].n + 1
<1>1. task[r] \in Task /\ task[r].n \in 0..(MaxRounds + 1) /\ task[r].n <= MaxRounds
  BY DEF Inv, TypeOK, Task, TaskOK, Working
<1>2. /\ pc \in Pcs /\ pc \in {"pause", "validate"} /\ n \in 0..(MaxRounds + 1)
      /\ n <= MaxRounds \/ pc = "pause"
  BY <1>1, AiRunsAssumption DEF Pcs
<1>3. NextRound(r) = [task[r] EXCEPT !.n = n, !.seen = 0, !.pc = pc]
  BY <1>1 DEF NextRound, Task
<1> HIDE DEF pc, n
<1>4. NextRound(r) \in Task
  <2>1. [task[r] EXCEPT !.n = n] \in Task
    BY <1>1, <1>2 DEF Task
  <2>2. ASSUME NEW t \in Task PROVE [t EXCEPT !.seen = 0] \in Task
    BY DEF Task
  <2>3. NextRound(r) = [[[task[r] EXCEPT !.n = n] EXCEPT !.seen = 0] EXCEPT !.pc = pc]
    BY <1>3
  <2>4. PICK t : t = [[task[r] EXCEPT !.n = n] EXCEPT !.seen = 0]
    OBVIOUS
  <2>5. t \in Task
    BY <2>1, <2>2, <2>4
  <2>6. NextRound(r) = [t EXCEPT !.pc = pc]
    BY <2>3, <2>4
  <2>7. [t EXCEPT !.pc = pc] \in Task
    BY <1>2, <2>5, TaskEdits
  <2> QED BY <2>6, <2>7
<1>5. /\ NextRound(r).pc = pc /\ NextRound(r).n = n
      /\ NextRound(r).copy = task[r].copy /\ NextRound(r).snap = task[r].snap
      /\ NextRound(r).use = task[r].use
  BY <1>1, <1>3 DEF Task
<1> QED BY <1>2, <1>4, <1>5

\* Before the first round.
LEMMA EarlyTurns ==
  ASSUME Inv, NEW r \in Runs,
         Admit(r) \/ Start(r) \/ Read(r) \/ ReadBytes(r) \/ Extract(r) \/ AllRead(r)
           \/ History(r) \/ Built(r)
  PROVE  Turns(r)
<1>1. /\ up = "up" /\ Working(r) /\ task[r].pc \notin {"idle", "pause"}
      /\ task[r] \in Task /\ TaskOK(r) /\ task[r].copy \in Row
  BY DEF Admit, Start, Read, ReadBytes, Extract, AllRead, History, Built, At, Working,
         Inv, TypeOK, TaskOK, Task
<1>2. /\ task[r].n <= MaxRounds /\ task[r].use # "title" /\ task[r].copy.status \in Active
  BY <1>1 DEF TaskOK, Working
<1>3. CASE Admit(r)
  BY <1>1, <1>3, FailTurns, GotoTurns DEF Admit, Pcs
<1>4. CASE Start(r)
  <2>1. CASE ~StillActive(r)
    BY <1>1, <1>4, <2>1, FailTurns DEF Start
  <2>2. CASE StillActive(r)
    <3> DEFINE c == [task[r].copy EXCEPT !.status = "running"]
               pc == IF c.msgs THEN "validate" ELSE "read"
               t == [task[r] EXCEPT !.copy = c, !.todo = c.man, !.n = 1, !.pc = pc]
    <3>1. /\ c \in Row /\ c.status = "running" /\ c.man = task[r].copy.man
          /\ c.prov = task[r].copy.prov /\ c.bound = task[r].copy.bound
          /\ c.man \in SUBSET Sources
      BY <1>1 DEF Row, Active
    <3>2. pc \in Pcs /\ pc \in {"validate", "read"} /\ 1 \in 0..(MaxRounds + 1) /\ 1 <= MaxRounds
      BY AiRunsAssumption DEF Pcs
    <3>3. Saves(r, c, t)
      BY <1>4, <2>2 DEF Start, Saves
    <3> HIDE DEF c, pc
    <3>4. t \in Task
      <4>1. PICK u : u = [task[r] EXCEPT !.copy = c, !.todo = c.man]
        OBVIOUS
      <4>2. u \in Task
        BY <1>1, <3>1, <4>1 DEF Task
      <4>3. t = [u EXCEPT !.n = 1, !.pc = pc]
        BY <4>1
      <4> QED BY <3>2, <4>2, <4>3 DEF Task
    <3>5. /\ t.pc = pc /\ t.copy = c /\ t.n = 1 /\ t.use = task[r].use
          /\ t.snap = task[r].snap
      BY <1>1 DEF Task
    <3> HIDE DEF t
    <3>6. IsActive(r) /\ c.status \in Active \cup Ended /\ c.status \in Active
      BY <2>2, <3>1 DEF StillActive, Active
    <3>7. SameBindings(t.copy, task[r].copy)
      BY <3>1, <3>5 DEF SameBindings
    <3>8. Onward(r, t)
      BY <1>2, <3>2, <3>4, <3>5, <3>6 DEF Onward
    <3>9. Saved(r, c, t)
      BY <1>1, <1>2, <3>1, <3>2, <3>3, <3>5, <3>6, <3>7, <3>8 DEF Saved
    <3> QED BY <3>1, <3>4, <3>9 DEF Turns
  <2> QED BY <2>1, <2>2
<1>5. CASE Read(r)
  <2>1. PICK m \in task[r].todo :
          IF mat[m].revoked \/ mat[m].rev # task[r].copy.pin[m]
          THEN Fail(r, "failed")
          ELSE /\ task' = [task EXCEPT ![r].pc = "bytes", ![r].m = m,
                                       ![r].snap = mat[m],
                                       ![r].todo = @ \ {m},
                                       ![r].copy.bound[m] = mat[m].sha]
               /\ UNCHANGED <<row, tok, conv, mat, prov, sup, up>>
    BY <1>5 DEF Read
  <2>2. CASE mat[m].revoked \/ mat[m].rev # task[r].copy.pin[m]
    BY <1>1, <2>1, <2>2, FailTurns
  <2>3. CASE ~(mat[m].revoked \/ mat[m].rev # task[r].copy.pin[m])
    <3> DEFINE b == [task[r].copy.bound EXCEPT ![m] = mat[m].sha]
               c == [task[r].copy EXCEPT !.bound = b]
               t == [task[r] EXCEPT !.pc = "bytes", !.m = m, !.snap = mat[m],
                                    !.todo = task[r].todo \ {m}, !.copy = c]
    <3>1. m \in Sources /\ mat[m] \in Material /\ mat[m].sha \in Nat /\ ~mat[m].revoked
      BY <1>1, <2>3 DEF Task, Inv, TypeOK, Material
    <3>2. /\ c \in Row /\ c.status = task[r].copy.status /\ c.man = task[r].copy.man
          /\ c.prov = task[r].copy.prov /\ c.bound = b
          /\ task[r].copy.bound \in [Sources -> Nat]
      BY <1>1, <3>1 DEF Row
    <3>3. SameBindings(c, task[r].copy)
      <4> SUFFICES ASSUME NEW k \in task[r].copy.man
                   PROVE  \/ c.bound[k] = task[r].copy.bound[k]
                          \/ ~mat[k].revoked /\ c.bound[k] = mat[k].sha
        BY <3>2 DEF SameBindings
      <4> HIDE DEF c
      <4>1. c.bound[k] = IF k = m THEN mat[m].sha ELSE task[r].copy.bound[k]
        <5>1. k \in Sources
          BY <1>1 DEF Row
        <5> QED BY <3>2, <5>1
      <4> QED BY <3>1, <4>1
    <3>4. task' = [task EXCEPT ![r] = t] /\ UNCHANGED <<row, tok, conv, mat, prov, sup, up>>
      <4>1. /\ task' = [task EXCEPT ![r].pc = "bytes", ![r].m = m, ![r].snap = mat[m],
                                    ![r].todo = task[r].todo \ {m},
                                    ![r].copy.bound[m] = mat[m].sha]
            /\ UNCHANGED <<row, tok, conv, mat, prov, sup, up>>
        BY <1>1, <2>1, <2>3 DEF Inv, TypeOK, Task
      <4> QED BY <1>1, <4>1 DEF Task
    <3> HIDE DEF c
    <3>5. /\ t \in Task
      <4>1. PICK u : u = [task[r] EXCEPT !.pc = "bytes", !.m = m]
        OBVIOUS
      <4>2. u \in Task
        BY <1>1, <3>1, <4>1 DEF Task, Pcs
      <4>3. PICK v : v = [u EXCEPT !.snap = mat[m], !.todo = task[r].todo \ {m}]
        OBVIOUS
      <4>4. v \in Task
        BY <1>1, <3>1, <4>2, <4>3 DEF Task
      <4>5. t = [v EXCEPT !.copy = c]
        BY <4>1, <4>3
      <4> QED BY <3>2, <4>4, <4>5 DEF Task
    <3>6. /\ t.pc = "bytes" /\ t.copy = c /\ t.n = task[r].n /\ t.use = task[r].use
          /\ t.snap = mat[m]
      BY <1>1 DEF Task
    <3> HIDE DEF t
    <3>7. Onward(r, t) /\ Moves(r, t)
      BY <1>2, <3>2, <3>4, <3>5, <3>6 DEF Onward, Moves
    <3>8. Moved(r, t)
      BY <1>1, <1>2, <3>1, <3>3, <3>6, <3>7 DEF Moved
    <3> QED BY <3>5, <3>8 DEF Turns
  <2> QED BY <2>2, <2>3
<1>6. CASE ReadBytes(r)
  <2>1. CASE Fail(r, "failed")
    BY <1>1, <2>1, FailTurns
  <2>2. CASE Goto(r, IF task[r].snap.meta THEN "extract" ELSE "backfill")
    BY <1>1, <2>2, GotoTurns DEF Pcs
  <2> QED BY <1>6, <2>1, <2>2 DEF ReadBytes
<1>7. CASE Extract(r)
  <2>1. CASE Fail(r, "failed")
    BY <1>1, <2>1, FailTurns
  <2>2. ASSUME NEW pc \in {"read", "slot"},
               task' = [task EXCEPT ![r].pc = pc, ![r].use = "ocr", ![r].snap = Idle.snap,
                                    ![r].m = AnySource],
               UNCHANGED <<row, tok, conv, mat, prov, sup, up>>
        PROVE  Turns(r)
    <3> DEFINE t == [task[r] EXCEPT !.pc = pc, !.use = "ocr", !.snap = Idle.snap,
                                    !.m = AnySource]
    <3>1. task' = [task EXCEPT ![r] = t]
      BY <2>2
    <3>2. /\ t \in Task
      <4>1. PICK u : u = [task[r] EXCEPT !.pc = pc, !.use = "ocr"]
        OBVIOUS
      <4>2. u \in Task
        BY <1>1, <4>1 DEF Task, Pcs
      <4>3. t = [u EXCEPT !.snap = Idle.snap, !.m = AnySource]
        BY <4>1
      <4> QED BY <4>2, <4>3, IdleTypes DEF Task
    <3>3. /\ t.pc = pc /\ t.copy = task[r].copy /\ t.n = task[r].n /\ t.use = "ocr"
          /\ t.snap = Idle.snap
      BY <1>1 DEF Task
    <3> HIDE DEF t
    <3>4. Onward(r, t) /\ Moves(r, t)
      BY <1>2, <2>2, <3>1, <3>2, <3>3 DEF Onward, Moves
    <3>5. Moved(r, t)
      BY <1>1, <3>3, <3>4 DEF Moved, SameBindings
    <3> QED BY <3>2, <3>5 DEF Turns
  <2> QED BY <1>7, <2>1, <2>2 DEF Extract
<1>8. CASE AllRead(r)
  BY <1>1, <1>8, GotoTurns DEF AllRead, Pcs
<1>9. CASE History(r)
  <2>1. PICK H \in SUBSET (IF r \in Chats THEN TurnsWithin(conv.sources) ELSE {}) :
          task' = [task EXCEPT ![r].pc = "built", ![r].copy.msgs = TRUE, ![r].copy.hist = H]
    BY <1>9 DEF History
  <2> DEFINE c == [task[r].copy EXCEPT !.msgs = TRUE, !.hist = H]
             t == [task[r] EXCEPT !.pc = "built", !.copy = c]
  <2>2. H \in SUBSET Runs
    BY AiRunsAssumption DEF TurnsWithin
  <2>3. /\ c \in Row /\ c.status = task[r].copy.status /\ c.man = task[r].copy.man
        /\ c.prov = task[r].copy.prov /\ c.bound = task[r].copy.bound
    BY <1>1, <2>2 DEF Row
  <2>4. task' = [task EXCEPT ![r] = t]
    BY <2>1
  <2> HIDE DEF c
  <2>5. /\ t \in Task /\ t.pc = "built" /\ t.copy = c /\ t.n = task[r].n
        /\ t.use = task[r].use /\ t.snap = task[r].snap
    BY <1>1, <2>3 DEF Task, Pcs
  <2> HIDE DEF t
  <2>6. Onward(r, t) /\ Moves(r, t)
    BY <1>2, <1>9, <2>3, <2>4, <2>5 DEF Onward, Moves, History
  <2>7. Moved(r, t)
    BY <1>1, <2>3, <2>5, <2>6 DEF Moved, SameBindings
  <2> QED BY <2>5, <2>7 DEF Turns
<1>10. CASE Built(r)
  <2>1. SaveProgress(r, task[r].copy, "validate")
    BY <1>10 DEF Built
  <2>2. SameBindings(task[r].copy, task[r].copy)
    BY DEF SameBindings
  <2> QED BY <1>1, <1>2, <2>1, <2>2, SaveTurns
<1> QED BY <1>3, <1>4, <1>5, <1>6, <1>7, <1>8, <1>9, <1>10

\* A title is given up or the run fails.
LEMMA NoAnswerTurns ==
  ASSUME Inv, NEW r \in Runs, up = "up", task[r].pc \in {"slot", "send", "sent"},
         NEW err \in {"cancelled", "failed"}, NoAnswer(r, err)
  PROVE  Turns(r)
<1>1. task[r] \in Task /\ TaskOK(r)
  BY DEF Inv, TypeOK
<1>2. CASE task[r].use # "title"
  BY <1>2, FailTurns DEF NoAnswer
<1>3. CASE task[r].use = "title"
  <2> DEFINE t == [task[r] EXCEPT !.pc = "drop"]
  <2>1. t \in Task /\ t.pc = "drop" /\ t.use = "title" /\ t.snap = task[r].snap
    BY <1>1, <1>3 DEF Task, Pcs
  <2>2. Moves(r, t)
    BY <1>3 DEF NoAnswer, Goto, Moves
  <2> HIDE DEF t
  <2>3. Moved(r, t)
    BY <1>3, <2>1, <2>2 DEF Moved, Onward, Closing
  <2> QED BY <2>1, <2>3 DEF Turns
<1> QED BY <1>2, <1>3

\* The dispatch of an OCR page, a round or a title.
LEMMA DispatchTurns ==
  ASSUME Inv, NEW r \in Runs, TakeSlot(r) \/ Send(r) \/ SendFails(r)
  PROVE  Turns(r)
<1>1. /\ up = "up" /\ task[r].pc \in {"slot", "send", "sent"}
      /\ task[r] \in Task /\ TaskOK(r) /\ prov \in Nat
  BY DEF TakeSlot, Send, SendFails, At, Inv, TypeOK
<1>2. /\ task[r].n <= MaxRounds
      /\ task[r].use # "title" => Working(r) /\ task[r].copy.status \in Active
  BY <1>1 DEF TaskOK, Working
<1>3. ASSUME NEW pc \in {"send", "sent"}, NEW n \in Nat, NEW t,
             t = [task[r] EXCEPT !.pc = pc, !.seen = n] \/ t = [task[r] EXCEPT !.pc = pc],
             task' = [task EXCEPT ![r] = t],
             UNCHANGED <<row, tok, conv, mat, prov, sup, up>>
      PROVE  Turns(r)
  <2>1. /\ t \in Task /\ t.pc = pc /\ t.copy = task[r].copy /\ t.n = task[r].n
        /\ t.use = task[r].use /\ t.snap = task[r].snap
    BY <1>1, <1>3 DEF Task, Pcs
  <2>2. Moves(r, t)
    BY <1>3 DEF Moves
  <2>3. Onward(r, t)
    BY <1>1, <1>2, <2>1 DEF Onward, Closing
  <2>4. Moved(r, t)
    BY <1>1, <1>2, <2>1, <2>2, <2>3 DEF Moved, SameBindings
  <2> QED BY <2>1, <2>4 DEF Turns
<1>4. CASE TakeSlot(r)
  <2>1. CASE Cancelled(r)
    BY <1>1, <1>4, <2>1, NoAnswerTurns DEF TakeSlot
  <2>2. CASE ~Cancelled(r)
    <3> DEFINE t == [task[r] EXCEPT !.pc = "send", !.seen = prov]
    <3>1. task' = [task EXCEPT ![r] = t] /\ UNCHANGED <<row, tok, conv, mat, prov, sup, up>>
      BY <1>4, <2>2 DEF TakeSlot
    <3> QED BY <1>1, <1>3, <3>1
  <2> QED BY <2>1, <2>2
<1>5. CASE Send(r)
  <2>1. CASE NoAnswer(r, "cancelled") \/ NoAnswer(r, "failed")
    BY <1>1, <2>1, NoAnswerTurns
  <2>2. CASE Goto(r, "sent")
    <3> DEFINE t == [task[r] EXCEPT !.pc = "sent"]
    <3>1. task' = [task EXCEPT ![r] = t] /\ UNCHANGED <<row, tok, conv, mat, prov, sup, up>>
      BY <2>2 DEF Goto
    <3> QED BY <1>1, <1>3, <3>1
  <2> QED BY <1>5, <2>1, <2>2 DEF Send
<1>6. CASE SendFails(r)
  BY <1>1, <1>6, NoAnswerTurns DEF SendFails
<1> QED BY <1>4, <1>5, <1>6

\* An answer.
LEMMA AnswerTurns ==
  ASSUME Inv, NEW r \in Runs, Answer(r)
  PROVE  Turns(r)
<1>1. /\ up = "up" /\ task[r].pc = "sent" /\ task[r] \in Task /\ TaskOK(r)
      /\ task[r].n <= MaxRounds
      /\ UNCHANGED <<row, tok, mat, prov, sup, up>>
  BY DEF Answer, At, Inv, TypeOK, TaskOK
<1>2. CASE task[r].use = "title"
  <2> DEFINE t == [task[r] EXCEPT !.pc = "drop"]
  <2>1. t \in Task /\ t.pc = "drop" /\ t.use = "title" /\ t.snap = task[r].snap
    BY <1>1, <1>2 DEF Task, Pcs
  <2>2. Moves(r, t)
    BY <1>1, <1>2 DEF Answer, Moves
  <2> HIDE DEF t
  <2>3. Moved(r, t)
    BY <1>1, <1>2, <2>1, <2>2 DEF Moved, Onward, Closing
  <2> QED BY <2>1, <2>3 DEF Turns
<1>3. CASE task[r].use # "title"
  <2>1. Working(r) /\ task[r].copy.status \in Active
    BY <1>1, <1>3 DEF Working, TaskOK
  <2>2. /\ conv' = conv
        /\ \/ \E pc \in {"read", "tool", "final", "pause"} :
                task' = [task EXCEPT ![r].pc = pc, ![r].seen = 0]
           \/ task' = [task EXCEPT ![r] = NextRound(r)]
    BY <1>1, <1>3 DEF Answer, Task
  <2>3. ASSUME NEW t \in Task, task' = [task EXCEPT ![r] = t],
               t.copy = task[r].copy, t.use = task[r].use, t.snap = task[r].snap,
               t.pc \in {"read", "tool", "final", "pause", "validate"},
               t.n <= MaxRounds \/ t.pc = "pause"
        PROVE  Turns(r)
    <3>1. Moves(r, t)
      BY <1>1, <2>2, <2>3 DEF Moves
    <3>2. Onward(r, t)
      BY <1>3, <2>1, <2>3 DEF Onward
    <3>3. Moved(r, t)
      BY <1>1, <2>1, <2>3, <3>1, <3>2 DEF Moved, SameBindings
    <3> QED BY <3>3 DEF Turns
  <2>4. ASSUME NEW pc \in {"read", "tool", "final", "pause"},
               task' = [task EXCEPT ![r].pc = pc, ![r].seen = 0]
        PROVE  Turns(r)
    <3> DEFINE t == [task[r] EXCEPT !.pc = pc, !.seen = 0]
    <3>1. /\ t \in Task /\ t.copy = task[r].copy /\ t.use = task[r].use
          /\ t.snap = task[r].snap /\ t.pc = pc /\ t.n = task[r].n
      BY <1>1 DEF Task, Pcs
    <3>2. task' = [task EXCEPT ![r] = t]
      BY <2>4
    <3> HIDE DEF t
    <3> QED BY <1>1, <2>3, <3>1, <3>2
  <2>5. CASE task' = [task EXCEPT ![r] = NextRound(r)]
    BY <1>1, <2>1, <2>3, <2>5, NextRoundType
  <2> QED BY <2>2, <2>4, <2>5
<1> QED BY <1>2, <1>3

\* Rounds, tools and the end of a run.
LEMMA LateTurns ==
  ASSUME Inv, NEW r \in Runs,
         ValidateRound(r) \/ Round(r) \/ Tool(r) \/ ToolSaved(r) \/ ValidateFinal(r)
           \/ CheckFinal(r) \/ Complete(r) \/ Pause(r)
  PROVE  Turns(r)
<1>1. /\ up = "up" /\ Working(r) /\ task[r].pc # "idle"
      /\ task[r] \in Task /\ TaskOK(r) /\ task[r].copy \in Row
  BY DEF ValidateRound, Round, Tool, ToolSaved, ValidateFinal, CheckFinal, Complete, Pause,
         At, Working, Inv, TypeOK, TaskOK, Task
<1>2. /\ task[r].use # "title" /\ task[r].copy.status \in Active
      /\ task[r].n <= MaxRounds \/ task[r].pc = "pause"
  BY <1>1 DEF TaskOK, Working
<1>3. CASE ValidateRound(r) \/ ValidateFinal(r)
  BY <1>1, <1>3, ValidateTurns DEF ValidateRound, ValidateFinal, At, Pcs
<1>4. CASE Round(r)
  <2>1. CASE ~StillActive(r)
    BY <1>1, <1>4, <2>1, FailTurns DEF Round
  <2>2. CASE StillActive(r)
    <3> DEFINE t == [task[r] EXCEPT !.pc = "slot", !.use = "round"]
    <3>1. /\ t \in Task /\ t.copy = task[r].copy /\ t.use = "round"
          /\ t.snap = task[r].snap /\ t.pc = "slot" /\ t.n = task[r].n
      BY <1>1 DEF Task, Pcs
    <3>2. Saves(r, task[r].copy, t) /\ task[r].pc = "round"
      BY <1>4, <2>2 DEF Round, Saves, At
    <3> HIDE DEF t
    <3> QED BY <1>1, <1>2, <2>2, <3>1, <3>2, RowTurns DEF StillActive
  <2> QED BY <2>1, <2>2
<1>5. CASE Tool(r)
  BY <1>1, <1>5, FailTurns, ValidateTurns DEF Tool, At, Pcs
<1>6. CASE ToolSaved(r)
  <2>1. CASE ~StillActive(r)
    BY <1>1, <1>6, <2>1, FailTurns DEF ToolSaved
  <2>2. CASE StillActive(r)
    <3>1. Saves(r, task[r].copy, NextRound(r)) /\ task[r].pc = "toolsave"
      BY <1>6, <2>2 DEF ToolSaved, Saves, At
    <3> QED BY <1>1, <1>2, <2>2, <3>1, RowTurns, NextRoundType DEF StillActive
  <2> QED BY <2>1, <2>2
<1>7. CASE CheckFinal(r)
  BY <1>1, <1>7, FailTurns, GotoTurns DEF CheckFinal, At, Pcs
<1>8. CASE Complete(r) \/ Pause(r)
  <2>1. PICK s \in {"completed", "paused"}, pc \in {"append", "drop"} :
          /\ SaveProgress(r, [task[r].copy EXCEPT !.status = s], pc)
          /\ pc = "append" => r \in Chats /\ s = "completed" /\ task[r].pc # "pause"
    BY <1>8 DEF Complete, Pause, At
  <2> DEFINE c == [task[r].copy EXCEPT !.status = s]
  <2>2. /\ c \in Row /\ c.status = s /\ c.man = task[r].copy.man
        /\ c.prov = task[r].copy.prov /\ c.bound = task[r].copy.bound
    BY <1>1 DEF Row, Ended
  <2>3. SameBindings(c, task[r].copy)
    BY <2>2 DEF SameBindings
  <2> HIDE DEF c
  <2> QED BY <1>1, <2>1, <2>2, <2>3, SaveTurns DEF c
<1> QED BY <1>3, <1>4, <1>5, <1>6, <1>7, <1>8

\* Every step of a task is a turn, a write-back, or a step of its end.
LEMMA WorkTurns ==
  ASSUME Inv, NEW r \in Runs, Work(r)
  PROVE  Turns(r) \/ Backfill(r) \/ AppendAnswer(r) \/ Error(r) \/ Panicked(r) \/ Drop(r)
BY EarlyTurns, DispatchTurns, AnswerTurns, LateTurns DEF Work

\* A turn keeps the invariant.
LEMMA TurnStep ==
  ASSUME Inv, NEW r \in Runs, Turns(r)
  PROVE  Inv'
<1>1. CASE \E t \in Task : Moved(r, t)
  BY <1>1, MoveStep DEF Moved
<1>2. CASE \E err \in {"cancelled", "failed"} : Failing(r, err)
  BY <1>2, FailStep DEF Failing
<1>3. CASE \E c \in Row, t \in Task : Saved(r, c, t)
  BY <1>3, SaveStep DEF Saved
<1> QED BY <1>1, <1>2, <1>3 DEF Turns

\* The write-back of a migrated row.
LEMMA BackfillStep ==
  ASSUME Inv, NEW r \in Runs, Backfill(r)
  PROVE  Inv'
<1> DEFINE t == [task[r] EXCEPT !.pc = "extract"]
           m == task[r].m
<1>1. /\ up = "up" /\ task[r].pc = "backfill" /\ task[r] \in Task /\ TaskOK(r)
      /\ task[r].snap \in Material /\ mat \in [Sources -> Material]
  BY DEF Backfill, At, Inv, TypeOK, Task
<1>2. /\ t \in Task /\ t.pc = "extract" /\ t.copy = task[r].copy /\ t.n = task[r].n
      /\ t.use = task[r].use
  BY <1>1 DEF Task, Pcs
<1>3. mat' \in [Sources -> Material]
  <2>1. CASE m \in Sources
    BY <1>1, <2>1 DEF Backfill, Material
  <2>2. CASE m \notin Sources
    BY <1>1, <2>2 DEF Backfill
  <2> QED BY <2>1, <2>2
<1>4. task' = [task EXCEPT ![r] = t] /\ UNCHANGED <<row, tok, conv, prov, sup, up>>
  BY DEF Backfill
<1> HIDE DEF t
<1>5. /\ \A q \in Runs : q # r => Untouched(q)
      /\ task'[r] = t
  BY <1>4 DEF Inv, TypeOK, Untouched
<1>6. Grows(r)
  BY <1>4 DEF Grows
<1>7. TypeOK'
  BY <1>2, <1>3, <1>4 DEF Inv, TypeOK
<1>8. TaskOK(r)'
  BY <1>1, <1>2, <1>4, <1>5 DEF TaskOK, Closing, Working, Said
<1>9. SupOK(r)'
  BY <1>1, <1>2, <1>4, <1>5 DEF Inv, SupOK
<1>10. \A q \in Runs : q # r => TaskOK(q)' /\ SupOK(q)'
  BY <1>4, <1>5, <1>6, Others DEF Inv
<1> QED BY <1>7, <1>8, <1>9, <1>10 DEF Inv

\* A run r that was not there is stored as c and gets its task: started, or
\* continued from another one.
Spawn(r, c) ==
  /\ up = "up" /\ row[r].status = "none"
  /\ c \in Row /\ c.status = "queued" /\ c.prov = prov
  /\ \A m \in c.man : c.bound[m] # 0 => ~mat[m].revoked /\ c.bound[m] = mat[m].sha
  /\ Spawned(r, c)
  /\ UNCHANGED <<mat, prov, up>>
  /\ IF r \in Chats
     THEN /\ Says([role |-> "user", run |-> r, man |-> c.man])
          /\ c.man = conv.sources
          /\ ~\E q \in Chats : IsActive(q)
     ELSE conv' = conv

\* start_ai_run stores a new run.
LEMMA StartSpawns ==
  ASSUME Inv, NEW r \in Runs, NEW S \in SUBSET Sources, StartRun(r, S)
  PROVE  \E c \in Row : Spawn(r, c)
<1>1. /\ NewRun(S) \in Row /\ NewRun(S).status = "queued"
      /\ NewRun(S).man = S /\ NewRun(S).prov = prov
      /\ \A m \in NewRun(S).man : NewRun(S).bound[m] = 0
  BY NewRunType DEF Inv
<1>2. MayStart(r, S) /\ Spawned(r, NewRun(S)) /\ UNCHANGED <<mat, prov, up>>
  BY DEF StartRun
<1>3. r \in Chats => Says([role |-> "user", run |-> r, man |-> S])
  BY DEF StartRun, Says, Message
<1>4. r \notin Chats => conv' = conv
  BY DEF StartRun
<1> QED BY <1>1, <1>2, <1>3, <1>4 DEF Spawn, MayStart

\* continue_ai_run stores a run that goes on, or one that starts again.
LEMMA ContinueSpawns ==
  ASSUME Inv, NEW r \in Runs, NEW n \in Runs, ContinueRun(r, n)
  PROVE  \E c \in Row : Spawn(n, c)
<1>1. /\ up = "up" /\ n \notin Chats /\ row[n].status = "none" /\ BindingsHold(row[r])
      /\ UNCHANGED <<conv, mat, prov, up>> /\ row[r] \in Row /\ row[r].man \in SUBSET Sources
  BY DEF ContinueRun, Inv, TypeOK, Row
<1>2. CASE Spawned(n, NewRun(row[r].man))
  <2> DEFINE c == NewRun(row[r].man)
  <2>1. /\ c \in Row /\ c.status = "queued" /\ c.prov = prov
        /\ \A m \in c.man : c.bound[m] = 0
    BY <1>1, NewRunType DEF Inv
  <2>2. Spawned(n, c)
    BY <1>2
  <2> HIDE DEF c
  <2> QED BY <1>1, <2>1, <2>2 DEF Spawn
<1>3. CASE Spawned(n, [row[r] EXCEPT !.status = "queued", !.rev = row[r].rev + 1])
  <2> DEFINE k == row[r].rev + 1
             c == [row[r] EXCEPT !.status = "queued", !.rev = k]
  <2>1. k \in Nat
    BY <1>1, RowEdits
  <2>2. Spawned(n, c)
    BY <1>3
  <2> HIDE DEF k
  <2>3. /\ c \in Row /\ c.status = "queued" /\ c.prov = row[r].prov
        /\ c.man = row[r].man /\ c.bound = row[r].bound
    BY <1>1, <2>1 DEF Row, Active
  <2> HIDE DEF c
  <2>4. /\ c.prov = prov
        /\ \A m \in c.man : c.bound[m] # 0 => ~mat[m].revoked /\ c.bound[m] = mat[m].sha
    BY <1>1, <2>3 DEF BindingsHold
  <2> QED BY <1>1, <2>2, <2>3, <2>4 DEF Spawn
<1> QED BY <1>2, <1>3 DEF ContinueRun

\* What a step is.
LEMMA Steps ==
  ASSUME Inv, [Next]_vars
  PROVE  \/ \E r \in Runs, c \in Row : Spawn(r, c)
         \/ QuietRequest
         \/ \E r \in Runs : \/ Turns(r) \/ Backfill(r) \/ AppendAnswer(r) \/ Error(r)
                            \/ Panicked(r) \/ Drop(r) \/ Panic(r)
         \/ Crash \/ Open
         \/ UNCHANGED vars
<1>1. CASE \E r \in Runs, S \in SUBSET Sources : StartRun(r, S)
  BY <1>1, StartSpawns
<1>2. CASE \E r, n \in Runs : ContinueRun(r, n)
  BY <1>2, ContinueSpawns
<1>3. CASE \E r \in Runs : Work(r)
  BY <1>3, WorkTurns
<1> QED BY <1>1, <1>2, <1>3 DEF Next, QuietRequest, Restart

\* The end of a task, with an error or a panic.
LEMMA ErrorStep ==
  ASSUME Inv, NEW r \in Runs, Error(r) \/ Panicked(r)
  PROVE  Inv'
<1>1. CASE Error(r)
  <2>1. /\ up = "up" /\ task[r].pc = "error" /\ sup' = sup
        /\ \/ FinishError(r, "drop")
           \/ /\ task' = [task EXCEPT ![r].pc = "drop"]
              /\ UNCHANGED <<row, tok, conv, mat, prov, up>>
    BY <1>1 DEF Error, Goto, At
  <2> QED BY <2>1, EndStep
<1>2. CASE Panicked(r)
  <2>1. /\ up = "up" /\ task[r].pc = "panic" /\ Failed(r)
        /\ \/ FinishError(r, "idle")
           \/ /\ task' = [task EXCEPT ![r].pc = "idle"]
              /\ UNCHANGED <<row, tok, conv, mat, prov, up>>
    BY <1>2 DEF Panicked, At
  <2> QED BY <2>1, EndStep
<1> QED BY <1>1, <1>2

\* The process is gone: tasks, tokens and the supervisor with it.
LEMMA CrashStep ==
  ASSUME Inv, Crash
  PROVE  Inv'
<1>1. /\ up' = "down" /\ task' = [r \in Runs |-> Idle] /\ tok' = [r \in Runs |-> "none"]
      /\ sup' = [r \in Runs |-> "none"] /\ UNCHANGED <<row, conv, mat, prov>>
  BY DEF Crash
<1>2. TypeOK'
  BY <1>1, IdleTypes DEF Inv, TypeOK
<1>3. ASSUME NEW r \in Runs
      PROVE  TaskOK(r)' /\ SupOK(r)'
  BY <1>1, AiRunsAssumption DEF Inv, TaskOK, SupOK, Idle, Closing, Working, Said
<1> QED BY <1>2, <1>3 DEF Inv

\* The workspace is open again.
LEMMA OpenStep ==
  ASSUME Inv, Open
  PROVE  Inv'
<1>1. up = "down" /\ up' = "up" /\ UNCHANGED <<row, task, tok, conv, mat, prov, sup>>
  BY DEF Open, Opened
<1>2. \A q \in Runs : QuietFor(q) /\ task[q].pc = "idle"
  BY <1>1 DEF QuietFor, Inv, TaskOK
<1>3. TypeOK'
  BY <1>1 DEF Inv, TypeOK
<1> QED BY <1>1, <1>2, <1>3, QuietStep

\* Nothing has been started.
LEMMA InvInit == Init => Inv
<1> SUFFICES ASSUME Init PROVE Inv
  OBVIOUS
<1>1. TypeOK
  <2>1. mat \in [Sources -> Material]
    BY DEF Init, NewMaterial, Material
  <2>2. conv \in Conversation
    BY DEF Init, Conversation
  <2> QED BY <2>1, <2>2, IdleTypes DEF Init, TypeOK
<1>2. ASSUME NEW r \in Runs
      PROVE  TaskOK(r) /\ SupOK(r)
  BY AiRunsAssumption DEF Init, TaskOK, SupOK, Idle, NoRow, Closing, Working
<1> QED BY <1>1, <1>2 DEF Inv

\* Every step keeps the invariant.
LEMMA InvNext ==
  ASSUME Inv, [Next]_vars
  PROVE  Inv'
<1>1. ASSUME NEW r \in Runs, NEW c \in Row, Spawn(r, c)
      PROVE  Inv'
  BY <1>1, SpawnStep DEF Spawn
<1>2. CASE QuietRequest
  BY <1>2, QuietRequests, QuietStep DEF Inv, Quiet
<1>3. CASE UNCHANGED vars
  BY <1>3 DEF vars, Inv, TypeOK, TaskOK, SupOK, Said, Closing, Working
<1> QED BY <1>1, <1>2, <1>3, Steps, TurnStep, BackfillStep, AppendStep, ErrorStep, DropStep,
           PanicStep, CrashStep, OpenStep

\* TypeOK, the locals of every task and the supervisor's records, for every
\* execution: what the other theorems start from.
THEOREM Invariant == Spec => []Inv
<1>1. Init => Inv
  BY InvInit
<1>2. Inv /\ [Next]_vars => Inv'
  BY InvNext
<1> QED BY <1>1, <1>2, PTL DEF Spec

-----------------------------------------------------------------------------
(* One turn at a time. *)

\* Only a new run becomes active, one of the conversation only while no other is.
NewlyActive ==
  \E r \in Runs : /\ r \in Chats => ~\E q \in Chats : IsActive(q)
                  /\ \A q \in Runs : q # r /\ IsActive(q)' => IsActive(q)

NoneActivated == \A q \in Runs : IsActive(q)' => IsActive(q)

\* The error path and the panic handler leave no run active that was not.
LEMMA ErrorActivates ==
  ASSUME Inv, NEW r \in Runs, Error(r) \/ Panicked(r)
  PROVE  NoneActivated
<1>1. row' = row \/ FinishError(r, "drop") \/ FinishError(r, "idle")
  BY DEF Error, Panicked, Goto
<1>2. TypeOK /\ row[r].status # "none" /\ {"drop", "idle"} \subseteq Pcs
  BY DEF Error, Panicked, At, Inv, TaskOK, Pcs
<1>3. CASE FinishError(r, "drop") \/ FinishError(r, "idle")
  BY <1>2, <1>3, FinishedRow DEF NoneActivated, IsActive
<1> QED BY <1>1, <1>3 DEF NoneActivated, IsActive

\* What a step may make active: start_ai_run looks for an unfinished run of the
\* conversation in the transaction that stores the new one.
LEMMA Activated ==
  ASSUME Inv, [Next]_vars
  PROVE  NoneActivated \/ NewlyActive
<1>1. TypeOK
  BY DEF Inv
<1>2. ASSUME NEW r \in Runs, NEW c \in Row, Spawn(r, c)
      PROVE  NewlyActive
  BY <1>1, <1>2 DEF Spawn, Spawned, NewlyActive, IsActive, TypeOK
<1>3. CASE QuietRequest
  <2>1. ASSUME NEW r \in Runs, NEW S \in SUBSET Sources, StartFails(r, S)
        PROVE  NewlyActive
    BY <1>1, <2>1 DEF StartFails, MayStart, NewlyActive, IsActive, TypeOK
  <2>2. ASSUME NEW r \in Runs, CancelRun(r) \/ DeleteRun(r) \/ Recover(r)
        PROVE  NoneActivated
    BY <1>1, <2>2 DEF CancelRun, DeleteRun, Recover, NoneActivated, IsActive, TypeOK, Active, Row
  <2>3. ASSUME NEW S \in SUBSET Sources, ReplaceContext(S)
        PROVE  NoneActivated
    BY <1>1, <2>3 DEF ReplaceContext, Deselected, NoneActivated, IsActive, TypeOK
  <2>4. CASE row' = row
    BY <2>4 DEF NoneActivated, IsActive
  <2> QED BY <1>3, <2>1, <2>2, <2>3, <2>4 DEF QuietRequest, RevokeMaterial, ReplaceMaterial,
             ReviseMaterial, SaveProvider
<1>4. ASSUME NEW r \in Runs, Turns(r)
      PROVE  NoneActivated
  BY <1>1, <1>4 DEF Turns, Moved, Moves, Failing, Fail, Saved, Saves, NoneActivated, IsActive,
     TypeOK
<1>5. ASSUME NEW r \in Runs, Backfill(r) \/ AppendAnswer(r) \/ Drop(r) \/ Panic(r)
      PROVE  NoneActivated
  BY <1>5 DEF Backfill, AppendAnswer, Drop, Panic, NoneActivated, IsActive
<1>6. CASE Crash \/ Open \/ UNCHANGED vars
  BY <1>6 DEF Crash, Open, vars, NoneActivated, IsActive
<1> QED BY <1>2, <1>3, <1>4, <1>5, <1>6, ErrorActivates, Steps

\* One unfinished run per conversation, whatever saves fail and whenever the
\* process goes down: start_ai_run's busy check is enough.
THEOREM OneTurnAtATime == Spec => []OneTurn
<1>1. Init => Inv /\ OneActive
  BY InvInit, AiRunsAssumption DEF Init, OneActive, IsActive, Active, NoRow
<1>2. Inv /\ OneActive /\ [Next]_vars => Inv' /\ OneActive'
  <2> SUFFICES ASSUME Inv, OneActive, [Next]_vars
               PROVE  OneActive'
    BY InvNext
  <2>1. Chats \subseteq Runs
    BY AiRunsAssumption
  <2>2. CASE NoneActivated
    BY <2>1, <2>2 DEF NoneActivated, OneActive
  <2>3. CASE NewlyActive
    <3>1. PICK r \in Runs : /\ r \in Chats => ~\E q \in Chats : IsActive(q)
                            /\ \A q \in Runs : q # r /\ IsActive(q)' => IsActive(q)
      BY <2>3 DEF NewlyActive
    <3> QED BY <2>1, <3>1 DEF OneActive
  <2> QED BY <2>2, <2>3, Activated
<1>3. OneActive => OneTurn
  <2> SUFFICES ASSUME OneActive PROVE OneTurn
    OBVIOUS
  <2> DEFINE A == {r \in Chats : IsActive(r)}
  <2>1. CASE A = {}
    BY <2>1, FS_EmptySet DEF OneTurn
  <2>2. CASE A # {}
    <3>1. PICK r \in Chats : A = {r}
      BY <2>2 DEF OneActive
    <3> QED BY <3>1, FS_Singleton DEF OneTurn
  <2> QED BY <2>1, <2>2
<1> QED BY <1>1, <1>2, <1>3, PTL DEF Spec

-----------------------------------------------------------------------------
(* Runs that have ended, and the messages of the conversation. *)

\* An ended row stays or is deleted, a deleted one stays.
Closed(q) ==
  row[q].status \in Ended \cup {"deleted"} =>
    \/ row'[q] = row[q]
    \/ row[q].status # "deleted" /\ row'[q] = [row[q] EXCEPT !.status = "deleted"]

\* The error path and the panic handler look at the stored status.
LEMMA ErrorCloses ==
  ASSUME Inv, NEW r \in Runs, Error(r) \/ Panicked(r), NEW q \in Runs
  PROVE  Closed(q)
<1>1. CASE row' = row
  BY <1>1 DEF Closed
<1>2. CASE FinishError(r, "drop") \/ FinishError(r, "idle")
  <2>1. row[q] \in Row /\ row \in [Runs -> Row]
    BY DEF Inv, TypeOK
  <2>2. CASE q # r
    BY <1>2, <2>1, <2>2 DEF FinishError, Closed
  <2>3. CASE q = r /\ ~IsActive(r)
    <3>1. row'[q] = [row[q] EXCEPT !.status = row[q].status, !.rev = row[q].rev]
      BY <1>2, <2>1, <2>3 DEF FinishError, Finished
    <3>2. [row[q] EXCEPT !.status = row[q].status, !.rev = row[q].rev] = row[q]
      BY <2>1 DEF Row
    <3> QED BY <3>1, <3>2 DEF Closed
  <2>4. CASE q = r /\ IsActive(r)
    BY <2>4 DEF Closed, IsActive, Active, Ended
  <2> QED BY <2>2, <2>3, <2>4
<1> QED BY <1>1, <1>2 DEF Error, Panicked, Goto

\* No step touches a row that has ended, except the deletion by its user.
LEMMA StepCloses ==
  ASSUME Inv, [Next]_vars, NEW q \in Runs
  PROVE  Closed(q)
<1>1. TypeOK
  BY DEF Inv
<1>2. ASSUME NEW r \in Runs, NEW c \in Row, Spawn(r, c)
      PROVE  Closed(q)
  BY <1>1, <1>2 DEF Spawn, Spawned, Closed, TypeOK, Ended
<1>3. CASE QuietRequest
  <2>1. ASSUME NEW r \in Runs, NEW S \in SUBSET Sources, StartFails(r, S)
        PROVE  Closed(q)
    BY <1>1, <2>1 DEF StartFails, MayStart, Closed, TypeOK, Ended
  <2>2. ASSUME NEW r \in Runs, CancelRun(r) \/ DeleteRun(r) \/ Recover(r)
        PROVE  Closed(q)
    BY <1>1, <2>2 DEF CancelRun, DeleteRun, Recover, Closed, IsActive, TypeOK, Active, Ended
  <2>3. ASSUME NEW S \in SUBSET Sources, ReplaceContext(S)
        PROVE  Closed(q)
    BY <1>1, <2>3 DEF ReplaceContext, Deselected, Closed, IsActive, TypeOK, Active, Ended
  <2>4. CASE row' = row
    BY <2>4 DEF Closed
  <2> QED BY <1>3, <2>1, <2>2, <2>3, <2>4 DEF QuietRequest, RevokeMaterial, ReplaceMaterial,
             ReviseMaterial, SaveProvider
<1>4. ASSUME NEW r \in Runs, Turns(r)
      PROVE  Closed(q)
  BY <1>1, <1>4 DEF Turns, Moved, Moves, Failing, Fail, Saved, Saves, Closed, IsActive,
     TypeOK, Active, Ended
<1>5. ASSUME NEW r \in Runs, Backfill(r) \/ AppendAnswer(r) \/ Drop(r) \/ Panic(r)
      PROVE  Closed(q)
  BY <1>5 DEF Backfill, AppendAnswer, Drop, Panic, Closed
<1>6. CASE Crash \/ Open \/ UNCHANGED vars
  BY <1>6 DEF Crash, Open, vars, Closed
<1> QED BY <1>2, <1>3, <1>4, <1>5, <1>6, ErrorCloses, Steps

\* A worker's save, the error path and the panic handler never bring an ended run
\* back or change what it saved.
THEOREM EndedRunsStay == Spec => EndedStays
<1> DEFINE Stays == \A r \in Runs : row[r].status \in Ended =>
                      row'[r] \in {row[r], [row[r] EXCEPT !.status = "deleted"]}
<1>1. Inv /\ [Next]_vars => [Stays]_vars
  BY StepCloses DEF Closed
<1> QED BY <1>1, Invariant, PTL DEF Spec, EndedStays

\* What a step does to the messages: none, a prompt, or the answer of a run that
\* completed, when it is not there yet.
Talks ==
  \/ conv'.msgs = conv.msgs
  \/ \E x \in Message :
       /\ Says(x)
       /\ x.role = "assistant" =>
            /\ row[x.run].status \in {"completed", "deleted"}
            /\ Said(x.run, "user")
            /\ ~\E i \in 1..Len(conv.msgs) : conv.msgs[i] = x

\* Only start_ai_run and finish_ai_chat touch the messages.
LEMMA StepTalks ==
  ASSUME Inv, [Next]_vars
  PROVE  Talks
<1>1. ASSUME NEW r \in Runs, NEW c \in Row, Spawn(r, c)
      PROVE  Talks
  BY <1>1 DEF Spawn, Talks, Says
<1>2. ASSUME NEW r \in Runs, Turns(r)
      PROVE  Talks
  <2>1. conv \in Conversation
    BY DEF Inv, TypeOK
  <2> QED BY <1>2, <2>1 DEF Turns, Moved, Moves, Failing, Fail, Saved, Saves, Talks, Conversation
<1>3. ASSUME NEW r \in Runs, AppendAnswer(r)
      PROVE  Talks
  <2> DEFINE x == [role |-> "assistant", run |-> r, man |-> task[r].copy.man]
  <2>1. /\ task[r].pc = "append" /\ task[r] \in Task /\ TaskOK(r) /\ conv \in Conversation
        /\ x \in Message
    BY <1>3 DEF AppendAnswer, At, Inv, TypeOK, Task, Row, Message
  <2>2. row[r].status \in {"completed", "deleted"} /\ Said(r, "user")
    BY <2>1 DEF TaskOK, Closing
  <2>3. CASE \E i \in 1..Len(conv.msgs) : conv.msgs[i] = x
    BY <1>3, <2>1, <2>3 DEF AppendAnswer, Talks, Conversation
  <2>4. CASE ~\E i \in 1..Len(conv.msgs) : conv.msgs[i] = x
    BY <1>3, <2>1, <2>2, <2>4 DEF AppendAnswer, Talks, Says
  <2> QED BY <2>3, <2>4
<1>4. CASE QuietRequest
  BY <1>4, QuietRequests DEF Inv, Quiet, Talks
<1>5. ASSUME NEW r \in Runs, Backfill(r) \/ Error(r) \/ Panicked(r) \/ Drop(r) \/ Panic(r)
      PROVE  Talks
  BY <1>5 DEF Backfill, Error, Panicked, FinishError, Goto, Drop, Panic, Talks
<1>6. CASE Crash \/ Open \/ UNCHANGED vars
  BY <1>6 DEF Crash, Open, vars, Talks
<1> QED BY <1>1, <1>2, <1>3, <1>4, <1>5, <1>6, Steps

\* finish_ai_chat appends in a second transaction, after the one that completed
\* the run: the answer still follows its prompt, once, and its run completed.
THEOREM AnswersFollowPrompts == Spec => []AnswersFollow
<1>1. Init => AnswersFollow
  BY DEF Init, AnswersFollow
<1>2. Inv /\ AnswersFollow /\ [Next]_vars => AnswersFollow'
  <2> SUFFICES ASSUME Inv, AnswersFollow, [Next]_vars
               PROVE  AnswersFollow'
    OBVIOUS
  <2>1. /\ conv.msgs \in Seq(Message) /\ Len(conv.msgs) \in Nat
        /\ \A i \in 1..Len(conv.msgs) : conv.msgs[i].run \in Runs
    <3>1. conv.msgs \in Seq(Message)
      BY DEF Inv, TypeOK, Conversation
    <3>2. \A i \in 1..Len(conv.msgs) : conv.msgs[i] \in Message
      BY <3>1, ElementOfSeq
    <3> QED BY <3>1, <3>2, LenProperties DEF Message
  <2>2. ASSUME NEW q \in Runs, row[q].status \in {"completed", "deleted"}
        PROVE  row'[q].status \in {"completed", "deleted"}
    <3>1. row[q] \in Row
      BY DEF Inv, TypeOK
    <3> QED BY <2>2, <3>1, StepCloses DEF Closed, Ended, Row
  <2>3. CASE conv'.msgs = conv.msgs
    BY <2>1, <2>2, <2>3 DEF AnswersFollow
  <2>4. ASSUME NEW x \in Message, Says(x),
               x.role = "assistant" =>
                 /\ row[x.run].status \in {"completed", "deleted"}
                 /\ Said(x.run, "user")
                 /\ ~\E i \in 1..Len(conv.msgs) : conv.msgs[i] = x
        PROVE  AnswersFollow'
    <3> DEFINE n == Len(conv.msgs)
    <3>1. /\ Len(conv'.msgs) = n + 1 /\ conv'.msgs[n + 1] = x
          /\ \A i \in 1..n : conv'.msgs[i] = conv.msgs[i]
      BY <2>4, SaysGrows DEF Inv
    <3> SUFFICES ASSUME NEW i \in 1..(n + 1), conv'.msgs[i].role = "assistant"
                 PROVE  /\ row'[conv'.msgs[i].run].status \in {"completed", "deleted"}
                        /\ \E j \in 1..(i - 1) : /\ conv'.msgs[j].run = conv'.msgs[i].run
                                                 /\ conv'.msgs[j].role = "user"
                        /\ ~\E j \in 1..(i - 1) : conv'.msgs[j] = conv'.msgs[i]
      BY <3>1 DEF AnswersFollow
    <3>2. CASE i \in 1..n
      <4>1. /\ conv'.msgs[i] = conv.msgs[i]
            /\ \A j \in 1..(i - 1) : conv'.msgs[j] = conv.msgs[j]
        BY <2>1, <3>1, <3>2
      <4> QED BY <2>1, <2>2, <3>2, <4>1 DEF AnswersFollow
    <3>3. CASE i = n + 1
      <4>1. /\ conv'.msgs[i] = x /\ i - 1 = n
            /\ \A j \in 1..(i - 1) : conv'.msgs[j] = conv.msgs[j]
        BY <2>1, <3>1, <3>3
      <4>2. x.run \in Runs
        BY DEF Message
      <4> QED BY <2>2, <2>4, <4>1, <4>2 DEF Said
    <3> QED BY <2>1, <3>2, <3>3
  <2> QED BY <2>3, <2>4, StepTalks DEF Talks
<1> QED BY <1>1, <1>2, Invariant, PTL DEF Spec

-----------------------------------------------------------------------------
(* The end of a run, when the save of it does not fail. *)

\* A step about the row or task of r.
About(r) == \A q \in Runs : q # r => Untouched(q)

\* It leaves the ends of the other runs as they are.
LEMMA EndOthers ==
  ASSUME NEW r \in Runs, NEW q \in Runs, q # r, EndOK(q), Untouched(q), Grows(r), up' = up
  PROVE  EndOK(q)'
<1>1. Unprompted(q) => Unprompted(q)'
  BY DEF Unprompted, IsActive, Untouched, Grows
<1> QED BY <1>1 DEF EndOK, IsActive, Untouched

\* A task that executes its run, or gives up, has not left it behind.
LEMMA EndTurn ==
  ASSUME EndInv, NEW r \in Runs, Turns(r)
  PROVE  \A q \in Runs : EndOK(q)'
<1>1. Inv /\ TypeOK /\ TaskOK(r) /\ SupOK(r) /\ EndOK(r) /\ conv \in Conversation
  BY DEF EndInv, Inv, TypeOK
<1>2. ASSUME NEW t \in Task, Moved(r, t)
      PROVE  \A q \in Runs : EndOK(q)'
  <2>1. /\ task' = [task EXCEPT ![r] = t] /\ UNCHANGED <<row, tok, mat, prov, sup, up>>
        /\ conv'.msgs = conv.msgs
    BY <1>1, <1>2 DEF Moved, Moves, Conversation
  <2>2. About(r) /\ Grows(r) /\ task'[r] = t
    BY <1>1, <2>1 DEF About, Untouched, TypeOK, Grows
  <2>3. EndOK(r)'
    <3>1. t.pc # "idle" /\ (t.pc = "drop" => ~IsActive(r))
      BY <1>1, <1>2 DEF Moved, Onward, TaskOK, IsActive, Active
    <3> QED BY <1>1, <2>1, <2>2, <3>1 DEF EndOK, IsActive
  <2> QED BY <2>1, <2>2, <2>3, EndOthers DEF EndInv, About
<1>3. ASSUME NEW err \in {"cancelled", "failed"}, Failing(r, err)
      PROVE  \A q \in Runs : EndOK(q)'
  <2> DEFINE t == [Idle EXCEPT !.pc = "error", !.err = err]
  <2>1. /\ task' = [task EXCEPT ![r] = t] /\ UNCHANGED <<row, tok, conv, mat, prov, up>>
        /\ sup' = sup \/ sup' = [sup EXCEPT ![r] = "failed"]
        /\ t.pc = "error"
    BY <1>3 DEF Failing, Fail, Failed, Idle
  <2> HIDE DEF t
  <2>2. About(r) /\ Grows(r) /\ task'[r] = t
    BY <1>1, <2>1 DEF About, Untouched, TypeOK, Grows
  <2>3. EndOK(r)'
    BY <1>1, <2>1, <2>2 DEF EndOK, IsActive, TypeOK
  <2> QED BY <2>1, <2>2, <2>3, EndOthers DEF EndInv, About
<1>4. ASSUME NEW c \in Row, NEW t \in Task, Saved(r, c, t)
      PROVE  \A q \in Runs : EndOK(q)'
  <2>1. /\ task' = [task EXCEPT ![r] = t] /\ row' = [row EXCEPT ![r] = c]
        /\ UNCHANGED <<tok, conv, mat, prov, sup, up>>
    BY <1>4 DEF Saved, Saves
  <2>2. About(r) /\ Grows(r) /\ task'[r] = t /\ row'[r] = c
    BY <1>1, <2>1 DEF About, Untouched, TypeOK, Grows
  <2>3. EndOK(r)'
    <3>1. /\ t.pc # "idle" /\ (t.pc = "drop" => c.status \notin Active)
          /\ c.status # "failed" /\ up = "up"
      BY <1>4 DEF Saved, Onward, Active
    <3>2. IsActive(r)
      BY <1>4 DEF Saved
    <3> QED BY <1>1, <2>1, <2>2, <3>1, <3>2 DEF EndOK, IsActive
  <2> QED BY <2>1, <2>2, <2>3, EndOthers DEF EndInv, About
<1> QED BY <1>2, <1>3, <1>4 DEF Turns

\* A started run has a task.
LEMMA EndSpawn ==
  ASSUME EndInv, NEW r \in Runs, NEW c \in Row, Spawn(r, c)
  PROVE  \A q \in Runs : EndOK(q)'
<1> DEFINE x == [role |-> "user", run |-> r, man |-> c.man]
           t == [Idle EXCEPT !.pc = "admit", !.copy = c]
<1>1. /\ row' = [row EXCEPT ![r] = c] /\ sup' = [sup EXCEPT ![r] = "active"]
      /\ task' = [task EXCEPT ![r] = t] /\ t.pc = "admit"
      /\ tok' = [tok EXCEPT ![r] = "live"] /\ up' = up /\ c.status = "queued"
  BY DEF Spawn, Spawned, Started, Idle
<1>2. About(r) /\ task'[r].pc = "admit" /\ row'[r] = c /\ sup'[r] = "active"
  BY <1>1 DEF About, Untouched, EndInv, Inv, TypeOK
<1>3. Grows(r)
  <2>1. Says(x) \/ conv' = conv
    BY DEF Spawn
  <2>2. x.run = r
    OBVIOUS
  <2> HIDE DEF x
  <2> QED BY <2>1, <2>2, SaysGrows DEF EndInv, Inv, Grows
<1>4. EndOK(r)'
  BY <1>1, <1>2 DEF EndOK
<1> QED BY <1>1, <1>2, <1>3, <1>4, EndOthers DEF EndInv, About

\* Requests and recovery end runs or leave their state; a chat run whose prompt
\* fails is stored without a task.
LEMMA EndQuiet ==
  ASSUME EndInv, QuietRequest
  PROVE  \A q \in Runs : EndOK(q)'
<1> SUFFICES ASSUME NEW q \in Runs PROVE EndOK(q)'
  OBVIOUS
<1>1. Quiet /\ QuietFor(q) /\ EndOK(q) /\ TaskOK(q) /\ SupOK(q) /\ row[q] \in Row
  BY QuietRequests DEF EndInv, Inv, Quiet, TypeOK
<1>2. CASE row[q].status = "none"
  BY <1>1, <1>2 DEF Quiet, QuietFor, EndOK, TaskOK, Unprompted, IsActive, Active, Ended
<1>3. CASE row[q].status \in Active
  BY <1>1, <1>3 DEF Quiet, QuietFor, EndOK, Unprompted, IsActive, Active, Ended
<1>4. CASE row[q].status \in Ended \cup {"deleted"}
  BY <1>1, <1>4 DEF Quiet, QuietFor, EndOK, Unprompted, IsActive, Active, Ended
<1> QED BY <1>1, <1>2, <1>3, <1>4 DEF Row

\* The error path and the panic handler end the run they are about.
LEMMA EndError ==
  ASSUME EndInv, NEW r \in Runs, Error(r) \/ Panicked(r), "save" \notin Faults
  PROVE  \A q \in Runs : EndOK(q)'
<1>1. /\ TypeOK /\ TaskOK(r) /\ SupOK(r) /\ EndOK(r) /\ up = "up" /\ row[r].status # "none"
      /\ task[r].pc \in {"error", "panic"} /\ task[r].err \in {"cancelled", "failed"}
  BY DEF EndInv, Inv, TypeOK, TaskOK, Error, Panicked, At, Task
<1>2. PICK pc \in {"drop", "idle"} :
        /\ FinishError(r, pc)
        /\ \/ sup' = sup /\ task[r].pc = "error"
           \/ sup' = [sup EXCEPT ![r] = "failed"]
  BY DEF Error, Panicked, At, Failed
<1>3. /\ row'[r].status \notin Active \cup {"none"}
      /\ \A q \in Runs : q # r => row'[q] = row[q]
      /\ row[r].status \notin Active => row'[r].status = row[r].status
      /\ row[r].status \in Active =>
           row'[r].status = IF task[r].err = "cancelled" THEN "cancelled" ELSE "failed"
      /\ task' = [task EXCEPT ![r].pc = pc]
      /\ UNCHANGED <<tok, conv, mat, prov, up>>
  <2>1. pc \in Pcs
    BY DEF Pcs
  <2> QED BY <1>1, <1>2, <2>1, FinishedRow
<1>4. About(r) /\ Grows(r) /\ sup'[r] \in {sup[r], "failed"}
  BY <1>1, <1>2, <1>3 DEF About, Untouched, TypeOK, Grows
<1>5. sup'[r] = "failed" \/ (task[r].pc = "error" /\ sup'[r] = sup[r])
  BY <1>1, <1>2 DEF TypeOK
<1>6. EndOK(r)'
  <2>1. sup[r] \in {"active", "failed"}
    BY <1>1 DEF SupOK
  <2>2. row'[r].status = "failed" => sup'[r] = "failed"
    BY <1>1, <1>3, <1>5, <2>1 DEF EndOK, SupOK
  <2>3. sup'[r] # "completed"
    BY <1>5, <2>1
  <2> QED BY <1>3, <2>2, <2>3 DEF EndOK, IsActive
<1> QED BY <1>3, <1>4, <1>6, EndOthers DEF EndInv, About

\* The supervisor joins a task whose run has ended.
LEMMA EndDrop ==
  ASSUME EndInv, NEW r \in Runs, Drop(r)
  PROVE  \A q \in Runs : EndOK(q)'
<1>1. /\ TypeOK /\ SupOK(r) /\ EndOK(r) /\ up = "up" /\ task[r].pc = "drop"
      /\ UNCHANGED <<row, conv, mat, prov, up>>
  BY DEF EndInv, Inv, Drop, At
<1>2. /\ task' = [task EXCEPT ![r] = Idle] /\ tok' = [tok EXCEPT ![r] = "none"]
      /\ sup' = [sup EXCEPT ![r] = IF sup[r] = "failed" THEN sup[r] ELSE "completed"]
  BY DEF Drop, Joined
<1>3. About(r) /\ Grows(r) /\ sup'[r] = IF sup[r] = "failed" THEN "failed" ELSE "completed"
  BY <1>1, <1>2 DEF About, Untouched, TypeOK, Grows
<1>4. EndOK(r)'
  BY <1>1, <1>3 DEF EndOK, SupOK, IsActive
<1> QED BY <1>1, <1>3, <1>4, EndOthers DEF EndInv, About

\* The other steps of a task keep it going.
LEMMA EndGoesOn ==
  ASSUME EndInv, NEW r \in Runs, Backfill(r) \/ AppendAnswer(r) \/ Panic(r)
  PROVE  \A q \in Runs : EndOK(q)'
<1>1. /\ TypeOK /\ TaskOK(r) /\ EndOK(r) /\ up = "up" /\ conv \in Conversation
      /\ UNCHANGED <<row, tok, prov, sup, up>> /\ task[r] \in Task
  BY DEF EndInv, Inv, TypeOK, Backfill, AppendAnswer, Panic, At
<1>2. About(r)
  BY <1>1 DEF About, Untouched, Backfill, AppendAnswer, Panic, TypeOK
<1>3. Grows(r)
  <2>1. CASE conv' = conv
    BY <2>1 DEF Grows
  <2>2. CASE AppendAnswer(r) /\ conv' # conv
    <3> DEFINE x == [role |-> "assistant", run |-> r, man |-> task[r].copy.man]
    <3>1. Says(x)
      BY <1>1, <2>2 DEF AppendAnswer, Says, Message, Conversation, Task, Row
    <3>2. x.run = r
      OBVIOUS
    <3> HIDE DEF x
    <3> QED BY <1>1, <3>1, <3>2, SaysGrows
  <2> QED BY <2>1, <2>2 DEF Backfill, Panic
<1>4. EndOK(r)'
  <2>1. CASE AppendAnswer(r)
    <3>1. ~IsActive(r)
      BY <1>1, <2>1 DEF AppendAnswer, At, TaskOK, Closing, IsActive, Active
    <3> QED BY <1>1, <3>1 DEF EndOK, IsActive
  <2>2. CASE Backfill(r) \/ Panic(r)
    <3>1. task'[r].pc \in {"extract", "panic"}
      BY <1>1, <2>2 DEF Backfill, Panic, TypeOK, Task, Idle
    <3> QED BY <1>1, <3>1 DEF EndOK, IsActive
  <2> QED BY <2>1, <2>2
<1> QED BY <1>1, <1>2, <1>3, <1>4, EndOthers DEF EndInv, About

\* Every started run has a task and a token until it has ended, the supervisor's
\* records follow the tasks, and a failed run is never taken for completed: as
\* long as the save of a run's end does not fail.
THEOREM RunsOwned == ASSUME "save" \notin Faults PROVE Spec => []Owned
<1>1. Init => EndInv
  <2> SUFFICES ASSUME Init PROVE EndInv
    OBVIOUS
  <2>1. \A r \in Runs : EndOK(r)
    BY DEF Init, EndOK, IsActive, Active, NoRow
  <2> QED BY <2>1, InvInit DEF EndInv
<1>2. EndInv /\ [Next]_vars => EndInv'
  <2> SUFFICES ASSUME EndInv, [Next]_vars
               PROVE  \A q \in Runs : EndOK(q)'
    BY InvNext DEF EndInv
  <2>1. CASE Crash
    BY <2>1 DEF Crash, EndOK
  <2>2. CASE Open
    <3>1. /\ \A q \in Runs : ~IsActive(q)
          /\ UNCHANGED <<row, task, tok, conv, mat, prov, sup>>
      BY <2>2 DEF Open, Opened
    <3> QED BY <3>1 DEF EndInv, EndOK, IsActive
  <2>3. CASE UNCHANGED vars
    BY <2>3 DEF vars, EndInv, EndOK, IsActive, Unprompted
  <2> QED BY <2>1, <2>2, <2>3, EndSpawn, EndQuiet, EndError, EndDrop, EndGoesOn, EndTurn, Steps
          DEF EndInv
<1>3. EndInv => Owned
  <2> SUFFICES ASSUME EndInv, up = "up", NEW r \in Runs
               PROVE  /\ IsActive(r) => IF Unprompted(r) THEN task[r].pc = "idle"
                                        ELSE task[r].pc # "idle" /\ tok[r] # "none"
                      /\ task[r].pc # "idle" => sup[r] \in {"active", "failed"}
                      /\ task[r].pc = "idle" => sup[r] # "active"
                      /\ sup[r] = "completed" => row[r].status \notin Active \cup {"failed"}
    BY DEF EndInv, Inv, Owned
  <2>1. TaskOK(r) /\ SupOK(r) /\ EndOK(r)
    BY DEF EndInv, Inv
  <2>2. Unprompted(r) => task[r].pc = "idle"
    BY <2>1 DEF Unprompted, TaskOK, Said
  <2>3. IsActive(r) /\ ~Unprompted(r) => task[r].pc # "idle" /\ tok[r] # "none"
    BY <2>1 DEF EndOK, SupOK
  <2> QED BY <2>1, <2>2, <2>3 DEF EndOK, SupOK
<1> QED BY <1>1, <1>2, <1>3, PTL DEF Spec

-----------------------------------------------------------------------------
(* Requests that leave, when no material is a migrated one. *)

\* What a step does to the material rows: nothing, a user's change or a write-back.
MaterialStep ==
  \/ mat' = mat
  \/ \E r \in Runs : Backfill(r)
  \/ \E m \in Sources : RevokeMaterial(m) \/ ReplaceMaterial(m) \/ ReviseMaterial(m)

\* No other step of a task touches the materials.
LEMMA MaterialSteps ==
  ASSUME Inv, [Next]_vars
  PROVE  MaterialStep
BY Steps DEF MaterialStep, Spawn, QuietRequest, StartFails, CancelRun, DeleteRun, Recover,
   ReplaceContext, SaveProvider, Turns, Moved, Moves, Failing, Fail, Saved, Saves,
   AppendAnswer, Error, Panicked, FinishError, Goto, Drop, Panic, Crash, Open, vars

\* No step writes a row back when every row has its length and format.
LEMMA NothingToBackfill ==
  ASSUME LiveInv, [Next]_vars, Legacy = {}
  PROVE  NoBackfill'
<1> DEFINE Meta(t) == t.snap.meta /\ t.pc # "backfill"
<1>1. Inv /\ TypeOK /\ (\A m \in Sources : mat[m].meta) /\ (\A q \in Runs : Meta(task[q]))
  BY DEF LiveInv, Inv, NoBackfill
<1>2. Meta(Idle)
  BY DEF Idle, NewMaterial
<1> HIDE DEF Meta
<1>3. ASSUME NEW r \in Runs, NEW t, task' = [task EXCEPT ![r] = t], Meta(t)
      PROVE  \A q \in Runs : Meta(task'[q])
  BY <1>1, <1>3 DEF TypeOK
<1>4. \A q \in Runs : Meta(task'[q])
  <2>1. ASSUME NEW r \in Runs, NEW c \in Row, Spawn(r, c)
        PROVE  \A q \in Runs : Meta(task'[q])
    <3> DEFINE t == [Idle EXCEPT !.pc = "admit", !.copy = c]
    <3>1. task' = [task EXCEPT ![r] = t]
      BY <2>1 DEF Spawn, Spawned
    <3>2. Meta(t)
      BY <1>2 DEF Meta, Idle
    <3> QED BY <1>3, <3>1, <3>2
  <2>2. ASSUME NEW r \in Runs, Turns(r)
        PROVE  \A q \in Runs : Meta(task'[q])
    <3>1. ASSUME NEW t \in Task, Moved(r, t)
          PROVE  \A q \in Runs : Meta(task'[q])
      <4>1. Meta(t)
        BY <1>1, <1>2, <3>1 DEF Moved, Meta
      <4> QED BY <1>3, <3>1, <4>1 DEF Moved, Moves
    <3>2. ASSUME NEW err \in {"cancelled", "failed"}, Failing(r, err)
          PROVE  \A q \in Runs : Meta(task'[q])
      <4> DEFINE t == [Idle EXCEPT !.pc = "error", !.err = err]
      <4>1. task' = [task EXCEPT ![r] = t]
        BY <3>2 DEF Failing, Fail
      <4>2. Meta(t)
        BY <1>2 DEF Meta, Idle
      <4> QED BY <1>3, <4>1, <4>2
    <3>3. ASSUME NEW c \in Row, NEW t \in Task, Saved(r, c, t)
          PROVE  \A q \in Runs : Meta(task'[q])
      <4>1. Meta(t)
        BY <1>1, <3>3 DEF Saved, Meta
      <4> QED BY <1>3, <3>3, <4>1 DEF Saved, Saves
    <3> QED BY <2>2, <3>1, <3>2, <3>3 DEF Turns
  <2>3. ASSUME NEW r \in Runs,
               Backfill(r) \/ AppendAnswer(r) \/ Error(r) \/ Panicked(r) \/ Drop(r) \/ Panic(r)
        PROVE  \A q \in Runs : Meta(task'[q])
    <3>1. task[r] \in Task /\ Meta(task[r])
      BY <1>1 DEF TypeOK
    <3>2. PICK t : task' = [task EXCEPT ![r] = t] /\ Meta(t)
      <4>1. CASE Drop(r)
        BY <1>2, <4>1 DEF Drop
      <4>2. CASE Panic(r)
        <5> DEFINE t == [Idle EXCEPT !.pc = "panic"]
        <5>1. task' = [task EXCEPT ![r] = t] /\ Meta(t)
          BY <1>2, <4>2 DEF Panic, Meta, Idle
        <5> QED BY <5>1
      <4>3. CASE Error(r) \/ Panicked(r) \/ Backfill(r)
        <5>1. PICK pc \in {"drop", "idle", "extract"} : task' = [task EXCEPT ![r].pc = pc]
          BY <4>3 DEF Error, Panicked, Backfill, FinishError, Goto
        <5> DEFINE t == [task[r] EXCEPT !.pc = pc]
        <5>2. task' = [task EXCEPT ![r] = t]
          BY <5>1
        <5>3. Meta(t)
          BY <3>1 DEF Meta, Task
        <5> QED BY <5>2, <5>3
      <4>4. CASE AppendAnswer(r)
        <5> DEFINE t == [task[r] EXCEPT !.pc = IF conv.titled THEN "drop" ELSE "slot",
                                        !.use = "title"]
        <5>1. task' = [task EXCEPT ![r] = t]
          BY <4>4 DEF AppendAnswer
        <5>2. Meta(t)
          BY <3>1 DEF Meta, Task
        <5> QED BY <5>1, <5>2
      <4> QED BY <2>3, <4>1, <4>2, <4>3, <4>4
    <3> QED BY <1>3, <3>2
  <2>4. CASE QuietRequest \/ Open \/ UNCHANGED vars
    BY <1>1, <2>4, QuietRequests DEF Quiet, Open, vars
  <2>5. CASE Crash
    BY <1>2, <2>5 DEF Crash
  <2> QED BY <1>1, <2>1, <2>2, <2>3, <2>4, <2>5, Steps
<1>5. \A m \in Sources : mat'[m].meta
  <2>1. ASSUME NEW m \in Sources, RevokeMaterial(m) \/ ReplaceMaterial(m) \/ ReviseMaterial(m)
        PROVE  \A k \in Sources : mat'[k].meta
    <3>1. \A k \in Sources : mat[k] \in Material /\ mat[k].meta
      BY <1>1 DEF TypeOK
    <3> QED BY <1>1, <2>1, <3>1
          DEF RevokeMaterial, ReplaceMaterial, ReviseMaterial, TypeOK, Material
  <2>2. CASE mat' = mat
    BY <1>1, <2>2
  <2>3. MaterialStep
    BY <1>1, MaterialSteps
  <2>4. ASSUME NEW r \in Runs, Backfill(r)
        PROVE  FALSE
    BY <1>1, <2>4 DEF Backfill, At, Meta
  <2> QED BY <2>1, <2>2, <2>3, <2>4 DEF MaterialStep
<1> QED BY <1>4, <1>5 DEF NoBackfill, Meta

\* Steps about run r leave the others working under the same bindings.
LEMMA LiveOthers ==
  ASSUME NEW r \in Runs, NEW q \in Runs, q # r, LiveOK(q), Untouched(q),
         conv'.sources = conv.sources, mat' = mat, prov' = prov
  PROVE  LiveOK(q)'
BY DEF LiveOK, Untouched, Working, IsActive

\* A step that executes a run keeps what its last validation saw.
LEMMA LiveTurn ==
  ASSUME LiveInv, NEW r \in Runs, Turns(r)
  PROVE  \A q \in Runs : LiveOK(q)'
<1>1. TypeOK /\ TaskOK(r) /\ LiveOK(r) /\ conv \in Conversation
  BY DEF LiveInv, Inv, TypeOK
<1>2. ASSUME NEW t \in Task, Moved(r, t)
      PROVE  \A q \in Runs : LiveOK(q)'
  <2>1. /\ task' = [task EXCEPT ![r] = t] /\ UNCHANGED <<row, tok, mat, prov, sup, up>>
        /\ conv'.sources = conv.sources
    BY <1>1, <1>2 DEF Moved, Moves, Conversation
  <2>2. About(r) /\ task'[r] = t
    BY <1>1, <2>1 DEF About, Untouched, TypeOK
  <2>3. LiveOK(r)'
    <3> SUFFICES ASSUME t.use # "title", tok[r] = "live"
                 PROVE  /\ IsActive(r)
                        /\ row[r].man = t.copy.man
                        /\ t.copy.prov = prov
                        /\ r \in Chats => t.copy.man \subseteq conv.sources
                        /\ \A m \in t.copy.man : t.copy.bound[m] # 0 =>
                             ~mat[m].revoked /\ t.copy.bound[m] = mat[m].sha
      BY <2>1, <2>2 DEF LiveOK, Working, IsActive
    <3>1. Working(r) /\ SameBindings(t.copy, task[r].copy)
      BY <1>2 DEF Moved
    <3> QED BY <1>1, <3>1 DEF LiveOK, SameBindings
  <2> QED BY <2>1, <2>2, <2>3, LiveOthers DEF LiveInv, About
<1>3. ASSUME NEW err \in {"cancelled", "failed"}, Failing(r, err)
      PROVE  \A q \in Runs : LiveOK(q)'
  <2> DEFINE t == [Idle EXCEPT !.pc = "error", !.err = err]
  <2>1. /\ task' = [task EXCEPT ![r] = t] /\ UNCHANGED <<row, tok, conv, mat, prov, up>>
        /\ sup' = sup \/ sup' = [sup EXCEPT ![r] = "failed"]
        /\ t.pc = "error"
    BY <1>3 DEF Failing, Fail, Failed, Idle
  <2> HIDE DEF t
  <2>2. About(r) /\ task'[r] = t
    BY <1>1, <2>1 DEF About, Untouched, TypeOK
  <2>3. LiveOK(r)'
    BY <2>1, <2>2 DEF LiveOK, Working
  <2> QED BY <2>1, <2>2, <2>3, LiveOthers DEF LiveInv, About
<1>4. ASSUME NEW c \in Row, NEW t \in Task, Saved(r, c, t)
      PROVE  \A q \in Runs : LiveOK(q)'
  <2>1. /\ task' = [task EXCEPT ![r] = t] /\ row' = [row EXCEPT ![r] = c]
        /\ UNCHANGED <<tok, conv, mat, prov, sup, up>>
    BY <1>4 DEF Saved, Saves
  <2>2. About(r) /\ task'[r] = t /\ row'[r] = c
    BY <1>1, <2>1 DEF About, Untouched, TypeOK
  <2>3. LiveOK(r)'
    <3> SUFFICES ASSUME t.pc \notin {"drop", "append"}, tok[r] = "live"
                 PROVE  /\ c.status \in Active
                        /\ c.man = t.copy.man
                        /\ t.copy.prov = prov
                        /\ r \in Chats => t.copy.man \subseteq conv.sources
                        /\ \A m \in t.copy.man : t.copy.bound[m] # 0 =>
                             ~mat[m].revoked /\ t.copy.bound[m] = mat[m].sha
      BY <2>1, <2>2 DEF LiveOK, Working, IsActive
    <3>1. /\ Working(r) /\ SameBindings(t.copy, task[r].copy) /\ t.copy.man = c.man
          /\ c.status \in Active
      BY <1>4 DEF Saved
    <3> QED BY <1>1, <3>1 DEF LiveOK, SameBindings
  <2> QED BY <2>1, <2>2, <2>3, LiveOthers DEF LiveInv, About
<1> QED BY <1>2, <1>3, <1>4 DEF Turns

\* What takes a binding away cancels the token of every run it is about.
LEMMA LiveQuiet ==
  ASSUME LiveInv, QuietRequest
  PROVE  \A q \in Runs : LiveOK(q)'
<1> SUFFICES ASSUME NEW q \in Runs, Working(q)', tok'[q] = "live"
             PROVE  LET c == task'[q].copy IN
                    /\ row'[q].status \in Active
                    /\ row'[q].man = c.man
                    /\ c.prov = prov'
                    /\ q \in Chats => c.man \subseteq conv'.sources
                    /\ \A m \in c.man :
                         c.bound[m] # 0 => ~mat'[m].revoked /\ c.bound[m] = mat'[m].sha
  BY DEF LiveOK, IsActive
<1>1. TypeOK /\ TaskOK(q) /\ row[q] \in Row /\ task[q] \in Task
  BY DEF LiveInv, Inv, TypeOK
<1>2. task' = task /\ tok[q] = "live" /\ Working(q)
  BY <1>1, QuietRequests DEF Quiet, QuietFor, Working
<1> DEFINE c == task[q].copy
<1>3. /\ IsActive(q) /\ row[q].man = c.man /\ c.prov = prov
      /\ q \in Chats => c.man \subseteq conv.sources
      /\ \A m \in c.man : c.bound[m] # 0 => ~mat[m].revoked /\ c.bound[m] = mat[m].sha
      /\ c.man \subseteq Sources
  BY <1>1, <1>2 DEF LiveInv, LiveOK, Task, Row
<1> HIDE DEF c
<1>4. row[q].status \in Active /\ row[q].status # "none"
  BY <1>3 DEF IsActive, Active
<1>5. ASSUME NEW r \in Runs, NEW S \in SUBSET Sources, StartFails(r, S)
      PROVE  /\ row'[q] = row[q] /\ UNCHANGED <<conv, mat, prov>>
  BY <1>1, <1>4, <1>5 DEF StartFails, MayStart, TypeOK
<1>6. ASSUME NEW r \in Runs, CancelRun(r) \/ DeleteRun(r) \/ Recover(r)
      PROVE  /\ row'[q] = row[q] /\ UNCHANGED <<conv, mat, prov>>
  <2>1. q # r
    <3>1. ~CancelRun(q)
      BY <1>1, <1>2 DEF CancelRun, TypeOK
    <3>2. ~DeleteRun(q)
      BY <1>4 DEF DeleteRun, Active, Ended
    <3>3. ~Recover(q)
      BY <1>1, <1>2 DEF Recover, TaskOK
    <3> QED BY <1>6, <3>1, <3>2, <3>3
  <2> QED BY <1>1, <1>6, <2>1 DEF CancelRun, DeleteRun, Recover, TypeOK
<1>7. ASSUME NEW S \in SUBSET Sources, ReplaceContext(S)
      PROVE  /\ row'[q] = row[q] /\ UNCHANGED <<mat, prov>>
             /\ q \in Chats => c.man \subseteq conv'.sources
  <2>1. q \notin Deselected(S)
    BY <1>1, <1>2, <1>7 DEF ReplaceContext
  <2>2. conv'.sources = S
    BY <1>1, <1>7 DEF ReplaceContext, TypeOK, Conversation
  <2> QED BY <1>3, <1>7, <2>1, <2>2 DEF ReplaceContext, Deselected
<1>8. ~AllCancelled
  BY <1>1, CancelledTokens
<1>9. ASSUME NEW m \in Sources, ReviseMaterial(m)
      PROVE  /\ UNCHANGED <<row, conv, prov>>
             /\ \A k \in Sources : mat'[k].revoked = mat[k].revoked /\ mat'[k].sha = mat[k].sha
  <2>1. mat \in [Sources -> Material]
    BY <1>1 DEF TypeOK
  <2> QED BY <1>9, <2>1 DEF ReviseMaterial, Material
<1> QED BY <1>2, <1>3, <1>4, <1>5, <1>6, <1>7, <1>8, <1>9
       DEF QuietRequest, RevokeMaterial, ReplaceMaterial, SaveProvider, c

\* A new run is bound to the present provider and context.
LEMMA LiveSpawn ==
  ASSUME LiveInv, NEW r \in Runs, NEW c \in Row, Spawn(r, c)
  PROVE  \A q \in Runs : LiveOK(q)'
<1> DEFINE t == [Idle EXCEPT !.pc = "admit", !.copy = c]
<1>1. /\ row' = [row EXCEPT ![r] = c] /\ task' = [task EXCEPT ![r] = t]
      /\ tok' = [tok EXCEPT ![r] = "live"] /\ sup' = [sup EXCEPT ![r] = "active"]
      /\ UNCHANGED <<mat, prov, up>> /\ t.copy = c
  BY DEF Spawn, Spawned, Started, Idle
<1> HIDE DEF t
<1>2. About(r) /\ task'[r] = t /\ row'[r] = c
  BY <1>1 DEF About, Untouched, LiveInv, Inv, TypeOK
<1>3. conv'.sources = conv.sources
  BY SaysGrows DEF Spawn, LiveInv, Inv
<1>4. LiveOK(r)'
  BY <1>1, <1>2, <1>3 DEF Spawn, LiveOK, IsActive, Active
<1> QED BY <1>1, <1>2, <1>3, <1>4, LiveOthers DEF LiveInv, About

\* A task past its run has no binding to keep.
LEMMA LiveEnd ==
  ASSUME LiveInv, NEW r \in Runs, AppendAnswer(r) \/ Error(r) \/ Panicked(r) \/ Drop(r) \/ Panic(r)
  PROVE  \A q \in Runs : LiveOK(q)'
<1>1. TypeOK /\ task[r] \in Task /\ conv \in Conversation
  BY DEF LiveInv, Inv, TypeOK
<1>2. /\ UNCHANGED <<mat, prov>> /\ conv'.sources = conv.sources
  BY <1>1 DEF AppendAnswer, Error, Panicked, Drop, Panic, FinishError, Goto, Conversation
<1>3. About(r)
  BY <1>1 DEF About, Untouched, TypeOK, AppendAnswer, Error, Panicked, Drop, Panic,
     FinishError, Goto, Failed, Joined
<1>4. ~Working(r)'
  <2>1. CASE Drop(r) \/ Panic(r)
    BY <1>1, <2>1 DEF Drop, Panic, Working, Idle, TypeOK
  <2>2. CASE Error(r) \/ Panicked(r) \/ AppendAnswer(r)
    BY <1>1, <2>2 DEF Error, Panicked, AppendAnswer, FinishError, Goto, Working, TypeOK, Task
  <2> QED BY <2>1, <2>2
<1> QED BY <1>2, <1>3, <1>4, LiveOthers DEF LiveInv, About, LiveOK

\* Nothing is bound at the start.
LEMMA LiveInit ==
  ASSUME Init, Legacy = {}
  PROVE  LiveInv
<1>1. NoBackfill
  BY DEF Init, NoBackfill, NewMaterial, Idle
<1>2. \A q \in Runs : LiveOK(q)
  BY DEF Init, LiveOK, Working, Idle
<1> QED BY <1>1, <1>2, InvInit DEF LiveInv

\* Every step keeps the bindings of the live runs.
LEMMA LiveNext ==
  ASSUME LiveInv, [Next]_vars, Legacy = {}
  PROVE  LiveInv'
<1>1. Inv' /\ NoBackfill'
  BY InvNext, NothingToBackfill DEF LiveInv
<1>2. ASSUME NEW r \in Runs, Backfill(r)
      PROVE  FALSE
  BY <1>2 DEF Backfill, At, LiveInv, NoBackfill
<1>3. ASSUME Crash
      PROVE  \A q \in Runs : LiveOK(q)'
  BY <1>3 DEF Crash, LiveOK, Working, Idle
<1>4. ASSUME Open \/ UNCHANGED vars
      PROVE  \A q \in Runs : LiveOK(q)'
  BY <1>4 DEF Open, vars, LiveInv, LiveOK, Working, IsActive
<1>5. \A q \in Runs : LiveOK(q)'
  BY <1>2, <1>3, <1>4, LiveSpawn, LiveQuiet, LiveTurn, LiveEnd, Steps DEF LiveInv
<1> QED BY <1>1, <1>5 DEF LiveInv

\* Only the last check under the gate lets a request leave.
LEMMA OnlySend ==
  ASSUME Inv, [Next]_vars, NEW r \in Runs, task[r].pc = "send", task'[r].pc = "sent"
  PROVE  Send(r)
<1>1. TypeOK /\ up = "up"
  BY DEF Inv, TypeOK, TaskOK
<1>2. task'[r] # task[r]
  OBVIOUS
<1>3. ASSUME NEW q \in Runs, q # r, Work(q)
      PROVE  task'[r] = task[r]
  <2>1. CASE Turns(q)
    BY <1>1, <1>3, <2>1 DEF Turns, Moved, Moves, Failing, Fail, Saved, Saves, TypeOK
  <2>2. CASE Backfill(q) \/ AppendAnswer(q) \/ Error(q) \/ Panicked(q) \/ Drop(q)
    BY <1>1, <1>3, <2>2 DEF Backfill, AppendAnswer, Error, Panicked, FinishError, Goto, Drop,
       TypeOK
  <2> QED BY <1>3, <2>1, <2>2, WorkTurns
<1>4. CASE Work(r)
  BY <1>4 DEF Work, At, Admit, Start, Read, ReadBytes, Backfill, Extract, AllRead, History,
     Built, ValidateRound, Round, TakeSlot, SendFails, Answer, Tool, ToolSaved, ValidateFinal,
     CheckFinal, Complete, Pause, AppendAnswer, Error, Panicked, Drop
<1>5. ASSUME NEW q \in Runs, Panic(q)
      PROVE  FALSE
  BY <1>1, <1>2, <1>5 DEF Panic, TypeOK, Idle
<1>6. ASSUME NEW q \in Runs, NEW c \in Row, Spawn(q, c)
      PROVE  FALSE
  <2>1. q # r
    BY <1>6 DEF Spawn, Inv, TaskOK
  <2> QED BY <1>1, <1>2, <1>6, <2>1 DEF Spawn, Spawned, TypeOK
<1>7. CASE QuietRequest
  BY <1>1, <1>2, <1>7, QuietRequests DEF Quiet
<1>8. CASE Crash
  BY <1>8 DEF Crash, Idle
<1>9. CASE Open \/ UNCHANGED vars
  BY <1>2, <1>9 DEF Open, vars
<1>10. ASSUME NEW q \in Runs, NEW S \in SUBSET Sources, StartRun(q, S)
       PROVE  FALSE
  BY <1>6, <1>10, StartSpawns
<1>11. ASSUME NEW q \in Runs, NEW n \in Runs, ContinueRun(q, n)
       PROVE  FALSE
  BY <1>6, <1>11, ContinueSpawns
<1> QED BY <1>2, <1>3, <1>4, <1>5, <1>7, <1>8, <1>9, <1>10, <1>11 DEF Next, QuietRequest, Restart

\* A request of a round or of OCR that leaves is bound to the present provider,
\* context and sources, although these were last looked at before the wait for a
\* slot: the token carries every change to the last check.
THEOREM RequestsBound == ASSUME Legacy = {} PROVE Spec => SentBound
<1> DEFINE Bound == \A r \in Runs :
      task[r].pc = "send" /\ task'[r].pc = "sent" /\ task[r].use # "title" =>
        LET c == task[r].copy IN
        /\ IsActive(r)
        /\ c.prov = prov
        /\ r \in Chats => c.man \subseteq conv.sources
        /\ \A m \in c.man : c.bound[m] # 0 => ~mat[m].revoked /\ c.bound[m] = mat[m].sha
<1>1. Init => LiveInv
  BY LiveInit
<1>2. LiveInv /\ [Next]_vars => LiveInv'
  BY LiveNext
<1>3. LiveInv /\ [Next]_vars => [Bound]_vars
  <2> SUFFICES ASSUME LiveInv, [Next]_vars, NEW r \in Runs, task[r].pc = "send",
                      task'[r].pc = "sent", task[r].use # "title"
               PROVE  LET c == task[r].copy IN
                      /\ IsActive(r)
                      /\ c.prov = prov
                      /\ r \in Chats => c.man \subseteq conv.sources
                      /\ \A m \in c.man :
                           c.bound[m] # 0 => ~mat[m].revoked /\ c.bound[m] = mat[m].sha
    OBVIOUS
  <2>1. Send(r) /\ TypeOK /\ SupOK(r) /\ LiveOK(r)
    BY OnlySend DEF LiveInv, Inv
  <2>2. tok[r] # "cancelled"
    BY <2>1 DEF Send, Cancelled, NoAnswer, Goto, Fail, TypeOK, Task, Idle
  <2>3. tok[r] = "live" /\ Working(r)
    BY <2>1, <2>2 DEF SupOK, Send, At, TypeOK, Working
  <2> QED BY <2>1, <2>3 DEF LiveOK
<1> QED BY <1>1, <1>2, <1>3, PTL DEF Spec, SentBound

\* Without migrated rows a material row never returns to an earlier revision: the
\* write-back is the only step that can take one back.
THEOREM MaterialsAdvance == ASSUME Legacy = {} PROVE Spec => MaterialAdvances
<1> DEFINE Adv == \A m \in Sources : mat'[m].rev >= mat[m].rev
<1>1. LiveInv /\ [Next]_vars => [Adv]_vars
  <2> SUFFICES ASSUME LiveInv, [Next]_vars, NEW m \in Sources
               PROVE  mat'[m].rev >= mat[m].rev
    OBVIOUS
  <2>1. mat \in [Sources -> Material] /\ mat[m] \in Material /\ mat[m].rev \in Nat
    BY DEF LiveInv, Inv, TypeOK, Material
  <2>2. ASSUME NEW k \in Sources, RevokeMaterial(k) \/ ReplaceMaterial(k) \/ ReviseMaterial(k)
        PROVE  mat'[m].rev \in {mat[m].rev, mat[m].rev + 1}
    BY <2>1, <2>2 DEF RevokeMaterial, ReplaceMaterial, ReviseMaterial, Material
  <2>3. ASSUME NEW r \in Runs, Backfill(r)
        PROVE  FALSE
    BY <2>3 DEF Backfill, At, LiveInv, NoBackfill
  <2> QED BY <2>1, <2>2, <2>3, MaterialSteps DEF MaterialStep, LiveInv
<1>2. Init => LiveInv
  BY LiveInit
<1>3. LiveInv /\ [Next]_vars => LiveInv'
  BY LiveNext
<1> QED BY <1>1, <1>2, <1>3, PTL DEF Spec, MaterialAdvances
=============================================================================
