--------------------------- MODULE DocumentWorker ---------------------------
(***************************************************************************)
(* One extraction of a PDF by an isolated child process.  The parent sends *)
(* a request, takes one page at a time, has the image of a scanned page    *)
(* read by a model while the child waits, and acknowledges the page; the   *)
(* child may fail, crash or stall at any point, the parent may be          *)
(* cancelled, run out of its render budget, or be dropped at any await.    *)
(* What the parent records about the end of the child is its ledger.       *)
(***************************************************************************)
EXTENDS Naturals, Sequences, FiniteSets

CONSTANTS MaxPages, \* pages of the document
          Scanned,  \* pages whose image needs a model
          Budget    \* render budget, in ticks (90 s in the code)

ASSUME DocumentWorkerAssumption ==
  /\ {MaxPages, Budget} \subseteq Nat
  /\ Scanned \subseteq 1..MaxPages

VARIABLES
  job,       \* the request: its mode, the pages it selects and whether it has a model
  pc,        \* where the parent is
  result,    \* the result the parent returns or is about to return
  page,      \* the page the parent holds, 0 for none
  body,      \* text collected so far: 2n for the text of page n, 2n + 1 for its image
  spent,     \* render budget charged
  wait,      \* ticks of the read or write under way
  waited,    \* ticks spent in all reads and writes
  cancelled, \* the cancellation token
  noting,    \* the exit the parent is recording while stderr drains
  recorded,  \* exit_recorded
  ledger,    \* recorded intents and exits
  child,     \* where the child is
  todo,      \* selected pages the child has not rendered
  stdin, stdout, \* frames in the pipes
  killed     \* start_kill was called

parent == <<job, pc, result, page, body, spent, wait, waited, noting, recorded, ledger>>

vars == <<parent, cancelled, child, todo, stdin, stdout, killed>>

Waiting == {"write", "read", "ack"}

Over == {"end", "dropped"}

Pcs == Waiting \cup Over \cup {"start", "ocr", "finish", "grace", "abort", "reap",
                               "note", "cleanup", "cleanup_note"}

Alive == {"request", "render", "meta", "wait_ack", "closing", "failing"}

Dead == {"exit0", "exit1", "killed"}

\* The child ends with its pipes closed, or has ended.
Gone == Dead \cup {"failing"}

Results == {"none", "ok", "cancelled", "timeout", "exited", "other"}

Exits == {"natural", "after_cleanup"}

Frame == [kind : {"page", "done", "metadata", "failure"}, page : 0..MaxPages]

TypeOK ==
  /\ job \in [mode : {"render", "metadata"}, pages : SUBSET (1..MaxPages), ocr : BOOLEAN]
  /\ pc \in Pcs /\ result \in Results
  /\ page \in 0..MaxPages /\ body \in Seq(2..(2 * MaxPages + 1))
  /\ spent \in 0..Budget /\ wait \in 0..Budget /\ waited \in Nat
  /\ cancelled \in BOOLEAN /\ recorded \in BOOLEAN /\ killed \in BOOLEAN
  /\ noting \in Exits \cup {"none"}
  /\ ledger \in Seq(Exits \cup {"intent"})
  /\ child \in Alive \cup Dead \cup {"none"}
  /\ todo \subseteq 1..MaxPages
  /\ stdin \in Seq({"request", "ack"}) /\ stdout \in Seq(Frame)

\* An empty selection never reaches the child.
Init ==
  /\ job \in [mode : {"render"}, pages : SUBSET (1..MaxPages) \ {{}}, ocr : BOOLEAN]
             \cup [mode : {"metadata"}, pages : {{}}, ocr : {FALSE}]
  /\ pc = "start" /\ result = "none" /\ page = 0 /\ body = <<>>
  /\ spent = 0 /\ wait = 0 /\ waited = 0
  /\ cancelled = FALSE /\ noting = "none" /\ recorded = FALSE /\ ledger = <<>>
  /\ child = "none" /\ todo = job.pages /\ stdin = <<>> /\ stdout = <<>> /\ killed = FALSE

-----------------------------------------------------------------------------
(* Helpers of the parent. *)

\* The operation ends with error e: a worker that seems gone gets a grace period.
Fail(e) ==
  /\ result' = e
  /\ pc' = IF e = "exited" THEN "grace" ELSE "abort"

Noted(x) == IF recorded THEN ledger ELSE Append(ledger, x)

Kill == /\ killed' = TRUE
        /\ ledger' = Append(ledger, "intent")

\* Faulty variant: the time of each read or write is forgotten.
Charge_PerPage == /\ wait' = 0
                  /\ UNCHANGED <<spent, waited>>

\* The read or write under way has ended and its time counts for the document.
Charge == /\ spent' = spent + wait
          /\ wait' = 0
          /\ UNCHANGED waited

OutsideChild == <<cancelled, child, todo>>

-----------------------------------------------------------------------------
(* Parent: starting the child and the page protocol. *)

Refuse ==
  /\ pc = "start" /\ cancelled
  /\ result' = "cancelled" /\ pc' = "end"
  /\ UNCHANGED <<job, page, body, spent, wait, waited, noting, recorded, ledger,
                 OutsideChild, stdin, stdout, killed>>

Spawn ==
  /\ pc = "start" /\ ~cancelled
  /\ child' = "request" /\ pc' = "write"
  /\ UNCHANGED <<job, result, page, body, spent, wait, waited, noting, recorded, ledger,
                 cancelled, todo, stdin, stdout, killed>>

\* The child runs but its job, stdin, stdout or stderr cannot be had.
LaunchFails ==
  /\ pc = "start" /\ ~cancelled
  /\ child' = "request" /\ pc' = "cleanup" /\ result' = "other"
  /\ Kill
  /\ UNCHANGED <<job, page, body, spent, wait, waited, noting, recorded,
                 cancelled, todo, stdin, stdout>>

CleanedUp ==
  /\ pc = "cleanup" /\ child \in Dead
  /\ pc' = "cleanup_note"
  /\ UNCHANGED <<job, result, page, body, spent, wait, waited, noting, recorded, ledger,
                 OutsideChild, stdin, stdout, killed>>

CleanupNoted ==
  /\ pc = "cleanup_note"
  /\ pc' = "end" /\ recorded' = TRUE /\ ledger' = Append(ledger, "after_cleanup")
  /\ UNCHANGED <<job, result, page, body, spent, wait, waited, noting,
                 OutsideChild, stdin, stdout, killed>>

\* A tick of the read or write under way.
Tick ==
  /\ pc \in Waiting /\ spent + wait < Budget
  /\ wait' = wait + 1 /\ waited' = waited + 1
  /\ UNCHANGED <<job, pc, result, page, body, spent, noting, recorded, ledger,
                 OutsideChild, stdin, stdout, killed>>

\* A spent budget is an error before the token is looked at; a read or write under
\* way prefers the token.
Timeout ==
  /\ pc \in Waiting /\ spent + wait = Budget
  /\ cancelled => wait = 0
  /\ Fail("timeout") /\ wait' = 0
  /\ UNCHANGED <<job, page, body, spent, waited, noting, recorded, ledger,
                 OutsideChild, stdin, stdout, killed>>

StopWaiting ==
  /\ pc \in Waiting /\ cancelled /\ spent < Budget
  /\ Charge /\ Fail("cancelled")
  /\ UNCHANGED <<job, page, body, noting, recorded, ledger,
                 OutsideChild, stdin, stdout, killed>>

\* The frame of the write under way enters the pipe of a child that still runs.
Write(frame) ==
  /\ ~cancelled /\ spent < Budget
  /\ child \notin Dead
  /\ stdin' = Append(stdin, frame)
  /\ pc' = "read"
  /\ Charge

WriteRequest ==
  /\ pc = "write"
  /\ Write("request")
  /\ UNCHANGED <<job, result, page, body, noting, recorded, ledger,
                 OutsideChild, stdout, killed>>

Acknowledge ==
  /\ pc = "ack"
  /\ Write("ack")
  /\ page' = 0
  /\ UNCHANGED <<job, result, body, noting, recorded, ledger,
                 OutsideChild, stdout, killed>>

WriteFails ==
  /\ pc \in {"write", "ack"} /\ ~cancelled /\ spent < Budget
  /\ child \in Gone
  /\ Charge /\ Fail("exited")
  /\ UNCHANGED <<job, page, body, noting, recorded, ledger,
                 OutsideChild, stdin, stdout, killed>>

\* The first frame in stdout is taken; the rest of the step says what is made of it.
Read(kinds) ==
  /\ pc = "read" /\ ~cancelled /\ spent < Budget
  /\ stdout # <<>>
  /\ Head(stdout).kind \in kinds
  /\ stdout' = Tail(stdout)
  /\ Charge

ReadPage ==
  /\ Read({"page"})
  /\ LET n == Head(stdout).page IN
     /\ page' = n
     /\ body' = Append(body, 2 * n)
     /\ CASE n \notin Scanned -> pc' = "ack" /\ UNCHANGED result
          [] n \in Scanned /\ job.ocr -> pc' = "ocr" /\ UNCHANGED result
          [] OTHER -> Fail("other")
  /\ UNCHANGED <<job, noting, recorded, ledger, OutsideChild, stdin, killed>>

\* The text of the page does not fit.
RejectPage ==
  /\ Read({"page"})
  /\ Fail("other")
  /\ UNCHANGED <<job, page, body, noting, recorded, ledger, OutsideChild, stdin, killed>>

ReadFailure ==
  /\ Read({"failure"})
  /\ Fail("other")
  /\ UNCHANGED <<job, page, body, noting, recorded, ledger, OutsideChild, stdin, killed>>

ReadLast ==
  /\ Read({"done", "metadata"})
  /\ pc' = "finish"
  /\ UNCHANGED <<job, result, page, body, noting, recorded, ledger,
                 OutsideChild, stdin, killed>>

\* The pipe of a child that is ending is empty.
ReadEnd ==
  /\ pc = "read" /\ ~cancelled /\ spent < Budget
  /\ stdout = <<>> /\ child \in Gone
  /\ Charge /\ Fail("exited")
  /\ UNCHANGED <<job, page, body, noting, recorded, ledger,
                 OutsideChild, stdin, stdout, killed>>

-----------------------------------------------------------------------------
(* Parent: the model request races the end of the child, which is polled. *)

OcrCancelled ==
  /\ pc = "ocr" /\ cancelled
  /\ Fail("cancelled") /\ noting' = "none"
  /\ UNCHANGED <<job, page, body, spent, wait, waited, recorded, ledger,
                 OutsideChild, stdin, stdout, killed>>

ObserveExit ==
  /\ pc = "ocr" /\ ~cancelled /\ noting = "none"
  /\ child \in Dead
  /\ noting' = "natural"
  /\ UNCHANGED <<job, pc, result, page, body, spent, wait, waited, recorded, ledger,
                 OutsideChild, stdin, stdout, killed>>

ExitObserved ==
  /\ pc = "ocr" /\ ~cancelled /\ noting = "natural"
  /\ ledger' = Noted("natural") /\ recorded' = TRUE /\ noting' = "none"
  /\ Fail("exited")
  /\ UNCHANGED <<job, page, body, spent, wait, waited,
                 OutsideChild, stdin, stdout, killed>>

\* An answer drops the recording of an exit that has not finished.
OcrAnswer ==
  /\ pc = "ocr" /\ ~cancelled
  /\ body' = Append(body, 2 * page + 1)
  /\ pc' = "ack" /\ noting' = "none"
  /\ UNCHANGED <<job, result, page, spent, wait, waited, recorded, ledger,
                 OutsideChild, stdin, stdout, killed>>

OcrFails ==
  /\ pc = "ocr" /\ ~cancelled
  /\ Fail("other") /\ noting' = "none"
  /\ UNCHANGED <<job, page, body, spent, wait, waited, recorded, ledger,
                 OutsideChild, stdin, stdout, killed>>

-----------------------------------------------------------------------------
(* Parent: the end of the operation. *)

\* Faulty variant: the exit status is not looked at.
FinishExit_AnyStatus ==
  /\ pc = "finish" /\ child \in Dead
  /\ result' = "ok"
  /\ noting' = "natural" /\ pc' = "note"
  /\ UNCHANGED <<job, page, body, spent, wait, waited, recorded, ledger,
                 OutsideChild, stdin, stdout, killed>>

FinishExit ==
  /\ pc = "finish" /\ child \in Dead
  /\ result' = IF child = "exit0" THEN "ok" ELSE "exited"
  /\ noting' = "natural" /\ pc' = "note"
  /\ UNCHANGED <<job, page, body, spent, wait, waited, recorded, ledger,
                 OutsideChild, stdin, stdout, killed>>

FinishTimeout ==
  /\ pc = "finish" /\ child \notin Dead
  /\ result' = "exited" /\ pc' = "abort"
  /\ UNCHANGED <<job, page, body, spent, wait, waited, noting, recorded, ledger,
                 OutsideChild, stdin, stdout, killed>>

Grace ==
  /\ pc = "grace" /\ child \in Dead
  /\ noting' = "natural" /\ pc' = "note"
  /\ UNCHANGED <<job, result, page, body, spent, wait, waited, recorded, ledger,
                 OutsideChild, stdin, stdout, killed>>

GraceOver ==
  /\ pc = "grace" /\ child \notin Dead
  /\ pc' = "abort"
  /\ UNCHANGED <<job, result, page, body, spent, wait, waited, noting, recorded, ledger,
                 OutsideChild, stdin, stdout, killed>>

Abort ==
  /\ pc = "abort"
  /\ CASE recorded -> pc' = "end" /\ UNCHANGED <<noting, ledger, killed>>
       [] ~recorded /\ child \in Dead ->
            pc' = "note" /\ noting' = "natural" /\ UNCHANGED <<ledger, killed>>
       [] OTHER -> pc' = "reap" /\ Kill /\ UNCHANGED noting
  /\ UNCHANGED <<job, result, page, body, spent, wait, waited, recorded,
                 OutsideChild, stdin, stdout>>

Reap ==
  /\ pc = "reap" /\ child \in Dead
  /\ noting' = "after_cleanup" /\ pc' = "note"
  /\ UNCHANGED <<job, result, page, body, spent, wait, waited, recorded, ledger,
                 OutsideChild, stdin, stdout, killed>>

\* Faulty variant: an exit recorded before is recorded again.
Note_Again ==
  /\ pc = "note"
  /\ ledger' = Append(ledger, noting) /\ recorded' = TRUE
  /\ noting' = "none" /\ pc' = "end"
  /\ UNCHANGED <<job, result, page, body, spent, wait, waited,
                 OutsideChild, stdin, stdout, killed>>

Note ==
  /\ pc = "note"
  /\ ledger' = Noted(noting) /\ recorded' = TRUE
  /\ noting' = "none" /\ pc' = "end"
  /\ UNCHANGED <<job, result, page, body, spent, wait, waited,
                 OutsideChild, stdin, stdout, killed>>

\* Faulty variant: a dropped worker is left to itself.
Drop_Leaves ==
  /\ pc \notin Over \cup {"start"}
  /\ pc' = "dropped" /\ result' = "none" /\ page' = 0 /\ noting' = "none"
  /\ UNCHANGED <<job, body, spent, wait, waited, recorded, ledger,
                 OutsideChild, stdin, stdout, killed>>

\* The future that owns the worker is dropped at an await.  A worker whose launch
\* failed has been killed and has no owner.
Drop ==
  /\ pc \notin Over \cup {"start"}
  /\ pc' = "dropped" /\ result' = "none" /\ page' = 0 /\ noting' = "none"
  /\ CASE recorded \/ pc \in {"cleanup", "cleanup_note"} ->
            UNCHANGED <<recorded, ledger, killed>>
       [] ~recorded /\ pc \notin {"cleanup", "cleanup_note"} /\ child \in Dead ->
            ledger' = Append(ledger, "natural") /\ recorded' = TRUE /\ UNCHANGED killed
       [] OTHER -> Kill /\ UNCHANGED recorded
  /\ UNCHANGED <<job, body, spent, wait, waited, OutsideChild, stdin, stdout>>

Cancel ==
  /\ pc \notin Over /\ ~cancelled
  /\ cancelled' = TRUE
  /\ UNCHANGED <<parent, child, todo, stdin, stdout, killed>>

-----------------------------------------------------------------------------
(* The child. *)

ChildReads ==
  /\ child = "request" /\ stdin # <<>>
  /\ stdin' = Tail(stdin)
  /\ child' = IF job.mode = "render" THEN "render" ELSE "meta"
  /\ UNCHANGED <<parent, cancelled, todo, stdout, killed>>

ChildSends(kind, n) == stdout' = Append(stdout, [kind |-> kind, page |-> n])

\* Faulty variant: the next page does not wait for the acknowledgement of this one.
RenderPage_Ahead ==
  /\ child = "render"
  /\ \E n \in todo : /\ \A k \in todo : n <= k
                    /\ ChildSends("page", n)
                    /\ todo' = todo \ {n}
  /\ UNCHANGED <<parent, cancelled, child, stdin, killed>>

RenderPage ==
  /\ child = "render"
  /\ \E n \in todo : /\ \A k \in todo : n <= k
                    /\ ChildSends("page", n)
                    /\ todo' = todo \ {n}
  /\ child' = "wait_ack"
  /\ UNCHANGED <<parent, cancelled, stdin, killed>>

ChildAcked ==
  /\ child = "wait_ack" /\ stdin # <<>>
  /\ stdin' = Tail(stdin) /\ child' = "render"
  /\ UNCHANGED <<parent, cancelled, todo, stdout, killed>>

ChildEnds ==
  /\ \/ child = "render" /\ todo = {} /\ ChildSends("done", 0)
     \/ child = "meta" /\ ChildSends("metadata", 0)
  /\ child' = "closing"
  /\ UNCHANGED <<parent, cancelled, todo, stdin, killed>>

\* Rendering fails, or the parent's end of the pipe is closed.
ChildFails ==
  /\ \/ child \in {"render", "meta"} /\ pc \notin Over /\ ChildSends("failure", 0)
     \/ child \in {"request", "wait_ack"} /\ pc \in Over /\ UNCHANGED stdout
  /\ child' = "failing"
  /\ UNCHANGED <<parent, cancelled, todo, stdin, killed>>

ChildExits ==
  /\ child \in {"closing", "failing"}
  /\ child' = IF child = "closing" THEN "exit0" ELSE "exit1"
  /\ UNCHANGED <<parent, cancelled, todo, stdin, stdout, killed>>

\* A panic, a native fault or a memory limit: the pipes close before it has ended.
ChildCrashes ==
  /\ child \in Alive \ {"failing"}
  /\ child' = "failing"
  /\ UNCHANGED <<parent, cancelled, todo, stdin, stdout, killed>>

ChildKilled ==
  /\ child \in Alive /\ killed
  /\ child' = "killed"
  /\ UNCHANGED <<parent, cancelled, todo, stdin, stdout, killed>>

-----------------------------------------------------------------------------
ParentNext ==
  \/ Refuse \/ Spawn \/ LaunchFails \/ CleanedUp \/ CleanupNoted
  \/ Tick \/ Timeout \/ StopWaiting
  \/ WriteRequest \/ Acknowledge \/ WriteFails
  \/ ReadPage \/ RejectPage \/ ReadFailure \/ ReadLast \/ ReadEnd
  \/ OcrCancelled \/ ObserveExit \/ ExitObserved \/ OcrAnswer \/ OcrFails
  \/ FinishExit \/ FinishTimeout \/ Grace \/ GraceOver \/ Abort \/ Reap \/ Note

ChildNext ==
  \/ ChildReads \/ RenderPage \/ ChildAcked \/ ChildEnds \/ ChildFails
  \/ ChildExits \/ ChildCrashes \/ ChildKilled

Next == ParentNext \/ ChildNext \/ Drop \/ Cancel

Spec == Init /\ [][Next]_vars

\* The parent is scheduled and its waits have deadlines: a read or write the
\* render budget, a model request the timeout of its transport, the end of the
\* child 2 s.  The system ends a killed process.  A child may stall for ever.
FairSpec == Spec /\ WF_vars(ParentNext) /\ WF_vars(ChildKilled)

-----------------------------------------------------------------------------
(* Properties. *)

Pieces == {2 * n : n \in job.pages} \cup {2 * n + 1 : n \in job.pages \cap Scanned}

\* A successful extraction has the text and the image of every selected page once
\* and in order, from a child that said it was done and exited with success.
WholeText ==
  pc = "end" /\ result = "ok" =>
    /\ {body[i] : i \in 1..Len(body)} = Pieces
    /\ \A i \in 1..(Len(body) - 1) : body[i] < body[i + 1]
    /\ child = "exit0" /\ ledger = <<"natural">>

ExitsOf(s) == {i \in 1..Len(s) : s[i] \in Exits}

\* Besides types: the exit of a child is recorded once at most, and an operation
\* that returns after starting a child has reaped it; its ledger then calls the
\* exit natural exactly if the parent did not stop the child.
Reaped ==
  /\ TypeOK
  /\ Cardinality(ExitsOf(ledger)) <= 1
  /\ pc = "end" /\ child # "none" =>
       /\ child \in Dead
       /\ ledger = IF killed THEN <<"intent", "after_cleanup">> ELSE <<"natural">>

\* All reads and writes of one document together wait no longer than its budget.
Budgeted == waited <= Budget

\* Every operation ends, and its child does not outlive it.
Settles == <>[](pc \in Over /\ child \notin Alive)

\* The text of a page, and its image when it has one, have been collected.
Collected(n) ==
  /\ \E i \in 1..Len(body) : body[i] = 2 * n
  /\ n \in Scanned => \E i \in 1..Len(body) : body[i] = 2 * n + 1

Stream == INSTANCE PageStream WITH
  wanted <- job.pages,
  rendered <- job.pages \ todo,
  collected <- {n \in job.pages : Collected(n)},
  outcome <- IF pc # "end" THEN (IF pc = "dropped" THEN "failed" ELSE "running")
             ELSE IF result = "ok" THEN "ok" ELSE "failed"

\* Parent, pipes and child together are a stream of the selected pages: the next one
\* is rendered when all before it are collected, and success means all of them.
Streams == Stream!Spec
=============================================================================
