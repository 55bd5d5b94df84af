------------------------ MODULE DocumentWorkerProofs ------------------------
(***************************************************************************)
(* TLAPS proofs about DocumentWorker, for every document, every set of     *)
(* scanned pages and every budget.                                         *)
(***************************************************************************)
EXTENDS DocumentWorker, FiniteSetTheorems, SequenceTheorems, TLAPS

\* The pages the child has rendered, and what has been collected of them.
Rendered == job.pages \ todo

Got == {body[i] : i \in 1..Len(body)}

\* What the end of the parent may record, by whether it stopped the child and
\* whether it has recorded an exit.
Recording ==
  IF killed THEN IF recorded THEN <<"intent", "after_cleanup">> ELSE <<"intent">>
            ELSE IF recorded THEN <<"natural">> ELSE <<>>

\* The ledger, and what each place of the parent knows of the child.
LedgerOK ==
  /\ IF pc # "dropped" THEN ledger = Recording
     ELSE ledger \in {<<>>, <<"intent">>, <<"natural">>, <<"intent", "after_cleanup">>,
                      <<"intent", "intent">>, <<"intent", "natural">>}
  /\ recorded => pc \in {"grace", "note", "abort"} \cup Over /\ child \in Dead
  /\ killed => pc \in {"cleanup", "cleanup_note", "reap", "note"} \cup Over
  /\ noting # "none" => pc \in {"ocr", "note"} /\ child \in Dead
  /\ pc = "ocr" => noting # "after_cleanup"
  /\ pc = "note" => noting = IF killed THEN "after_cleanup" ELSE "natural"
  /\ pc = "note" /\ recorded => ~killed
  /\ pc \in {"cleanup", "cleanup_note", "reap"} => killed
  /\ pc = "cleanup_note" => child \in Dead
  /\ pc = "start" <=> child = "none" /\ pc # "end"
  /\ pc = "end" /\ child # "none" => child \in Dead /\ recorded
  /\ result = "ok" => pc \in {"note", "end"} /\ child = "exit0" /\ ~killed

\* The time of all reads and writes, as long as there may be another one.
BudgetOK ==
  /\ spent + wait <= Budget
  /\ waited <= Budget
  /\ pc \in Waiting \cup {"start", "ocr"} => waited = spent + wait

\* The pipes: one frame in each at most, and a page frame only while the child
\* waits for its acknowledgement.
PipesOK ==
  /\ stdin \in {<<>>, <<"request">>, <<"ack">>}
  /\ stdout = <<>> \/ \E f \in Frame : stdout = <<f>>
  /\ pc \in {"start", "write"} => /\ child \in {"none", "request", "failing"} \cup Dead
                                  /\ stdin = <<>> /\ stdout = <<>>
  /\ pc \in {"ocr", "ack"} => /\ child \notin {"none", "request", "render", "meta"}
                              /\ stdin = <<>> /\ stdout = <<>>
  /\ child \in {"none", "request", "render", "meta"} => stdout = <<>>
  /\ child \in {"render", "meta"} => stdin = <<>>
  /\ child = "wait_ack" /\ stdin # <<>> => stdout = <<>>
  /\ stdout # <<>> /\ stdout[1].kind = "page" => stdin = <<>>

\* No page is on its way from the child into the text.
AllIn ==
  \/ child \in {"none", "request", "render", "meta", "closing", "exit0"}
  \/ child = "wait_ack" /\ stdin # <<>>
  \/ pc = "ack"

\* The pages: rendered in order, at most one of them not collected yet, and that
\* one where the protocol says.
PagesOK ==
  /\ todo \subseteq job.pages
  /\ job.mode = "metadata" => job.pages = {}
  /\ child = "meta" => job.pages = {}
  /\ \A n \in Rendered, k \in todo : n < k
  /\ \A v \in Got : \E n \in Rendered : v = 2 * n \/ (v = 2 * n + 1 /\ n \in Scanned)
  /\ \A i, j \in 1..Len(body) : i < j => body[i] < body[j]
  /\ AllIn => \A n \in Rendered : Collected(n)
  /\ child \in {"closing", "exit0"} => todo = {}
  /\ stdout # <<>> /\ stdout[1].kind = "page" =>
       /\ stdout[1].page \in Rendered
       /\ \A v \in Got : v < 2 * stdout[1].page
       /\ \A n \in Rendered \ {stdout[1].page} : Collected(n)
  /\ pc = "ocr" =>
       /\ page \in Rendered \cap Scanned
       /\ 2 * page \in Got
       /\ \A v \in Got : v <= 2 * page
       /\ \A n \in Rendered \ {page} : Collected(n)

Inv == TypeOK /\ LedgerOK /\ BudgetOK /\ PipesOK /\ PagesOK

-----------------------------------------------------------------------------
(* Types. *)

\* Short ledgers and pipes as sequences.
LEMMA Shorts ==
  /\ \A x : Append(<<>>, x) = <<x>>
  /\ \A x, y : Append(<<x>>, y) = <<x, y>>
  /\ \A x : Len(<<x>>) = 1 /\ Head(<<x>>) = x /\ Tail(<<x>>) = <<>> /\ <<x>>[1] = x
  /\ \A x : <<x>> # <<>>
  /\ \A x, y : Len(<<x, y>>) = 2
<1>1. \A x : Append(<<>>, x) = <<x>>
  OBVIOUS
<1>2. ASSUME NEW x, NEW y
      PROVE  Append(<<x>>, y) = <<x, y>>
  <2>1. <<x>> \in Seq({x, y}) /\ <<x, y>> \in Seq({x, y}) /\ y \in {x, y}
    OBVIOUS
  <2>2. /\ Append(<<x>>, y) \in Seq({x, y}) /\ Len(Append(<<x>>, y)) = 2
        /\ Append(<<x>>, y)[1] = x /\ Append(<<x>>, y)[2] = y
    BY <2>1, AppendProperties
  <2>3. Len(<<x, y>>) = 2 /\ <<x, y>>[1] = x /\ <<x, y>>[2] = y
    OBVIOUS
  <2> DEFINE t == Append(<<x>>, y)
             u == <<x, y>>
  <2>4. /\ t \in Seq({x, y}) /\ u \in Seq({x, y}) /\ Len(t) = Len(u)
        /\ \A i \in 1..Len(t) : t[i] = u[i]
    BY <2>1, <2>2, <2>3
  <2> HIDE DEF t, u
  <2>5. t = u
    BY <2>4, SeqEqual
  <2> QED BY <2>5 DEF t, u
<1>3. \A x : Len(<<x>>) = 1 /\ Head(<<x>>) = x /\ Tail(<<x>>) = <<>> /\ <<x>>[1] = x
  OBVIOUS
<1>4. \A x : <<x>> # <<>>
  OBVIOUS
<1>5. \A x, y : Len(<<x, y>>) = 2
  OBVIOUS
<1> QED BY <1>1, <1>2, <1>3, <1>4, <1>5

\* The text and the image of a page.
LEMMA PieceTypes ==
  ASSUME NEW n \in 1..MaxPages
  PROVE  /\ n \in 0..MaxPages /\ n \in Nat
         /\ 2 * n \in 2..(2 * MaxPages + 1) /\ 2 * n + 1 \in 2..(2 * MaxPages + 1)
<1>1. MaxPages \in Nat
  BY DocumentWorkerAssumption
<1> QED BY <1>1

\* Another record.
LEMMA LedgerGrows ==
  ASSUME TypeOK, NEW x \in Exits \cup {"intent"}
  PROVE  Append(ledger, x) \in Seq(Exits \cup {"intent"})
<1>1. ledger \in Seq(Exits \cup {"intent"})
  BY DEF TypeOK
<1> QED BY <1>1, AppendProperties

\* What the child sends.
LEMMA Frames ==
  ASSUME TypeOK
  PROVE  /\ RenderPage => \E n \in todo : \E f \in Frame :
              /\ stdout' = Append(stdout, f) /\ f.kind = "page" /\ f.page = n
              /\ todo' = todo \ {n} /\ \A k \in todo : n <= k
         /\ ChildEnds \/ (ChildFails /\ stdout' # stdout) =>
              \E f \in Frame : stdout' = Append(stdout, f) /\ f.kind # "page"
<1>1. 0 \in 0..MaxPages /\ todo \subseteq 0..MaxPages
  BY PieceTypes, DocumentWorkerAssumption DEF TypeOK
<1>2. \A k \in {"page", "done", "metadata", "failure"}, n \in 0..MaxPages :
        /\ [kind |-> k, page |-> n] \in Frame
        /\ [kind |-> k, page |-> n].kind = k /\ [kind |-> k, page |-> n].page = n
  BY DEF Frame
<1>3. ASSUME RenderPage
      PROVE  \E n \in todo : \E f \in Frame :
               /\ stdout' = Append(stdout, f) /\ f.kind = "page" /\ f.page = n
               /\ todo' = todo \ {n} /\ \A k \in todo : n <= k
  BY <1>1, <1>2, <1>3 DEF RenderPage, ChildSends
<1>4. ASSUME ChildEnds \/ (ChildFails /\ stdout' # stdout)
      PROVE  \E f \in Frame : stdout' = Append(stdout, f) /\ f.kind # "page"
  <2>1. PICK k \in {"done", "metadata", "failure"} :
          stdout' = Append(stdout, [kind |-> k, page |-> 0])
    BY <1>4 DEF ChildEnds, ChildFails, ChildSends
  <2> QED BY <1>1, <1>2, <2>1
<1> QED BY <1>3, <1>4

\* Every step keeps the types.
LEMMA TypeNext ==
  ASSUME Inv, [Next]_vars
  PROVE  TypeOK'
<1> USE DocumentWorkerAssumption DEF Inv, TypeOK, OutsideChild, Pcs, Waiting, Over
<1>1. CASE Refuse
  BY <1>1 DEF Refuse, Results
<1>2. CASE Spawn
  BY <1>2 DEF Spawn, Alive
<1>3. CASE LaunchFails
  BY <1>3 DEF LaunchFails, Kill, Alive, Exits, Results
<1>4. CASE CleanedUp
  BY <1>4 DEF CleanedUp
<1>5. CASE CleanupNoted
  BY <1>5 DEF CleanupNoted, Exits
<1>6. CASE Tick
  BY <1>6 DEF Tick
<1>7. CASE Timeout
  BY <1>7 DEF Timeout, Fail, Results
<1>8. CASE StopWaiting
  BY <1>8 DEF StopWaiting, BudgetOK, Charge, Fail, Results
<1>9. CASE WriteRequest
  BY <1>9 DEF WriteRequest, BudgetOK, Write, Charge
<1>10. CASE Acknowledge
  BY <1>10 DEF Acknowledge, BudgetOK, Write, Charge
<1>11. CASE WriteFails
  BY <1>11 DEF WriteFails, BudgetOK, Charge, Fail, Results
<1>12. CASE ReadPage
  <2>1. /\ stdout # <<>> /\ Head(stdout).kind = "page" /\ stdout' = Tail(stdout)
        /\ spent' = spent + wait /\ wait' = 0 /\ waited' = waited
        /\ page' = Head(stdout).page /\ body' = Append(body, 2 * Head(stdout).page)
        /\ pc' \in Pcs /\ result' \in Results
        /\ UNCHANGED <<job, noting, recorded, ledger, cancelled, child, todo, stdin, killed>>
    BY <1>12 DEF ReadPage, Read, Charge, Fail, OutsideChild, Pcs, Waiting, Over, Results, Inv, TypeOK
  <2>2. Head(stdout).page \in 1..MaxPages /\ stdout' \in Seq(Frame)
    BY <2>1 DEF Inv, PipesOK, PagesOK, Rendered, TypeOK
  <2> DEFINE n == Head(stdout).page
  <2>3. 2 * n \in 2..(2 * MaxPages + 1) /\ n \in 0..MaxPages
    BY <2>2, PieceTypes
  <2> HIDE DEF n
  <2>4. spent' \in 0..Budget /\ wait' \in 0..Budget
    BY <2>1 DEF Inv, BudgetOK, TypeOK
  <2>5. body' \in Seq(2..(2 * MaxPages + 1)) /\ page' \in 0..MaxPages
    BY <2>1, <2>3, AppendProperties DEF Inv, TypeOK, n
  <2> QED BY <2>1, <2>2, <2>4, <2>5 DEF Inv, TypeOK
<1>13. CASE RejectPage
  BY <1>13 DEF RejectPage, BudgetOK, Read, Charge, Fail, Results
<1>14. CASE ReadFailure
  BY <1>14 DEF ReadFailure, BudgetOK, Read, Charge, Fail, Results
<1>15. CASE ReadLast
  BY <1>15 DEF ReadLast, BudgetOK, Read, Charge
<1>16. CASE ReadEnd
  BY <1>16 DEF ReadEnd, BudgetOK, Read, Charge, Fail, Results
<1>17. CASE OcrAnswer
  <2>1. page \in 1..MaxPages
    BY <1>17 DEF OcrAnswer, Inv, PagesOK, Rendered, TypeOK
  <2>2. 2 * page + 1 \in 2..(2 * MaxPages + 1)
    BY <2>1
  <2>3. body' \in Seq(2..(2 * MaxPages + 1))
    BY <1>17, <2>2, AppendProperties DEF OcrAnswer, Inv, TypeOK
  <2> QED BY <1>17, <2>3 DEF OcrAnswer, OutsideChild, Pcs, Waiting, Inv, TypeOK
<1>18. CASE OcrCancelled
  BY <1>18 DEF OcrCancelled, Fail, Results, Exits
<1>19. CASE ObserveExit
  BY <1>19 DEF ObserveExit, Exits
<1>20. CASE ExitObserved
  BY <1>20 DEF ExitObserved, Noted, Fail, Results, Exits
<1>21. CASE OcrFails
  BY <1>21 DEF OcrFails, Fail, Results
<1>22. CASE FinishExit
  BY <1>22 DEF FinishExit, Results, Exits
<1>23. CASE FinishTimeout
  BY <1>23 DEF FinishTimeout, Results
<1>24. CASE Grace
  BY <1>24 DEF Grace, Exits
<1>25. CASE GraceOver
  BY <1>25 DEF GraceOver
<1>26. CASE Abort
  <2>1. \/ ledger' = ledger
        \/ ledger' = Append(ledger, "intent")
    BY <1>26 DEF Abort, Kill
  <2>2. ledger' \in Seq(Exits \cup {"intent"})
    BY <2>1, LedgerGrows
  <2>3. /\ pc' \in Pcs /\ noting' \in Exits \cup {"none"} /\ killed' \in BOOLEAN
        /\ UNCHANGED <<job, result, page, body, spent, wait, waited, recorded,
                       OutsideChild, stdin, stdout>>
    BY <1>26 DEF Abort, Kill, Exits
  <2> QED BY <2>2, <2>3
<1>27. CASE Reap
  BY <1>27 DEF Reap, Exits
<1>28. CASE Note
  BY <1>28 DEF Note, LedgerOK, Noted, Exits
<1>29. CASE Drop
  <2>1. \/ ledger' = ledger
        \/ ledger' = Append(ledger, "intent")
        \/ ledger' = Append(ledger, "natural")
    BY <1>29 DEF Drop, Kill
  <2>2. ledger' \in Seq(Exits \cup {"intent"})
    BY <2>1, LedgerGrows DEF Exits
  <2>3. /\ pc' \in Pcs /\ noting' \in Exits \cup {"none"} /\ killed' \in BOOLEAN
        /\ recorded' \in BOOLEAN /\ result' \in Results /\ page' = 0
        /\ UNCHANGED <<job, body, spent, wait, waited, OutsideChild, stdin, stdout>>
    BY <1>29 DEF Drop, Kill, Results
  <2>4. page' \in 0..MaxPages
    BY <2>3
  <2> QED BY <2>2, <2>3, <2>4
<1>30. CASE Cancel
  BY <1>30 DEF Cancel, parent
<1>31. CASE ChildReads
  BY <1>31 DEF ChildReads, parent, Alive
<1>32. CASE ChildAcked
  BY <1>32 DEF ChildAcked, parent, Alive
<1>33. CASE ChildExits
  BY <1>33 DEF ChildExits, parent, Dead
<1>34. CASE ChildCrashes
  BY <1>34 DEF ChildCrashes, parent, Alive
<1>35. CASE ChildKilled
  BY <1>35 DEF ChildKilled, parent, Dead
<1>36. CASE RenderPage \/ ChildEnds \/ ChildFails
  <2>2. UNCHANGED parent /\ UNCHANGED cancelled /\ UNCHANGED stdin /\ UNCHANGED killed
    BY <1>36 DEF RenderPage, ChildEnds, ChildFails
  <2>3. \/ stdout' = stdout
        \/ \E f \in Frame : stdout' = Append(stdout, f)
    BY <1>36, Frames DEF ChildFails
  <2>4. stdout' \in Seq(Frame)
    <3>1. stdout \in Seq(Frame)
      OBVIOUS
    <3>2. ASSUME NEW f \in Frame
          PROVE  Append(stdout, f) \in Seq(Frame)
      BY <3>1, AppendProperties
    <3> QED BY <2>3, <3>1, <3>2
  <2>5. child' \in Alive /\ todo' \subseteq 1..MaxPages
    BY <1>36 DEF RenderPage, ChildEnds, ChildFails, Alive, Inv, TypeOK
  <2> QED BY <2>2, <2>4, <2>5 DEF Inv, TypeOK, parent
<1>37. CASE UNCHANGED vars
  BY <1>37 DEF vars, parent
<1> QED BY <1>1, <1>2, <1>3, <1>4, <1>5, <1>6, <1>7, <1>8, <1>9, <1>10, <1>11, <1>12, <1>13,
       <1>14, <1>15, <1>16, <1>17, <1>18, <1>19, <1>20, <1>21, <1>22, <1>23, <1>24, <1>25,
       <1>26, <1>27, <1>28, <1>29, <1>30, <1>31, <1>32, <1>33, <1>34, <1>35, <1>36, <1>37 DEF
       Next, ParentNext, ChildNext

-----------------------------------------------------------------------------
(* The budget. *)

\* Time passes only in a read or write, and counts when it has ended.
LEMMA BudgetNext ==
  ASSUME Inv, [Next]_vars
  PROVE  BudgetOK'
<1>1. /\ spent \in Nat /\ wait \in Nat /\ waited \in Nat /\ Budget \in Nat
      /\ spent + wait <= Budget /\ waited <= Budget
      /\ pc \in Waiting \cup {"start", "ocr"} => waited = spent + wait
  BY DocumentWorkerAssumption DEF Inv, TypeOK, BudgetOK
<1>2. ASSUME UNCHANGED <<spent, wait, waited>>,
             pc' \in Waiting \cup {"start", "ocr"} => pc \in Waiting \cup {"start", "ocr"}
      PROVE  BudgetOK'
  BY <1>1, <1>2 DEF BudgetOK
<1>3. ASSUME Charge, pc \in Waiting
      PROVE  BudgetOK'
  BY <1>1, <1>3 DEF BudgetOK, Charge
<1>4. CASE Tick
  BY <1>1, <1>4 DEF BudgetOK, Tick
<1>5. CASE Timeout
  <2>1. waited' = waited /\ wait' = 0 /\ spent' = spent /\ pc' = "abort"
    BY <1>5 DEF Timeout, Fail
  <2> QED BY <1>1, <2>1 DEF BudgetOK, Waiting
<1>6. CASE StopWaiting \/ WriteRequest \/ Acknowledge \/ WriteFails \/ ReadPage
             \/ RejectPage \/ ReadFailure \/ ReadLast \/ ReadEnd
  BY <1>3, <1>6 DEF StopWaiting, WriteRequest, Acknowledge, Write, WriteFails, ReadPage,
     RejectPage, ReadFailure, ReadLast, ReadEnd, Read, Waiting
<1>7. CASE Refuse \/ Spawn \/ LaunchFails \/ CleanedUp \/ CleanupNoted
  BY <1>2, <1>7 DEF Refuse, Spawn, LaunchFails, CleanedUp, CleanupNoted, Waiting
<1>8. CASE OcrCancelled \/ ObserveExit \/ ExitObserved \/ OcrAnswer \/ OcrFails
  BY <1>2, <1>8 DEF OcrCancelled, ObserveExit, ExitObserved, OcrAnswer, OcrFails
<1>9. CASE FinishExit \/ FinishTimeout \/ Grace \/ GraceOver \/ Abort \/ Reap \/ Note \/ Drop
  BY <1>2, <1>9 DEF FinishExit, FinishTimeout, Grace, GraceOver, Abort, Reap, Note, Drop, Waiting
<1>10. CASE Cancel \/ ChildNext \/ UNCHANGED vars
  BY <1>2, <1>10 DEF Cancel, ChildNext, ChildReads, RenderPage, ChildAcked, ChildEnds, ChildFails,
     ChildExits, ChildCrashes, ChildKilled, vars, parent
<1> QED BY <1>4, <1>5, <1>6, <1>7, <1>8, <1>9, <1>10 DEF Next, ParentNext

-----------------------------------------------------------------------------
(* The records of the parent about the end of the child. *)

\* Stopping the child and recording its exit, on a ledger that says what was done.
LEMMA Records ==
  ASSUME ledger = Recording, recorded \in BOOLEAN, killed \in BOOLEAN
  PROVE  /\ ~killed /\ ~recorded => Append(ledger, "intent") = <<"intent">>
         /\ ~killed /\ ~recorded => Append(ledger, "natural") = <<"natural">>
         /\ killed /\ ~recorded => Append(ledger, "intent") = <<"intent", "intent">>
         /\ killed /\ ~recorded => Append(ledger, "natural") = <<"intent", "natural">>
         /\ killed /\ ~recorded =>
              Append(ledger, "after_cleanup") = <<"intent", "after_cleanup">>
BY Shorts DEF Recording

\* Every step keeps the ledger true to what the parent did.
LEMMA LedgerNext ==
  ASSUME Inv, [Next]_vars
  PROVE  LedgerOK'
<1> USE DEF LedgerOK, OutsideChild, parent
<1>0. /\ LedgerOK /\ recorded \in BOOLEAN /\ killed \in BOOLEAN
      /\ Dead = {"exit0", "exit1", "killed"} /\ Over = {"end", "dropped"}
      /\ Waiting = {"write", "read", "ack"}
  BY DEF Inv, TypeOK, Dead, Over, Waiting
<1>1. CASE Refuse
  BY <1>0, <1>1 DEF Refuse, Recording
<1>2. CASE Spawn
  BY <1>0, <1>2 DEF Spawn, Recording
<1>3. CASE LaunchFails
  BY <1>0, <1>3, Records DEF LaunchFails, Kill, Recording
<1>4. CASE CleanedUp
  BY <1>0, <1>4 DEF CleanedUp, Recording
<1>5. CASE CleanupNoted
  BY <1>0, <1>5, Records DEF CleanupNoted, Recording
<1>6. CASE Tick
  BY <1>0, <1>6 DEF Tick, Recording
<1>7. CASE Timeout
  BY <1>0, <1>7 DEF Timeout, Fail, Recording
<1>8. CASE StopWaiting
  BY <1>0, <1>8 DEF StopWaiting, Fail, Charge, Recording
<1>9. CASE WriteRequest
  BY <1>0, <1>9 DEF WriteRequest, Write, Charge, Recording
<1>10. CASE Acknowledge
  BY <1>0, <1>10 DEF Acknowledge, Write, Charge, Recording
<1>11. CASE WriteFails
  BY <1>0, <1>11 DEF WriteFails, Fail, Charge, Recording
<1>12. CASE ReadPage
  BY <1>0, <1>12 DEF ReadPage, Read, Fail, Charge, Recording
<1>13. CASE RejectPage
  BY <1>0, <1>13 DEF RejectPage, Read, Fail, Charge, Recording
<1>14. CASE ReadFailure
  BY <1>0, <1>14 DEF ReadFailure, Read, Fail, Charge, Recording
<1>15. CASE ReadLast
  BY <1>0, <1>15 DEF ReadLast, Read, Charge, Recording
<1>16. CASE ReadEnd
  BY <1>0, <1>16 DEF ReadEnd, Fail, Charge, Recording
<1>17. CASE OcrCancelled
  BY <1>0, <1>17 DEF OcrCancelled, Fail, Recording
<1>18. CASE ObserveExit
  BY <1>0, <1>18 DEF ObserveExit, Recording
<1>19. CASE ExitObserved
  BY <1>0, <1>19, Records DEF ExitObserved, Fail, Noted, Recording
<1>20. CASE OcrAnswer
  BY <1>0, <1>20 DEF OcrAnswer, Recording
<1>21. CASE OcrFails
  BY <1>0, <1>21 DEF OcrFails, Fail, Recording
<1>22. CASE FinishExit
  BY <1>0, <1>22 DEF FinishExit, Recording
<1>23. CASE FinishTimeout
  BY <1>0, <1>23 DEF FinishTimeout, Recording
<1>24. CASE Grace
  BY <1>0, <1>24 DEF Grace, Recording
<1>25. CASE GraceOver
  BY <1>0, <1>25 DEF GraceOver, Recording
<1>26. CASE Abort
  BY <1>0, <1>26, Records DEF Abort, Kill, Recording
<1>27. CASE Reap
  BY <1>0, <1>27 DEF Reap, Recording
<1>28. CASE Note
  BY <1>0, <1>28, Records DEF Note, Noted, Recording
<1>29. CASE Drop
  BY <1>0, <1>29, Records DEF Drop, Kill, Recording
<1>30. CASE Cancel
  BY <1>0, <1>30 DEF Cancel, Recording
<1>31. CASE ChildReads
  BY <1>0, <1>31 DEF ChildReads, Recording, Alive
<1>32. CASE RenderPage
  BY <1>0, <1>32 DEF RenderPage, Recording
<1>33. CASE ChildAcked
  BY <1>0, <1>33 DEF ChildAcked, Recording, Alive
<1>34. CASE ChildEnds
  BY <1>0, <1>34 DEF ChildEnds, Recording, Alive
<1>35. CASE ChildFails
  BY <1>0, <1>35 DEF ChildFails, Recording, Alive
<1>36. CASE ChildExits
  BY <1>0, <1>36 DEF ChildExits, Recording, Alive
<1>37. CASE ChildCrashes
  BY <1>0, <1>37 DEF ChildCrashes, Recording, Alive
<1>38. CASE ChildKilled
  BY <1>0, <1>38 DEF ChildKilled, Recording, Alive
<1>39. CASE UNCHANGED vars
  BY <1>0, <1>39 DEF vars, Recording
<1> QED BY <1>1, <1>2, <1>3, <1>4, <1>5, <1>6, <1>7, <1>8, <1>9, <1>10, <1>11, <1>12, <1>13,
       <1>14, <1>15, <1>16, <1>17, <1>18, <1>19, <1>20, <1>21, <1>22, <1>23, <1>24, <1>25,
       <1>26, <1>27, <1>28, <1>29, <1>30, <1>31, <1>32, <1>33, <1>34, <1>35, <1>36, <1>37,
       <1>38, <1>39 DEF Next, ParentNext, ChildNext

-----------------------------------------------------------------------------
(* The protocol of pages and acknowledgements. *)

\* A pipe holds a frame at most: taking it empties the pipe.
LEMMA Pipes ==
  ASSUME PipesOK
  PROVE  /\ stdin # <<>> => Tail(stdin) = <<>>
         /\ stdin = <<>> => Append(stdin, "request") = <<"request">>
         /\ stdin = <<>> => Append(stdin, "ack") = <<"ack">>
         /\ stdout # <<>> => /\ Tail(stdout) = <<>> /\ Head(stdout) = stdout[1]
                            /\ stdout[1] \in Frame
         /\ stdout = <<>> => \A f : Append(stdout, f) = <<f>> /\ <<f>> # <<>> /\ <<f>>[1] = f
BY Shorts DEF PipesOK

\* Every step keeps one frame in each pipe, each at its place in the protocol.
LEMMA PipesNext ==
  ASSUME Inv, [Next]_vars
  PROVE  PipesOK'
<1> USE DEF PipesOK, OutsideChild, parent
<1>0. /\ PipesOK /\ LedgerOK
      /\ Dead = {"exit0", "exit1", "killed"} /\ Over = {"end", "dropped"}
      /\ Waiting = {"write", "read", "ack"}
  BY DEF Inv, Dead, Over, Waiting
<1> TypeOK
  BY DEF Inv
<1>1. CASE Refuse
  BY <1>0, <1>1 DEF Refuse
<1>2. CASE Spawn
  BY <1>0, <1>2 DEF Spawn, LedgerOK
<1>3. CASE LaunchFails
  BY <1>0, <1>3 DEF LaunchFails
<1>4. CASE CleanedUp
  BY <1>0, <1>4 DEF CleanedUp
<1>5. CASE CleanupNoted
  BY <1>0, <1>5 DEF CleanupNoted
<1>6. CASE Tick
  BY <1>0, <1>6 DEF Tick
<1>7. CASE Timeout
  BY <1>0, <1>7 DEF Timeout, Fail
<1>8. CASE StopWaiting
  BY <1>0, <1>8 DEF StopWaiting, Fail
<1>9. CASE WriteRequest
  BY <1>0, <1>9, Pipes DEF WriteRequest, Write
<1>10. CASE Acknowledge
  BY <1>0, <1>10, Pipes DEF Acknowledge, Write
<1>11. CASE WriteFails
  BY <1>0, <1>11, Pipes DEF WriteFails, Fail
<1>12. CASE ReadPage
  BY <1>0, <1>12, Pipes DEF ReadPage, Read, Fail
<1>13. CASE RejectPage
  BY <1>0, <1>13, Pipes DEF RejectPage, Read, Fail
<1>14. CASE ReadFailure
  BY <1>0, <1>14, Pipes DEF ReadFailure, Read, Fail
<1>15. CASE ReadLast
  BY <1>0, <1>15, Pipes DEF ReadLast, Read
<1>16. CASE ReadEnd
  BY <1>0, <1>16, Pipes DEF ReadEnd, Fail
<1>17. CASE OcrCancelled
  BY <1>0, <1>17 DEF OcrCancelled, Fail
<1>18. CASE ObserveExit
  BY <1>0, <1>18 DEF ObserveExit
<1>19. CASE ExitObserved
  BY <1>0, <1>19 DEF ExitObserved, Fail
<1>20. CASE OcrAnswer
  BY <1>0, <1>20 DEF OcrAnswer
<1>21. CASE OcrFails
  BY <1>0, <1>21 DEF OcrFails, Fail
<1>22. CASE FinishExit
  BY <1>0, <1>22 DEF FinishExit
<1>23. CASE FinishTimeout
  BY <1>0, <1>23 DEF FinishTimeout
<1>24. CASE Grace
  BY <1>0, <1>24 DEF Grace
<1>25. CASE GraceOver
  BY <1>0, <1>25 DEF GraceOver
<1>26. CASE Abort
  BY <1>0, <1>26 DEF Abort
<1>27. CASE Reap
  BY <1>0, <1>27 DEF Reap
<1>28. CASE Note
  BY <1>0, <1>28 DEF Note
<1>29. CASE Drop
  BY <1>0, <1>29 DEF Drop
<1>30. CASE Cancel
  BY <1>0, <1>30 DEF Cancel
<1>31. CASE ChildReads
  BY <1>0, <1>31, Pipes DEF ChildReads
<1>32. CASE RenderPage
  <2>1. stdout = <<>> /\ stdin' = stdin
    BY <1>0, <1>32 DEF RenderPage
  <2>2. PICK f \in Frame : stdout' = <<f>> /\ <<f>> # <<>> /\ <<f>>[1] = f
    BY <1>0, <1>32, <2>1, Frames, Pipes
  <2> QED BY <1>0, <1>32, <2>1, <2>2 DEF RenderPage
<1>33. CASE ChildAcked
  BY <1>0, <1>33, Pipes DEF ChildAcked
<1>34. CASE ChildEnds
  <2>1. stdin' = stdin /\ (stdout' # stdout => stdout = <<>>)
    BY <1>0, <1>34 DEF ChildEnds
  <2>2. \/ stdout' = stdout
        \/ \E f \in Frame : stdout' = <<f>> /\ <<f>> # <<>> /\ <<f>>[1] = f /\ f.kind # "page"
    BY <1>0, <1>34, <2>1, Frames, Pipes
  <2> QED BY <1>0, <1>34, <2>1, <2>2 DEF ChildEnds
<1>35. CASE ChildFails
  <2>1. stdin' = stdin /\ (stdout' # stdout => stdout = <<>>)
    BY <1>0, <1>35 DEF ChildFails
  <2>2. \/ stdout' = stdout
        \/ \E f \in Frame : stdout' = <<f>> /\ <<f>> # <<>> /\ <<f>>[1] = f /\ f.kind # "page"
    BY <1>0, <1>35, <2>1, Frames, Pipes
  <2> QED BY <1>0, <1>35, <2>1, <2>2 DEF ChildFails
<1>36. CASE ChildExits
  BY <1>0, <1>36 DEF ChildExits
<1>37. CASE ChildCrashes
  BY <1>0, <1>37 DEF ChildCrashes
<1>38. CASE ChildKilled
  BY <1>0, <1>38 DEF ChildKilled
<1>39. CASE UNCHANGED vars
  BY <1>0, <1>39 DEF vars
<1> QED BY <1>1, <1>2, <1>3, <1>4, <1>5, <1>6, <1>7, <1>8, <1>9, <1>10, <1>11, <1>12, <1>13,
       <1>14, <1>15, <1>16, <1>17, <1>18, <1>19, <1>20, <1>21, <1>22, <1>23, <1>24, <1>25,
       <1>26, <1>27, <1>28, <1>29, <1>30, <1>31, <1>32, <1>33, <1>34, <1>35, <1>36, <1>37,
       <1>38, <1>39 DEF Next, ParentNext, ChildNext

-----------------------------------------------------------------------------
(* The pages and the text. *)

\* The text when a piece joins it.
LEMMA TextGrows ==
  ASSUME TypeOK, NEW x \in 2..(2 * MaxPages + 1), body' = Append(body, x)
  PROVE  /\ Got' = Got \cup {x}
         /\ (\A i, j \in 1..Len(body) : i < j => body[i] < body[j]) /\ (\A v \in Got : v < x) =>
              \A i, j \in 1..Len(body') : i < j => body'[i] < body'[j]
<1>1. body \in Seq(2..(2 * MaxPages + 1)) /\ Len(body) \in Nat
  BY LenProperties DEF TypeOK
<1>2. /\ Len(body') = Len(body) + 1 /\ body'[Len(body) + 1] = x
      /\ \A i \in 1..Len(body) : body'[i] = body[i]
  BY <1>1, AppendProperties
<1>3. Got' = Got \cup {x}
  BY <1>1, <1>2 DEF Got
<1>4. ASSUME \A i, j \in 1..Len(body) : i < j => body[i] < body[j], \A v \in Got : v < x,
             NEW i \in 1..Len(body'), NEW j \in 1..Len(body'), i < j
      PROVE  body'[i] < body'[j]
  <2>1. i \in 1..Len(body) /\ body'[i] = body[i] /\ body[i] \in Got
    BY <1>1, <1>2, <1>4 DEF Got
  <2>2. CASE j \in 1..Len(body)
    BY <1>2, <1>4, <2>1, <2>2
  <2>3. CASE j = Len(body) + 1
    BY <1>2, <1>4, <2>1, <2>3
  <2> QED BY <1>1, <1>2, <2>2, <2>3
<1> QED BY <1>3, <1>4

\* Collected pages in terms of the pieces.
LEMMA CollectedPieces ==
  ASSUME NEW n
  PROVE  /\ Collected(n) <=> 2 * n \in Got /\ (n \in Scanned => 2 * n + 1 \in Got)
         /\ Collected(n)' <=> 2 * n \in Got' /\ (n \in Scanned => 2 * n + 1 \in Got')
BY DEF Collected, Got

\* A step that leaves the pages and the text alone.
PagesStay ==
  /\ UNCHANGED <<job, todo, body>>
  /\ AllIn' => AllIn
  /\ child' = "meta" => job.pages = {}
  /\ child' \in {"closing", "exit0"} => todo = {}
  /\ stdout' = stdout \/ stdout' = <<>> \/ stdout'[1].kind # "page"
  /\ pc' = "ocr" => pc = "ocr" /\ page' = page

\* Such a step keeps what the invariant says of the pages.
LEMMA PagesStayStep ==
  ASSUME PagesOK, PagesStay
  PROVE  PagesOK'
<1>1. Rendered' = Rendered /\ Got' = Got /\ \A n : Collected(n)' <=> Collected(n)
  BY DEF PagesStay, Rendered, Got, Collected
<1> QED BY <1>1 DEF PagesOK, PagesStay

\* The child renders the next page when the last one has been acknowledged.
LEMMA RenderPages ==
  ASSUME Inv, RenderPage
  PROVE  PagesOK'
<1>1. /\ TypeOK /\ PagesOK /\ child = "render" /\ child' = "wait_ack"
      /\ UNCHANGED parent /\ stdin' = stdin
      /\ stdout = <<>> /\ stdin = <<>> /\ pc # "ack" /\ pc # "ocr"
  BY DEF Inv, PipesOK, RenderPage
<1>2. UNCHANGED <<job, body, pc, page>> /\ ~AllIn'
  BY <1>1 DEF parent, AllIn
<1>3. PICK n \in todo : \E f \in Frame :
        /\ stdout' = Append(stdout, f) /\ f.kind = "page" /\ f.page = n
        /\ todo' = todo \ {n} /\ \A k \in todo : n <= k
  BY <1>1, RenderPage, Frames
<1>4. stdout' # <<>> /\ stdout'[1].page = n
  BY <1>1, <1>3, Pipes DEF Inv
<1>5. /\ n \in job.pages /\ n \in 1..MaxPages /\ Rendered' = Rendered \cup {n} /\ n \notin Rendered
      /\ Rendered \subseteq 1..MaxPages /\ todo \subseteq 1..MaxPages
  BY <1>1, <1>2, <1>3 DEF PagesOK, Rendered, TypeOK
<1>6. Got' = Got /\ \A k : Collected(k)' <=> Collected(k)
  BY <1>2 DEF Got, Collected
<1>7. \A k \in Rendered : k < n
  BY <1>1, <1>3 DEF PagesOK
<1>8. \A v \in Got : v < 2 * n
  <2> SUFFICES ASSUME NEW v \in Got PROVE v < 2 * n
    OBVIOUS
  <2>1. PICK k \in Rendered : v = 2 * k \/ v = 2 * k + 1
    BY <1>1 DEF PagesOK
  <2>2. k \in Nat /\ n \in Nat /\ k < n
    BY <1>5, <1>7
  <2> QED BY <2>1, <2>2
<1>9. \A k \in Rendered : Collected(k)
  BY <1>1 DEF PagesOK, AllIn
<1>10. \A k \in Rendered', m \in todo' : k < m
  <2> SUFFICES ASSUME NEW k \in Rendered', NEW m \in todo' PROVE k < m
    OBVIOUS
  <2>1. m \in todo /\ m # n /\ n <= m /\ m \in Nat /\ n \in Nat
    BY <1>3, <1>5
  <2>2. CASE k \in Rendered
    BY <1>1, <2>1, <2>2 DEF PagesOK
  <2> QED BY <1>5, <2>1, <2>2
<1>11. todo' \subseteq job'.pages
  BY <1>1, <1>2, <1>3 DEF PagesOK
<1> QED BY <1>1, <1>2, <1>4, <1>5, <1>6, <1>8, <1>9, <1>10, <1>11 DEF PagesOK

\* A page arrives: its text is the last one, its image may be missing.
LEMMA ReadPages ==
  ASSUME Inv, ReadPage
  PROVE  PagesOK'
<1>0. PICK n : n = stdout[1].page
  OBVIOUS
<1>1. /\ TypeOK /\ PagesOK /\ PipesOK /\ stdout # <<>> /\ stdout[1].kind = "page"
      /\ stdout' = <<>> /\ stdin = <<>>
      /\ UNCHANGED <<job, child, todo, stdin>>
      /\ page' = n /\ body' = Append(body, 2 * n)
      /\ pc' = "ack" => n \notin Scanned
      /\ pc' = "ocr" => n \in Scanned
  <2>1. TypeOK /\ PagesOK /\ PipesOK
    BY DEF Inv
  <2>2. stdout # <<>> /\ Head(stdout).kind = "page" /\ stdout' = Tail(stdout)
    BY DEF ReadPage, Read
  <2>3. Head(stdout) = stdout[1] /\ Tail(stdout) = <<>>
    BY <2>1, <2>2, Pipes
  <2> QED BY <1>0, <2>1, <2>2, <2>3 DEF ReadPage, Fail, OutsideChild, PipesOK
<1>2. /\ n \in Rendered /\ (\A v \in Got : v < 2 * n)
      /\ \A k \in Rendered \ {n} : Collected(k)
  BY <1>0, <1>1 DEF PagesOK
<1>3. n \in 1..MaxPages /\ Rendered' = Rendered /\ Rendered \subseteq 1..MaxPages
  BY <1>1, <1>2 DEF Rendered, TypeOK
<1>4. n \in Nat /\ 2 * n \in Nat /\ 2 * n \in 2..(2 * MaxPages + 1)
  BY <1>3, PieceTypes
<1>5. /\ Got' = Got \cup {2 * n}
      /\ \A i, j \in 1..Len(body') : i < j => body'[i] < body'[j]
  BY <1>1, <1>2, <1>4, TextGrows DEF PagesOK
<1>6. ASSUME NEW k, Collected(k)
      PROVE  Collected(k)'
  BY <1>5, <1>6, CollectedPieces
<1>6a. n \notin Scanned => Collected(n)'
  BY <1>5, CollectedPieces
<1>6b. ~Collected(n)
  <2>1. 2 * n \notin Got
    <3>1. ~(2 * n < 2 * n)
      BY <1>4
    <3> QED BY <1>2, <3>1
  <2> QED BY <2>1, CollectedPieces
<1>7. ASSUME AllIn'
      PROVE  \A k \in Rendered' : Collected(k)'
  <2>1. CASE pc' = "ack"
    <3> SUFFICES ASSUME NEW k \in Rendered PROVE Collected(k)'
      BY <1>3
    <3>1. CASE k = n
      BY <1>1, <1>6a, <2>1, <3>1
    <3>2. CASE k # n
      <4>1. Collected(k)
        BY <1>2, <3>2
      <4> QED BY <1>6, <4>1
    <3> QED BY <3>1, <3>2
  <2>2. CASE pc' # "ack"
    <3>1. child \in {"none", "request", "render", "meta", "closing", "exit0"}
      BY <1>1, <1>7, <2>2 DEF AllIn
    <3>2. Collected(n)
      BY <1>1, <1>2, <3>1 DEF PagesOK, AllIn
    <3> QED BY <1>6b, <3>2
  <2> QED BY <2>1, <2>2
<1>8. \A v \in Got' : \E k \in Rendered' : v = 2 * k \/ (v = 2 * k + 1 /\ k \in Scanned)
  BY <1>1, <1>2, <1>3, <1>5 DEF PagesOK
<1>9. \A v \in Got' : v <= 2 * n
  <2>1. \A v \in Got : v \in Nat
    BY <1>1, <1>3 DEF PagesOK
  <2> QED BY <1>2, <1>4, <1>5, <2>1
<1>10. \A k \in Rendered' \ {n} : Collected(k)'
  BY <1>2, <1>3, <1>6
<1> QED BY <1>0, <1>1, <1>2, <1>3, <1>5, <1>7, <1>8, <1>9, <1>10 DEF PagesOK

\* The answer of the model completes the page the parent holds.
LEMMA OcrPages ==
  ASSUME Inv, OcrAnswer
  PROVE  PagesOK'
<1>1. /\ TypeOK /\ PagesOK /\ PipesOK /\ pc = "ocr" /\ pc' = "ack"
      /\ body' = Append(body, 2 * page + 1)
      /\ UNCHANGED <<job, page, child, todo, stdin, stdout>> /\ stdout = <<>>
  BY DEF Inv, OcrAnswer, OutsideChild, PipesOK
<1>2. /\ page \in Rendered \cap Scanned /\ 2 * page \in Got
      /\ \A v \in Got : v <= 2 * page
      /\ \A k \in Rendered \ {page} : Collected(k)
  BY <1>1 DEF PagesOK
<1>3. page \in 1..MaxPages /\ Rendered' = Rendered /\ Rendered \subseteq 1..MaxPages
  BY <1>1, <1>2 DEF Rendered, TypeOK
<1>4. page \in Nat /\ 2 * page + 1 \in 2..(2 * MaxPages + 1)
  BY <1>3, PieceTypes
<1>5. \A v \in Got : v < 2 * page + 1
  <2>1. \A v \in Got : v \in Nat
    BY <1>1, <1>3 DEF PagesOK
  <2> QED BY <1>2, <1>4, <2>1
<1>6. /\ Got' = Got \cup {2 * page + 1}
      /\ \A i, j \in 1..Len(body') : i < j => body'[i] < body'[j]
  BY <1>1, <1>4, <1>5, TextGrows DEF PagesOK
<1>7. \A k \in Rendered : Collected(k)'
  BY <1>2, <1>6, CollectedPieces
<1>8. \A v \in Got' : \E k \in Rendered' : v = 2 * k \/ (v = 2 * k + 1 /\ k \in Scanned)
  BY <1>1, <1>2, <1>3, <1>6 DEF PagesOK
<1> QED BY <1>1, <1>3, <1>6, <1>7, <1>8 DEF PagesOK

\* Every step keeps the pages in order.
LEMMA PagesNext ==
  ASSUME Inv, [Next]_vars
  PROVE  PagesOK'
<1> USE DEF PagesStay, AllIn, OutsideChild, parent
<1>0. /\ PagesOK /\ PipesOK /\ LedgerOK /\ TypeOK
      /\ Dead = {"exit0", "exit1", "killed"} /\ Over = {"end", "dropped"}
      /\ Waiting = {"write", "read", "ack"}
      /\ child \in {"closing", "exit0"} => todo = {}
      /\ child = "meta" => job.pages = {}
      /\ job.mode = "metadata" => job.pages = {}
      /\ todo \subseteq job.pages
      /\ pc \in {"ocr", "ack"} => child \notin {"none", "request", "render", "meta"}
      /\ pc \in {"start", "write"} => child \in {"none", "request", "failing"} \cup Dead
  BY DEF Inv, Dead, Over, Waiting, PagesOK, PipesOK
<1>1. CASE Refuse
  <2>1. PagesStay
    BY <1>0, <1>1 DEF Refuse
  <2> QED BY <1>0, <2>1, PagesStayStep
<1>2. CASE Spawn
  <2>1. PagesStay
    BY <1>0, <1>2 DEF Spawn, LedgerOK
  <2> QED BY <1>0, <2>1, PagesStayStep
<1>3. CASE LaunchFails
  <2>1. PagesStay
    BY <1>0, <1>3 DEF LaunchFails, LedgerOK
  <2> QED BY <1>0, <2>1, PagesStayStep
<1>4. CASE CleanedUp
  <2>1. PagesStay
    BY <1>0, <1>4 DEF CleanedUp
  <2> QED BY <1>0, <2>1, PagesStayStep
<1>5. CASE CleanupNoted
  <2>1. PagesStay
    BY <1>0, <1>5 DEF CleanupNoted
  <2> QED BY <1>0, <2>1, PagesStayStep
<1>6. CASE Tick
  <2>1. PagesStay
    BY <1>0, <1>6 DEF Tick
  <2> QED BY <1>0, <2>1, PagesStayStep
<1>7. CASE Timeout
  <2>1. PagesStay
    BY <1>0, <1>7 DEF Timeout, Fail
  <2> QED BY <1>0, <2>1, PagesStayStep
<1>8. CASE StopWaiting
  <2>1. PagesStay
    BY <1>0, <1>8 DEF StopWaiting, Fail
  <2> QED BY <1>0, <2>1, PagesStayStep
<1>9. CASE WriteRequest
  <2>1. PagesStay
    BY <1>0, <1>9 DEF WriteRequest, Write
  <2> QED BY <1>0, <2>1, PagesStayStep
<1>10. CASE Acknowledge
  <2>1. PagesStay
    BY <1>0, <1>10 DEF Acknowledge, Write
  <2> QED BY <1>0, <2>1, PagesStayStep
<1>11. CASE WriteFails
  <2>1. PagesStay
    BY <1>0, <1>11 DEF WriteFails, Fail
  <2> QED BY <1>0, <2>1, PagesStayStep
<1>12. CASE RejectPage
  <2>1. PagesStay
    BY <1>0, <1>12, Pipes DEF RejectPage, Read, Fail
  <2> QED BY <1>0, <2>1, PagesStayStep
<1>13. CASE ReadFailure
  <2>1. PagesStay
    BY <1>0, <1>13, Pipes DEF ReadFailure, Read, Fail
  <2> QED BY <1>0, <2>1, PagesStayStep
<1>14. CASE ReadLast
  <2>1. PagesStay
    BY <1>0, <1>14, Pipes DEF ReadLast, Read
  <2> QED BY <1>0, <2>1, PagesStayStep
<1>15. CASE ReadEnd
  <2>1. PagesStay
    BY <1>0, <1>15 DEF ReadEnd, Fail
  <2> QED BY <1>0, <2>1, PagesStayStep
<1>16. CASE OcrCancelled
  <2>1. PagesStay
    BY <1>0, <1>16 DEF OcrCancelled, Fail
  <2> QED BY <1>0, <2>1, PagesStayStep
<1>17. CASE ObserveExit
  <2>1. PagesStay
    BY <1>0, <1>17 DEF ObserveExit
  <2> QED BY <1>0, <2>1, PagesStayStep
<1>18. CASE ExitObserved
  <2>1. PagesStay
    BY <1>0, <1>18 DEF ExitObserved, Fail
  <2> QED BY <1>0, <2>1, PagesStayStep
<1>19. CASE OcrFails
  <2>1. PagesStay
    BY <1>0, <1>19 DEF OcrFails, Fail
  <2> QED BY <1>0, <2>1, PagesStayStep
<1>20. CASE FinishExit
  <2>1. PagesStay
    BY <1>0, <1>20 DEF FinishExit
  <2> QED BY <1>0, <2>1, PagesStayStep
<1>21. CASE FinishTimeout
  <2>1. PagesStay
    BY <1>0, <1>21 DEF FinishTimeout
  <2> QED BY <1>0, <2>1, PagesStayStep
<1>22. CASE Grace
  <2>1. PagesStay
    BY <1>0, <1>22 DEF Grace
  <2> QED BY <1>0, <2>1, PagesStayStep
<1>23. CASE GraceOver
  <2>1. PagesStay
    BY <1>0, <1>23 DEF GraceOver
  <2> QED BY <1>0, <2>1, PagesStayStep
<1>24. CASE Abort
  <2>1. PagesStay
    BY <1>0, <1>24 DEF Abort
  <2> QED BY <1>0, <2>1, PagesStayStep
<1>25. CASE Reap
  <2>1. PagesStay
    BY <1>0, <1>25 DEF Reap
  <2> QED BY <1>0, <2>1, PagesStayStep
<1>26. CASE Note
  <2>1. PagesStay
    BY <1>0, <1>26 DEF Note
  <2> QED BY <1>0, <2>1, PagesStayStep
<1>27. CASE Drop
  <2>1. PagesStay
    BY <1>0, <1>27 DEF Drop
  <2> QED BY <1>0, <2>1, PagesStayStep
<1>28. CASE Cancel
  <2>1. PagesStay
    BY <1>0, <1>28 DEF Cancel
  <2> QED BY <1>0, <2>1, PagesStayStep
<1>29. CASE ChildReads
  <2>1. PagesStay
    BY <1>0, <1>29 DEF ChildReads, TypeOK
  <2> QED BY <1>0, <2>1, PagesStayStep
<1>30. CASE ChildAcked
  <2>1. PagesStay
    BY <1>0, <1>30 DEF ChildAcked
  <2> QED BY <1>0, <2>1, PagesStayStep
<1>31. CASE ChildEnds
  <2>1. stdout' = stdout \/ stdout'[1].kind # "page"
    BY <1>0, <1>31, Frames, Pipes DEF ChildEnds, PipesOK
  <2>2. PagesStay
    BY <1>0, <1>31, <2>1 DEF ChildEnds
  <2> QED BY <1>0, <2>2, PagesStayStep
<1>32. CASE ChildFails
  <2>1. stdout' = stdout \/ stdout'[1].kind # "page"
    BY <1>0, <1>32, Frames, Pipes DEF ChildFails, PipesOK
  <2>2. PagesStay
    BY <1>0, <1>32, <2>1 DEF ChildFails
  <2> QED BY <1>0, <2>2, PagesStayStep
<1>33. CASE ChildExits
  <2>1. PagesStay
    BY <1>0, <1>33 DEF ChildExits
  <2> QED BY <1>0, <2>1, PagesStayStep
<1>34. CASE ChildCrashes
  <2>1. PagesStay
    BY <1>0, <1>34 DEF ChildCrashes
  <2> QED BY <1>0, <2>1, PagesStayStep
<1>35. CASE ChildKilled
  <2>1. PagesStay
    BY <1>0, <1>35 DEF ChildKilled
  <2> QED BY <1>0, <2>1, PagesStayStep
<1>36. CASE UNCHANGED vars
  <2>1. PagesStay
    BY <1>0, <1>36 DEF vars
  <2> QED BY <1>0, <2>1, PagesStayStep
<1> QED BY <1>1, <1>2, <1>3, <1>4, <1>5, <1>6, <1>7, <1>8, <1>9, <1>10, <1>11, <1>12, <1>13,
       <1>14, <1>15, <1>16, <1>17, <1>18, <1>19, <1>20, <1>21, <1>22, <1>23, <1>24, <1>25,
       <1>26, <1>27, <1>28, <1>29, <1>30, <1>31, <1>32, <1>33, <1>34, <1>35, <1>36, ReadPages,
       OcrPages, RenderPages DEF Next, ParentNext, ChildNext

-----------------------------------------------------------------------------
(* The invariant. *)

\* A request that has not been sent.
LEMMA InvInit == Init => Inv
<1> SUFFICES ASSUME Init PROVE Inv
  OBVIOUS
<1>1. /\ Got = {} /\ Rendered = {} /\ Len(body) = 0
      /\ MaxPages \in Nat /\ Budget \in Nat
  BY DocumentWorkerAssumption DEF Init, Got, Rendered
<1>2. TypeOK
  <2>1. /\ job \in [mode : {"render", "metadata"}, pages : SUBSET (1..MaxPages), ocr : BOOLEAN]
        /\ job.pages \subseteq 1..MaxPages
    BY DEF Init
  <2>2. 0 \in 0..MaxPages /\ 0 \in 0..Budget
    BY <1>1
  <2>3. body = <<>> /\ ledger = <<>> /\ stdin = <<>> /\ stdout = <<>> /\ todo = job.pages
    BY DEF Init
  <2>4. /\ body \in Seq(2..(2 * MaxPages + 1)) /\ ledger \in Seq(Exits \cup {"intent"})
        /\ stdin \in Seq({"request", "ack"}) /\ stdout \in Seq(Frame)
    BY <2>3, EmptySeq
  <2> QED BY <2>1, <2>2, <2>3, <2>4 DEF Init, TypeOK, Pcs, Results
<1>3. LedgerOK
  BY DEF Init, LedgerOK, Recording, Over
<1>4. BudgetOK /\ PipesOK
  BY <1>1 DEF Init, BudgetOK, PipesOK
<1>5. PagesOK
  <2>1. job.mode = "metadata" => job.pages = {}
    BY DEF Init
  <2>2. \A i, j \in 1..Len(body) : i < j => body[i] < body[j]
    BY <1>1
  <2> QED BY <1>1, <2>1, <2>2 DEF Init, PagesOK, AllIn
<1> QED BY <1>2, <1>3, <1>4, <1>5 DEF Inv

\* Types, the ledger, the budget, the pipes and the pages hold in every reachable state.
THEOREM Invariant == Spec => []Inv
<1>1. Inv /\ [Next]_vars => Inv'
  BY TypeNext, LedgerNext, BudgetNext, PipesNext, PagesNext DEF Inv
<1> QED BY InvInit, <1>1, PTL DEF Spec

\* All reads and writes of one document together wait no longer than its budget.
THEOREM WithinBudget == Spec => []Budgeted
<1>1. Inv => Budgeted
  BY DEF Inv, BudgetOK, Budgeted
<1> QED BY Invariant, <1>1, PTL

\* A ledger holds the exit of a child once at most.
LEMMA OneExit ==
  ASSUME LedgerOK
  PROVE  Cardinality(ExitsOf(ledger)) <= 1
<1>1. ledger \in {<<>>, <<"intent">>, <<"natural">>, <<"intent", "after_cleanup">>,
                  <<"intent", "intent">>, <<"intent", "natural">>}
  BY DEF LedgerOK, Recording
<1>2. ExitsOf(ledger) \in {{}, {1}, {2}}
  BY <1>1, SMTT(30) DEF ExitsOf, Exits
<1>3. Cardinality({}) = 0 /\ Cardinality({1}) = 1 /\ Cardinality({2}) = 1
  BY FS_EmptySet, FS_Singleton
<1> QED BY <1>2, <1>3

\* The exit of a child is recorded once at most; an operation that returns after starting
\* a child has reaped it and its ledger says whether the parent stopped it.
THEOREM ChildReaped == Spec => []Reaped
<1>1. Inv => Reaped
  <2> SUFFICES ASSUME Inv PROVE Reaped
    OBVIOUS
  <2>1. pc = "end" /\ child # "none" =>
          child \in Dead /\ ledger = IF killed THEN <<"intent", "after_cleanup">> ELSE <<"natural">>
    BY DEF Inv, LedgerOK, Recording
  <2> QED BY <2>1, OneExit DEF Inv, Reaped
<1> QED BY Invariant, <1>1, PTL

-----------------------------------------------------------------------------
(* What the extraction promises. *)

\* Texts and images of different pages differ.
LEMMA Parity ==
  ASSUME NEW k \in Nat, NEW p \in Nat
  PROVE  /\ 2 * k # 2 * p + 1 /\ 2 * k + 1 # 2 * p
         /\ 2 * k = 2 * p => k = p
         /\ 2 * k + 1 = 2 * p + 1 => k = p
OBVIOUS

\* Only rendered pages are collected; all of them, when none is on its way.
LEMMA CollectedRendered ==
  ASSUME Inv
  PROVE  /\ Rendered \subseteq 1..MaxPages /\ job.pages \subseteq 1..MaxPages
         /\ \A n \in job.pages : Collected(n) => n \in Rendered
         /\ AllIn => {n \in job.pages : Collected(n)} = Rendered
<1>1. TypeOK /\ PagesOK
  BY DEF Inv
<1>2. Rendered \subseteq 1..MaxPages /\ job.pages \subseteq 1..MaxPages
  BY <1>1 DEF Rendered, TypeOK
<1>3. ASSUME NEW n \in job.pages, Collected(n)
      PROVE  n \in Rendered
  <2>1. 2 * n \in Got
    BY <1>3, CollectedPieces
  <2>2. PICK k \in Rendered : 2 * n = 2 * k \/ 2 * n = 2 * k + 1
    BY <1>1, <2>1 DEF PagesOK
  <2>3. n \in Nat /\ k \in Nat
    BY <1>2
  <2>4. n = k
    BY <2>2, <2>3, Parity
  <2> QED BY <2>4
<1>4. AllIn => \A n \in Rendered : n \in job.pages /\ Collected(n)
  BY <1>1 DEF PagesOK, Rendered
<1> QED BY <1>2, <1>3, <1>4

\* A successful extraction has the text and the image of every selected page once and
\* in order, from a child that said it was done and exited with success.
THEOREM TextIsWhole == Spec => []WholeText
<1>1. Inv => WholeText
  <2> SUFFICES ASSUME Inv, pc = "end", result = "ok"
               PROVE  /\ {body[i] : i \in 1..Len(body)} = Pieces
                      /\ \A i \in 1..(Len(body) - 1) : body[i] < body[i + 1]
                      /\ child = "exit0" /\ ledger = <<"natural">>
    BY DEF WholeText
  <2>1. /\ TypeOK /\ PagesOK /\ child = "exit0" /\ ledger = <<"natural">>
    BY DEF Inv, LedgerOK, Recording
  <2>2. Rendered = job.pages /\ \A n \in job.pages : Collected(n)
    BY <2>1 DEF PagesOK, AllIn, Rendered
  <2>3. Pieces \subseteq Got
    BY <2>2, CollectedPieces DEF Pieces
  <2>4. Got \subseteq Pieces
    <3> SUFFICES ASSUME NEW v \in Got PROVE v \in Pieces
      OBVIOUS
    <3>1. PICK n \in job.pages : v = 2 * n \/ (v = 2 * n + 1 /\ n \in Scanned)
      BY <2>1, <2>2 DEF PagesOK
    <3> QED BY <3>1 DEF Pieces
  <2>5. \A i \in 1..(Len(body) - 1) : body[i] < body[i + 1]
    <3> SUFFICES ASSUME NEW i \in 1..(Len(body) - 1) PROVE body[i] < body[i + 1]
      OBVIOUS
    <3>1. Len(body) \in Nat
      BY <2>1, LenProperties DEF TypeOK
    <3>2. i \in 1..Len(body) /\ i + 1 \in 1..Len(body) /\ i < i + 1
      BY <3>1
    <3> QED BY <2>1, <3>2 DEF PagesOK
  <2> QED BY <2>1, <2>3, <2>4, <2>5 DEF Got
<1> QED BY Invariant, <1>1, PTL

-----------------------------------------------------------------------------
(* The refinement of PageStream. *)

\* The pages of the stream that are collected, and how the stream stands.
InText == {n \in job.pages : Collected(n)}

Outcome == IF pc # "end" THEN (IF pc = "dropped" THEN "failed" ELSE "running")
           ELSE IF result = "ok" THEN "ok" ELSE "failed"

\* A step that leaves the pages, the text and the outcome alone is a stutter.
LEMMA StreamStutters ==
  ASSUME UNCHANGED <<job, todo, body>>, Outcome' = Outcome
  PROVE  UNCHANGED Stream!vars
<1>1. InText' = InText /\ Rendered' = Rendered
  BY DEF InText, Collected, Rendered
<1> QED BY <1>1 DEF Stream!vars, InText, Rendered, Outcome

\* An operation that ends without success is a failure of the stream.
LEMMA StreamFails ==
  ASSUME UNCHANGED <<job, todo, body>>, Outcome = "running", Outcome' = "failed"
  PROVE  Stream!Fail
<1>1. InText' = InText /\ Rendered' = Rendered
  BY DEF InText, Collected, Rendered
<1> QED BY <1>1 DEF Stream!Fail, InText, Rendered, Outcome

\* The child renders the next page of the stream.
LEMMA StreamRenders ==
  ASSUME Inv, RenderPage
  PROVE  Stream!Render
<1>1. /\ TypeOK /\ PagesOK /\ child = "render" /\ UNCHANGED <<job, pc, result, body>>
  BY DEF Inv, RenderPage, parent
<1>2. PICK n \in todo : todo' = todo \ {n} /\ \A k \in todo : n <= k
  BY <1>1, Frames, RenderPage
<1>3. InText = Rendered /\ Rendered \subseteq job.pages
  BY <1>1, CollectedRendered DEF AllIn, InText, Rendered
<1>4. n \in job.pages \ Rendered /\ \A m \in job.pages \ Rendered : n <= m
  BY <1>1, <1>2 DEF PagesOK, Rendered
<1>5. Rendered' = Rendered \cup {n}
  BY <1>1, <1>2, <1>4 DEF Rendered
<1>6. InText' = InText /\ Outcome' = Outcome /\ job.pages' = job.pages
  BY <1>1 DEF InText, Collected, Outcome
<1> QED BY <1>3, <1>4, <1>5, <1>6 DEF Stream!Render, InText, Rendered, Outcome

\* The piece that completes a page collects it and no other page.
LEMMA StreamCollects ==
  ASSUME Inv, NEW n \in Rendered, ~Collected(n), Collected(n)',
         UNCHANGED <<job, todo>>, Outcome = "running", Outcome' = "running",
         \A k \in job.pages \ {n} : Collected(k)' <=> Collected(k)
  PROVE  Stream!Collect
<1>1. n \in job.pages /\ n \in Rendered \ InText
  BY DEF Rendered, InText
<1>2. InText' = InText \cup {n} /\ Rendered' = Rendered /\ job.pages' = job.pages
  BY <1>1 DEF InText, Rendered
<1> QED BY <1>1, <1>2 DEF Stream!Collect, InText, Rendered, Outcome

\* A page that needs no model is collected when its text arrives, another one only
\* when it is answered.
LEMMA StreamReads ==
  ASSUME Inv, ReadPage
  PROVE  Stream!Collect \/ UNCHANGED Stream!vars
<1>0. PICK n : n = stdout[1].page
  OBVIOUS
<1>1. /\ TypeOK /\ PagesOK /\ PipesOK /\ stdout # <<>> /\ stdout[1].kind = "page"
      /\ UNCHANGED <<job, todo>> /\ body' = Append(body, 2 * n)
      /\ Outcome = "running" /\ Outcome' = "running"
  <2>1. TypeOK /\ PagesOK /\ PipesOK
    BY DEF Inv
  <2>2. stdout # <<>> /\ Head(stdout).kind = "page" /\ stdout' = Tail(stdout)
    BY DEF ReadPage, Read
  <2>3. Head(stdout) = stdout[1] /\ Tail(stdout) = <<>>
    BY <2>1, <2>2, Pipes
  <2> QED BY <1>0, <2>1, <2>2, <2>3 DEF ReadPage, Read, Fail, OutsideChild, Outcome
<1>2. n \in Rendered /\ \A v \in Got : v < 2 * n
  BY <1>0, <1>1 DEF PagesOK
<1>3. n \in 1..MaxPages /\ job.pages \subseteq 1..MaxPages /\ 2 * n \in 2..(2 * MaxPages + 1)
  BY <1>1, <1>2, PieceTypes DEF Rendered, TypeOK
<1>4. Got' = Got \cup {2 * n}
  BY <1>1, <1>3, TextGrows
<1>5. ASSUME NEW k \in job.pages \ {n}
      PROVE  Collected(k)' <=> Collected(k)
  <2>1. k \in Nat /\ n \in Nat
    BY <1>3
  <2>2. 2 * k # 2 * n /\ 2 * k + 1 # 2 * n
    BY <1>5, <2>1, Parity
  <2> QED BY <1>4, <2>2, CollectedPieces
<1>6. 2 * n \notin Got /\ 2 * n + 1 \notin Got /\ 2 * n + 1 # 2 * n
  <2>1. n \in Nat /\ ~(2 * n < 2 * n) /\ ~(2 * n + 1 < 2 * n)
    BY <1>3
  <2> QED BY <1>2, <2>1, Parity
<1>7. ~Collected(n)
  BY <1>6, CollectedPieces
<1>8. CASE n \notin Scanned
  <2>1. Collected(n)'
    BY <1>4, <1>8, CollectedPieces
  <2> QED BY <1>1, <1>2, <1>5, <1>7, <2>1, StreamCollects
<1>9. CASE n \in Scanned
  <2>1. ~Collected(n)'
    BY <1>4, <1>6, <1>9, CollectedPieces
  <2>2. InText' = InText /\ Rendered' = Rendered /\ job.pages' = job.pages
    BY <1>1, <1>5, <1>7, <2>1 DEF InText, Rendered
  <2> QED BY <1>1, <2>2 DEF Stream!vars, InText, Rendered, Outcome
<1> QED BY <1>8, <1>9

\* The answer of the model collects the page the parent holds.
LEMMA StreamAnswered ==
  ASSUME Inv, OcrAnswer
  PROVE  Stream!Collect
<1>0. PICK n : n = page
  OBVIOUS
<1>1. /\ TypeOK /\ PagesOK /\ pc = "ocr" /\ body' = Append(body, 2 * n + 1)
      /\ UNCHANGED <<job, todo>> /\ Outcome = "running" /\ Outcome' = "running"
  BY <1>0 DEF Inv, OcrAnswer, OutsideChild, Outcome
<1>2. n \in Rendered \cap Scanned /\ 2 * n \in Got /\ \A v \in Got : v <= 2 * n
  BY <1>0, <1>1 DEF PagesOK
<1>3. n \in 1..MaxPages /\ job.pages \subseteq 1..MaxPages /\ 2 * n + 1 \in 2..(2 * MaxPages + 1)
  BY <1>1, <1>2, PieceTypes DEF Rendered, TypeOK
<1>4. Got' = Got \cup {2 * n + 1}
  BY <1>1, <1>3, TextGrows
<1>5. ASSUME NEW k \in job.pages \ {n}
      PROVE  Collected(k)' <=> Collected(k)
  <2>1. k \in Nat /\ n \in Nat
    BY <1>3
  <2>2. 2 * k # 2 * n + 1 /\ 2 * k + 1 # 2 * n + 1
    BY <1>5, <2>1, Parity
  <2> QED BY <1>4, <2>2, CollectedPieces
<1>6. 2 * n + 1 \notin Got
  <2>1. n \in Nat /\ ~(2 * n + 1 <= 2 * n)
    BY <1>3
  <2> QED BY <1>2, <2>1
<1>7. ~Collected(n) /\ n \in Rendered
  BY <1>2, <1>6, CollectedPieces
<1>8. Collected(n)'
  BY <1>2, <1>4, CollectedPieces
<1> QED BY <1>1, <1>5, <1>7, <1>8, StreamCollects

\* The last record ends the stream; it succeeds only when all pages are collected.
LEMMA StreamEnds ==
  ASSUME Inv, Note
  PROVE  Stream!Succeed \/ Stream!Fail
<1>1. /\ pc = "note" /\ pc' = "end" /\ Outcome = "running"
      /\ UNCHANGED <<job, result, todo, body>>
  BY DEF Note, OutsideChild, Outcome
<1>2. CASE result = "ok"
  <2>1. child = "exit0" /\ PagesOK
    BY <1>2 DEF Inv, LedgerOK
  <2>2. InText = job.pages
    BY <2>1, CollectedRendered DEF AllIn, PagesOK, InText, Rendered
  <2>3. InText' = InText /\ Rendered' = Rendered /\ Outcome' = "ok" /\ job.pages' = job.pages
    BY <1>1, <1>2 DEF InText, Collected, Rendered, Outcome
  <2> QED BY <1>1, <2>2, <2>3 DEF Stream!Succeed, InText, Rendered, Outcome
<1>3. CASE result # "ok"
  <2>1. Outcome' = "failed"
    BY <1>1, <1>3 DEF Outcome
  <2> QED BY <1>1, <2>1, StreamFails
<1> QED BY <1>2, <1>3

\* Parent, pipes and child together implement the stream of the selected pages: the next
\* page is rendered when all before it are collected, and success means all of them.
THEOREM ImplementsStream == Spec => Streams
<1>1. Init => Stream!Init
  <2> SUFFICES ASSUME Init PROVE Stream!Init
    OBVIOUS
  <2>1. Inv /\ Rendered = {} /\ job.pages \subseteq Nat
    <3>1. job.pages \subseteq 1..MaxPages
      BY InvInit, CollectedRendered
    <3>2. Inv /\ job.pages \subseteq Nat
      BY <3>1, InvInit
    <3> QED BY <3>2 DEF Init, Rendered
  <2>2. InText = {}
    BY <2>1, CollectedRendered DEF InText
  <2> QED BY <2>1, <2>2 DEF Init, Stream!Init, InText, Rendered
<1>2. Inv /\ [Next]_vars => [Stream!Next]_(Stream!vars)
  <2> SUFFICES ASSUME Inv, [Next]_vars
               PROVE  Stream!Next \/ UNCHANGED Stream!vars
    OBVIOUS
  <2> USE DEF OutsideChild
  <2>0. LedgerOK /\ (result = "ok" => pc \in {"note", "end"})
    BY DEF Inv, LedgerOK
  <2>1. CASE RenderPage
    BY <2>1, StreamRenders DEF Stream!Next
  <2>2. CASE ReadPage
    BY <2>2, StreamReads DEF Stream!Next
  <2>3. CASE OcrAnswer
    BY <2>3, StreamAnswered DEF Stream!Next
  <2>4. CASE Note
    BY <2>4, StreamEnds DEF Stream!Next
  <2>5. CASE Refuse \/ CleanupNoted \/ Drop
    <3>1. /\ UNCHANGED <<job, todo, body>> /\ Outcome = "running" /\ Outcome' = "failed"
      BY <2>0, <2>5 DEF Refuse, CleanupNoted, Drop, Outcome, Over
    <3> QED BY <3>1, StreamFails DEF Stream!Next
  <2>6. CASE Abort
    <3>1. UNCHANGED <<job, todo, body>> /\ Outcome = "running" /\ Outcome' \in {"running", "failed"}
      BY <2>0, <2>6 DEF Abort, Outcome
    <3> QED BY <3>1, StreamFails, StreamStutters DEF Stream!Next
  <2>7. CASE Spawn \/ LaunchFails \/ CleanedUp \/ Tick \/ Timeout \/ StopWaiting
    <3>1. UNCHANGED <<job, todo, body>> /\ Outcome' = Outcome
      BY <2>7 DEF Spawn, LaunchFails, CleanedUp, Tick, Timeout, StopWaiting, Fail, Waiting, Outcome
    <3> QED BY <3>1, StreamStutters
  <2>8. CASE WriteRequest \/ Acknowledge \/ WriteFails
    <3>1. UNCHANGED <<job, todo, body>> /\ Outcome' = Outcome
      BY <2>8 DEF WriteRequest, Acknowledge, WriteFails, Write, Fail, Outcome
    <3> QED BY <3>1, StreamStutters
  <2>9. CASE RejectPage \/ ReadFailure \/ ReadLast \/ ReadEnd
    <3>1. UNCHANGED <<job, todo, body>> /\ Outcome' = Outcome
      BY <2>9 DEF RejectPage, ReadFailure, ReadLast, ReadEnd, Read, Fail, Outcome
    <3> QED BY <3>1, StreamStutters
  <2>10. CASE OcrCancelled \/ ObserveExit \/ ExitObserved \/ OcrFails
    <3>1. UNCHANGED <<job, todo, body>> /\ Outcome' = Outcome
      BY <2>10 DEF OcrCancelled, ObserveExit, ExitObserved, OcrFails, Fail, Outcome
    <3> QED BY <3>1, StreamStutters
  <2>11. CASE FinishExit \/ FinishTimeout \/ Grace \/ GraceOver \/ Reap
    <3>1. UNCHANGED <<job, todo, body>> /\ Outcome' = Outcome
      BY <2>11 DEF FinishExit, FinishTimeout, Grace, GraceOver, Reap, Outcome
    <3> QED BY <3>1, StreamStutters
  <2>12. CASE \/ Cancel \/ ChildReads \/ ChildAcked \/ ChildEnds \/ ChildFails \/ ChildExits
              \/ ChildCrashes \/ ChildKilled \/ UNCHANGED vars
    <3>1. UNCHANGED <<job, todo, body>> /\ Outcome' = Outcome
      BY <2>12 DEF Cancel, ChildReads, ChildAcked, ChildEnds, ChildFails, ChildExits,
         ChildCrashes, ChildKilled, parent, vars, Outcome
    <3> QED BY <3>1, StreamStutters
  <2> QED BY <2>1, <2>2, <2>3, <2>4, <2>5, <2>6, <2>7, <2>8, <2>9, <2>10, <2>11, <2>12
         DEF Next, ParentNext, ChildNext
<1> QED BY Invariant, <1>1, <1>2, PTL DEF Spec, Streams, Stream!Spec
=============================================================================
