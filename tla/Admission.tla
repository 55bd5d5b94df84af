------------------------------ MODULE Admission ------------------------------
(***************************************************************************)
(* Resource admission: bounded pools for searches, AI runs and parsing,    *)
(* each with active permits and waiting places, and the transport slots of *)
(* the AI client.  Jobs take and give permits in the order their handlers  *)
(* do, are refused at a full pool, are cancelled or dropped while waiting  *)
(* or working, and may leave a blocking worker behind that still owns its  *)
(* permit.                                                                 *)
(***************************************************************************)
EXTENDS Naturals, Sequences, FiniteSets

Seqs == INSTANCE SequencesExt

CONSTANTS Jobs,     \* requests and background tasks
          KindOf,   \* [Jobs -> Kinds]
          Active,   \* [Pools -> Nat]: active permits
          Waiting   \* [Classes -> Nat]: waiting places

Classes == {"search", "ai", "parse"}

Pools == Classes \cup {"slot"}

Kinds == {"run", "material", "query", "export", "inspect"}

ASSUME AdmissionAssumption ==
  /\ IsFiniteSet(Jobs)
  /\ KindOf \in [Jobs -> Kinds]
  /\ Active \in [Pools -> Nat \ {0}]
  /\ Waiting \in [Classes -> Nat]

Take(p) == <<"take", p>>

Give(p) == <<"give", p>>

(* What each handler does with permits, on its longest path. *)

\* An AI run: OCR of its sources under Parse, a model round, a legal tool.
RunPlan ==
  <<Take("ai"), Take("parse"), Take("slot"), Give("slot"), Give("parse"),
    Take("slot"), Give("slot"), Take("search"), Give("search")>>

\* Faulty variant: the parser is taken before the model permit.
MaterialPlan_ParseFirst ==
  <<Take("parse"), Take("ai"), Take("slot"), Give("slot"), Give("parse"),
    Take("slot"), Give("slot")>>

\* A material on the model path: OCR under Parse, then redaction.
MaterialPlan ==
  <<Take("ai"), Take("parse"), Take("slot"), Give("slot"), Give("parse"),
    Take("slot"), Give("slot")>>

\* A legal query, a document export and a source inspection (or a material on
\* the local path) take one permit each.
Plan ==
  [run |-> RunPlan, material |-> MaterialPlan, query |-> <<Take("search")>>,
   export |-> <<Take("parse")>>, inspect |-> <<Take("parse")>>]

\* The permit is moved into a blocking worker, which outlives a dropped caller.
Detached ==
  [run |-> {"search"}, material |-> {}, query |-> {"search"}, export |-> {"parse"},
   inspect |-> {}]

VARIABLES
  avail,   \* [Pools -> Nat]: permits in the semaphore
  places,  \* [Classes -> Nat]: waiting permits left
  queue,   \* [Pools -> Seq(Jobs)]: callers inside acquire_owned, in order
  job      \* [Jobs -> Job]

vars == <<avail, places, queue, job>>

\* at is 0 before the submission, then the next step of the plan; wait says
\* whether the job owns a waiting place, queues for the permit, or was handed
\* one it has not seen yet.
Job == [at : 0..10, wait : {"no", "place", "queued", "granted"}, held : SUBSET Pools,
        worker : SUBSET Pools, cancelled : BOOLEAN, done : BOOLEAN]

NewJob == [at |-> 0, wait |-> "no", held |-> {}, worker |-> {}, cancelled |-> FALSE,
           done |-> FALSE]

TypeOK ==
  /\ avail \in [Pools -> Nat]
  /\ places \in [Classes -> Nat]
  /\ queue \in [Pools -> Seq(Jobs)]
  /\ job \in [Jobs -> Job]

Init ==
  /\ avail = Active
  /\ places = Waiting
  /\ queue = [p \in Pools |-> <<>>]
  /\ job = [j \in Jobs |-> NewJob]

-----------------------------------------------------------------------------
Steps(j) == Plan[KindOf[j]]

Running(j) == job[j].at # 0 /\ ~job[j].done

\* The job's next step takes a permit of p.
Wants(j, p) ==
  /\ Running(j)
  /\ job[j].at <= Len(Steps(j))
  /\ Steps(j)[job[j].at] = Take(p)

\* Whether j, waiting for p, owns one of its waiting places.
OwnsPlace(j, p) == p \in Classes /\ job[j].wait # "no" /\ Wants(j, p)

\* Faulty variant: a returned permit goes to the semaphore past the queue.
Handed_PastQueue(R, q, j, c) ==
  /\ avail' = [p \in Pools |-> IF p \in R THEN avail[p] + 1 ELSE avail[p]]
  /\ queue' = q
  /\ job' = [job EXCEPT ![j] = c]

\* Permits of R are returned over the queues q: each goes to the head of its
\* queue, or back to the semaphore; j's own record becomes c.
Handed(R, q, j, c) ==
  LET heads == {Head(q[p]) : p \in {r \in R : q[r] # <<>>}} IN
  /\ avail' = [p \in Pools |-> IF p \in R /\ q[p] = <<>> THEN avail[p] + 1 ELSE avail[p]]
  /\ queue' = [p \in Pools |-> IF p \in R /\ q[p] # <<>> THEN Tail(q[p]) ELSE q[p]]
  /\ job' = [k \in Jobs |-> IF k = j THEN c
                            ELSE IF k \in heads THEN [job[k] EXCEPT !.wait = "granted"]
                            ELSE job[k]]

\* The job ends and drops what it owns: permits, a granted permit, its waiting
\* place and its turn, of which it has one at most.  kept is what a blocking worker still owns.
Leave(j, kept) ==
  LET granted == {p \in Pools : job[j].wait = "granted" /\ Wants(j, p)} IN
  /\ Handed((job[j].held \ kept) \cup granted,
            [p \in Pools |-> Seqs!RemoveFirst(queue[p], j)], j,
            [NewJob EXCEPT !.at = job[j].at, !.worker = kept, !.done = TRUE])
  /\ places' = [p \in Classes |-> IF OwnsPlace(j, p) THEN places[p] + 1 ELSE places[p]]

\* The job owns a permit of p and goes on.
Admitted(j, p) ==
  [job[j] EXCEPT !.held = @ \cup {p}, !.wait = "no", !.at = @ + 1]

Submit(j) ==
  /\ job[j].at = 0
  /\ job' = [job EXCEPT ![j].at = 1]
  /\ UNCHANGED <<avail, places, queue>>

\* A full pool refuses.  A run tells its model that the tool failed and goes on;
\* every other caller ends.
Refused(j, p) ==
  IF KindOf[j] = "run" /\ p = "search"
  THEN job' = [job EXCEPT ![j].at = @ + 2] /\ UNCHANGED <<avail, places, queue>>
  ELSE Leave(j, {})

\* reserve: an active permit, else a waiting place, else capacity_exceeded.  The
\* transport slots have no places: their callers queue at once.
Reserve(j, p) ==
  /\ Wants(j, p)
  /\ job[j].wait = "no"
  /\ ~job[j].cancelled
  /\ IF avail[p] > 0
     THEN /\ avail' = [avail EXCEPT ![p] = @ - 1]
          /\ job' = [job EXCEPT ![j] = Admitted(j, p)]
          /\ UNCHANGED <<places, queue>>
     ELSE IF p = "slot"
     THEN /\ queue' = [queue EXCEPT ![p] = Append(@, j)]
          /\ job' = [job EXCEPT ![j].wait = "queued"]
          /\ UNCHANGED <<avail, places>>
     ELSE IF places[p] > 0
     THEN /\ places' = [places EXCEPT ![p] = @ - 1]
          /\ job' = [job EXCEPT ![j].wait = "place"]
          /\ UNCHANGED <<avail, queue>>
     ELSE Refused(j, p)

\* activate, first poll: the place is kept while the caller queues.
Activate(j, p) ==
  /\ Wants(j, p)
  /\ job[j].wait = "place"
  /\ ~job[j].cancelled
  /\ IF avail[p] > 0
     THEN /\ avail' = [avail EXCEPT ![p] = @ - 1]
          /\ places' = [places EXCEPT ![p] = @ + 1]
          /\ job' = [job EXCEPT ![j] = Admitted(j, p)]
          /\ UNCHANGED queue
     ELSE /\ queue' = [queue EXCEPT ![p] = Append(@, j)]
          /\ job' = [job EXCEPT ![j].wait = "queued"]
          /\ UNCHANGED <<avail, places>>

\* Faulty variant: the waiting place is held for the duration of the work.
Wake_KeepsPlace(j, p) ==
  /\ Wants(j, p)
  /\ job[j].wait = "granted"
  /\ ~job[j].cancelled
  /\ job' = [job EXCEPT ![j] = Admitted(j, p)]
  /\ UNCHANGED <<avail, queue, places>>

\* activate, woken with the permit: drop(waiting).
Wake(j, p) ==
  /\ Wants(j, p)
  /\ job[j].wait = "granted"
  /\ ~job[j].cancelled
  /\ job' = [job EXCEPT ![j] = Admitted(j, p)]
  /\ places' = IF p \in Classes THEN [places EXCEPT ![p] = @ + 1] ELSE places
  /\ UNCHANGED <<avail, queue>>

\* Every wait and the checks before and after it look at the token first.
SeeCancel(j) ==
  /\ Running(j)
  /\ job[j].cancelled
  /\ \E p \in Pools : Wants(j, p)
  /\ Leave(j, {})

\* The work of a step ends and its permit is dropped.
Return(j) ==
  /\ Running(j)
  /\ job[j].at <= Len(Steps(j))
  /\ \E p \in Pools :
       /\ Steps(j)[job[j].at] = Give(p)
       /\ Handed({p}, queue, j, [job[j] EXCEPT !.held = @ \ {p}, !.at = @ + 1])
  /\ UNCHANGED places

Finish(j) ==
  /\ Running(j)
  /\ job[j].at > Len(Steps(j))
  /\ Leave(j, {})

\* An error, a panic, a disconnected client or the token drops the job anywhere;
\* a blocking worker keeps its permit.
Drop(j) == Running(j) /\ Leave(j, job[j].held \cap Detached[KindOf[j]])

WorkerReturns(j) ==
  /\ job[j].worker # {}
  /\ Handed(job[j].worker, queue, j, [job[j] EXCEPT !.worker = {}])
  /\ UNCHANGED places

Cancel(j) ==
  /\ Running(j)
  /\ ~job[j].cancelled
  /\ job' = [job EXCEPT ![j].cancelled = TRUE]
  /\ UNCHANGED <<avail, places, queue>>

Progress(j) ==
  \/ \E p \in Pools : Reserve(j, p) \/ Activate(j, p) \/ Wake(j, p)
  \/ SeeCancel(j)
  \/ Return(j)
  \/ Finish(j)
  \/ WorkerReturns(j)

Next == \E j \in Jobs : Submit(j) \/ Cancel(j) \/ Drop(j) \/ Progress(j)

\* The executor polls every ready task; calls and workers end by their timeouts.
\* Nobody has to submit, cancel or drop.
Fairness == \A j \in Jobs : WF_vars(Progress(j))

Spec == Init /\ [][Next]_vars /\ Fairness

-----------------------------------------------------------------------------
\* Besides types: "Retaining this value owns exactly one active resource slot": permits and
\* waiting places are neither lost nor duplicated on any path through refusal,
\* cancellation, a grant nobody waits for any more, a drop or a detached worker.
Conserved ==
  /\ TypeOK
  /\ \A p \in Pools :
       avail[p] + Cardinality({j \in Jobs : p \in job[j].held})
                + Cardinality({j \in Jobs : p \in job[j].worker})
                + Cardinality({j \in Jobs : job[j].wait = "granted" /\ Wants(j, p)})
         = Active[p]
  /\ \A p \in Classes :
       places[p] + Cardinality({j \in Jobs : OwnsPlace(j, p)}) = Waiting[p]

\* Callers that queue are served before newcomers: a permit is taken from the
\* semaphore only while nobody queues for it.
NoBarging ==
  [][\A j \in Jobs, p \in Pools :
       p \in job'[j].held \ job[j].held /\ job[j].wait # "granted" =>
         queue[p] = <<>>]_vars

\* Holding one permit while waiting for another never stops the system: every
\* submitted job ends and leaves no worker behind.
Settles ==
  \A j \in Jobs : job[j].at # 0 ~> job[j].done /\ job[j].worker = {}
=============================================================================
