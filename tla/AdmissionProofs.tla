--------------------------- MODULE AdmissionProofs ---------------------------
(***************************************************************************)
(* TLAPS proofs about Admission, for every finite set of jobs, every kind  *)
(* of each of them and every size of the pools.                            *)
(***************************************************************************)
EXTENDS Admission, FiniteSetTheorems, SequenceTheorems, TLAPS

\* The permits a job of each kind holds before each step of its plan, and at its end.
Holds ==
  [run |-> <<{}, {"ai"}, {"ai", "parse"}, {"ai", "parse", "slot"}, {"ai", "parse"}, {"ai"},
             {"ai", "slot"}, {"ai"}, {"ai", "search"}, {"ai"}>>,
   material |-> <<{}, {"ai"}, {"ai", "parse"}, {"ai", "parse", "slot"}, {"ai", "parse"},
                  {"ai"}, {"ai", "slot"}, {"ai"}>>,
   query |-> <<{}, {"search"}>>, export |-> <<{}, {"parse"}>>, inspect |-> <<{}, {"parse"}>>]

\* A record of a job: what it holds is what its plan says, and it queues, or holds a
\* waiting place, only for a permit its next step takes.
JobOK(j) ==
  /\ Running(j) =>
       /\ job[j].at \in 1..(Len(Steps(j)) + 1)
       /\ job[j].held = Holds[KindOf[j]][job[j].at]
  /\ ~Running(j) => job[j].held = {}
  /\ job[j].worker # {} => job[j].done
  /\ job[j].wait # "no" => \E p \in Pools : Wants(j, p)

\* A queue holds callers that wait for its pool, each once, and only at an empty pool.
QueueOK(p) ==
  /\ \A i \in 1..Len(queue[p]) : job[queue[p][i]].wait = "queued" /\ Wants(queue[p][i], p)
  /\ \A i, k \in 1..Len(queue[p]) : queue[p][i] = queue[p][k] => i = k
  /\ avail[p] > 0 => queue[p] = <<>>

\* Who has a permit of p, and who a waiting place.
Owners(p) == {j \in Jobs : \/ p \in job[j].held
                           \/ p \in job[j].worker
                           \/ job[j].wait = "granted" /\ Wants(j, p)}

Placed(p) == {j \in Jobs : OwnsPlace(j, p)}

\* A permit is in the semaphore or has one owner, a waiting place likewise.
CountOK(p) == avail[p] + Cardinality(Owners(p)) = Active[p]

PlacesOK(p) == places[p] + Cardinality(Placed(p)) = Waiting[p]

Inv ==
  /\ TypeOK
  /\ \A j \in Jobs : JobOK(j)
  /\ \A p \in Pools : QueueOK(p) /\ CountOK(p)
  /\ \A p \in Classes : PlacesOK(p)

-----------------------------------------------------------------------------
(* Plans. *)

\* A step takes or gives one permit.
LEMMA StepsDiffer ==
  ASSUME NEW p, NEW r
  PROVE  Take(p) # Give(r) /\ (Take(p) = Take(r) => p = r) /\ (Give(p) = Give(r) => p = r)
BY DEF Take, Give

\* Every plan takes only what it does not hold and gives only what it holds; a run that
\* is refused a search skips it and its return.
LEMMA Plans ==
  ASSUME NEW k \in Kinds, NEW i \in 1..Len(Plan[k]), NEW p \in Pools
  PROVE  /\ Len(Plan[k]) \in 1..9
         /\ Plan[k][i] = Take(p) =>
              p \notin Holds[k][i] /\ Holds[k][i + 1] = Holds[k][i] \cup {p}
         /\ Plan[k][i] = Give(p) =>
              p \in Holds[k][i] /\ Holds[k][i + 1] = Holds[k][i] \ {p}
         /\ Plan[k][i] = Take("search") /\ k = "run" =>
              i + 1 \in 1..Len(Plan[k]) /\ Holds[k][i + 2] = Holds[k][i]
<1>1. CASE k = "run"
  <2>1. Plan[k] = RunPlan
    BY <1>1 DEF Plan
  <2>2. Len(Plan[k]) = 9 /\ i \in 1..9
    BY <2>1 DEF RunPlan
  <2>3. /\ i = 1 => Plan[k][i] = Take("ai")
        /\ i = 2 => Plan[k][i] = Take("parse")
        /\ i = 3 => Plan[k][i] = Take("slot")
        /\ i = 4 => Plan[k][i] = Give("slot")
        /\ i = 5 => Plan[k][i] = Give("parse")
        /\ i = 6 => Plan[k][i] = Take("slot")
        /\ i = 7 => Plan[k][i] = Give("slot")
        /\ i = 8 => Plan[k][i] = Take("search")
        /\ i = 9 => Plan[k][i] = Give("search")
    BY <2>1 DEF RunPlan
  <2>4. /\ i = 1 => Holds[k][i] = {} /\ Holds[k][i + 1] = {"ai"}
        /\ i = 2 => Holds[k][i] = {"ai"} /\ Holds[k][i + 1] = {"ai", "parse"}
        /\ i = 3 => Holds[k][i] = {"ai", "parse"} /\ Holds[k][i + 1] = {"ai", "parse", "slot"}
        /\ i = 4 => Holds[k][i] = {"ai", "parse", "slot"} /\ Holds[k][i + 1] = {"ai", "parse"}
        /\ i = 5 => Holds[k][i] = {"ai", "parse"} /\ Holds[k][i + 1] = {"ai"}
        /\ i = 6 => Holds[k][i] = {"ai"} /\ Holds[k][i + 1] = {"ai", "slot"}
        /\ i = 7 => Holds[k][i] = {"ai", "slot"} /\ Holds[k][i + 1] = {"ai"}
        /\ i = 8 => Holds[k][i] = {"ai"} /\ Holds[k][i + 1] = {"ai", "search"}
        /\ i = 9 => Holds[k][i] = {"ai", "search"} /\ Holds[k][i + 1] = {"ai"}
        /\ i = 8 => Holds[k][i + 2] = {"ai"}
    BY <1>1 DEF Holds
  <2>5. CASE i = 1
    BY <2>2, <2>3, <2>4, <2>5, StepsDiffer
  <2>6. CASE i = 2
    BY <2>2, <2>3, <2>4, <2>6, StepsDiffer
  <2>7. CASE i = 3
    BY <2>2, <2>3, <2>4, <2>7, StepsDiffer
  <2>8. CASE i = 4
    BY <2>2, <2>3, <2>4, <2>8, StepsDiffer
  <2>9. CASE i = 5
    BY <2>2, <2>3, <2>4, <2>9, StepsDiffer
  <2>10. CASE i = 6
    BY <2>2, <2>3, <2>4, <2>10, StepsDiffer
  <2>11. CASE i = 7
    BY <2>2, <2>3, <2>4, <2>11, StepsDiffer
  <2>12. CASE i = 8
    BY <2>2, <2>3, <2>4, <2>12, StepsDiffer
  <2>13. CASE i = 9
    BY <2>2, <2>3, <2>4, <2>13, StepsDiffer
  <2> QED BY <2>2, <2>5, <2>6, <2>7, <2>8, <2>9, <2>10, <2>11, <2>12, <2>13
<1>2. CASE k = "material"
  <2>1. Plan[k] = MaterialPlan
    BY <1>2 DEF Plan
  <2>2. Len(Plan[k]) = 7 /\ i \in 1..7
    BY <2>1 DEF MaterialPlan
  <2>3. /\ i = 1 => Plan[k][i] = Take("ai")
        /\ i = 2 => Plan[k][i] = Take("parse")
        /\ i = 3 => Plan[k][i] = Take("slot")
        /\ i = 4 => Plan[k][i] = Give("slot")
        /\ i = 5 => Plan[k][i] = Give("parse")
        /\ i = 6 => Plan[k][i] = Take("slot")
        /\ i = 7 => Plan[k][i] = Give("slot")
    BY <2>1 DEF MaterialPlan
  <2>4. /\ i = 1 => Holds[k][i] = {} /\ Holds[k][i + 1] = {"ai"}
        /\ i = 2 => Holds[k][i] = {"ai"} /\ Holds[k][i + 1] = {"ai", "parse"}
        /\ i = 3 => Holds[k][i] = {"ai", "parse"} /\ Holds[k][i + 1] = {"ai", "parse", "slot"}
        /\ i = 4 => Holds[k][i] = {"ai", "parse", "slot"} /\ Holds[k][i + 1] = {"ai", "parse"}
        /\ i = 5 => Holds[k][i] = {"ai", "parse"} /\ Holds[k][i + 1] = {"ai"}
        /\ i = 6 => Holds[k][i] = {"ai"} /\ Holds[k][i + 1] = {"ai", "slot"}
        /\ i = 7 => Holds[k][i] = {"ai", "slot"} /\ Holds[k][i + 1] = {"ai"}
    BY <1>2 DEF Holds
  <2>5. CASE i = 1
    BY <2>2, <2>3, <2>4, <2>5, StepsDiffer
  <2>6. CASE i = 2
    BY <2>2, <2>3, <2>4, <2>6, StepsDiffer
  <2>7. CASE i = 3
    BY <2>2, <2>3, <2>4, <2>7, StepsDiffer
  <2>8. CASE i = 4
    BY <2>2, <2>3, <2>4, <2>8, StepsDiffer
  <2>9. CASE i = 5
    BY <2>2, <2>3, <2>4, <2>9, StepsDiffer
  <2>10. CASE i = 6
    BY <2>2, <2>3, <2>4, <2>10, StepsDiffer
  <2>11. CASE i = 7
    BY <2>2, <2>3, <2>4, <2>11, StepsDiffer
  <2> QED BY <2>2, <2>5, <2>6, <2>7, <2>8, <2>9, <2>10, <2>11
<1>3. CASE k \in {"query", "export", "inspect"}
  <2>1. PICK r \in Pools : Plan[k] = <<Take(r)>> /\ Holds[k] = <<{}, {r}>>
    BY <1>3 DEF Plan, Holds, Pools, Classes
  <2>2. Len(Plan[k]) = 1 /\ Plan[k][1] = Take(r) /\ Holds[k][1] = {} /\ Holds[k][2] = {r}
    BY <2>1
  <2>3. i = 1
    BY <2>2
  <2> QED BY <1>3, <2>2, <2>3, StepsDiffer
<1> QED BY <1>1, <1>2, <1>3 DEF Kinds

-----------------------------------------------------------------------------
(* Queues. *)

\* The rest of a queue, without its head or without one caller.
Leaves(q, r) ==
  /\ \A i \in 1..Len(r) : \E k \in 1..Len(q) : r[i] = q[k]
  /\ \A i, k \in 1..Len(r) : r[i] = r[k] => i = k
  /\ q = <<>> => r = <<>>

\* A queue whose members are distinct stays so without its head.
LEMMA HeadLeaves ==
  ASSUME NEW S, NEW q \in Seq(S), q # <<>>, \A i, k \in 1..Len(q) : q[i] = q[k] => i = k
  PROVE  /\ Head(q) = q[1] /\ 1 \in 1..Len(q) /\ Head(q) \in S
         /\ Tail(q) \in Seq(S) /\ Leaves(q, Tail(q))
         /\ \A i \in 1..Len(Tail(q)) : Tail(q)[i] # Head(q)
<1>1. Len(q) \in Nat \ {0}
  BY EmptySeq
<1>2. /\ Head(q) \in S /\ Tail(q) \in Seq(S) /\ Len(Tail(q)) = Len(q) - 1
      /\ \A i \in 1..Len(Tail(q)) : Tail(q)[i] = q[i + 1]
  BY HeadTailProperties
<1>3. Head(q) = q[1]
  OBVIOUS
<1>4. \A i \in 1..Len(Tail(q)) : i + 1 \in 1..Len(q) /\ i + 1 # 1
  BY <1>1, <1>2
<1>5. \A i, k \in 1..Len(Tail(q)) : i + 1 = k + 1 => i = k
  BY <1>1, <1>2
<1>6. Leaves(q, Tail(q))
  BY <1>2, <1>4, <1>5 DEF Leaves
<1> QED BY <1>1, <1>2, <1>3, <1>4, <1>6

\* A caller leaves a queue it is in once at most.
LEMMA CallerLeaves ==
  ASSUME NEW S, NEW q \in Seq(S), NEW e, \A i, k \in 1..Len(q) : q[i] = q[k] => i = k
  PROVE  /\ Seqs!RemoveFirst(q, e) \in Seq(S) /\ Leaves(q, Seqs!RemoveFirst(q, e))
         /\ \A i \in 1..Len(Seqs!RemoveFirst(q, e)) : Seqs!RemoveFirst(q, e)[i] # e
<1>1. CASE \A i \in 1..Len(q) : q[i] # e
  <2>1. Seqs!RemoveFirst(q, e) = q
    BY <1>1 DEF Seqs!RemoveFirst
  <2> QED BY <1>1, <2>1 DEF Leaves
<1>2. CASE \E i \in 1..Len(q) : q[i] = e
  <2>1. PICK n \in 1..Len(q) : q[n] = e /\ \A i \in 1..Len(q) : q[i] = e => i = n
    BY <1>2
  <2>2. Seqs!RemoveFirst(q, e) = Seqs!RemoveAt(q, n)
    BY <2>1 DEF Seqs!RemoveFirst, Seqs!SelectInSeq, Seqs!Min
  <2> DEFINE a == SubSeq(q, 1, n - 1)
             b == SubSeq(q, n + 1, Len(q))
             r == a \o b
  <2>3. Len(q) \in Nat /\ n \in Int /\ \A i \in 1..Len(q) : q[i] \in S
    BY LenProperties, ElementOfSeq
  <2>4. /\ a \in Seq(S) /\ Len(a) = n - 1
        /\ \A i \in 1..(n - 1) : a[i] = q[i]
    <3>1. \A i \in 1..(n - 1) : q[i] \in S
      BY <2>3
    <3>2. /\ a \in Seq(S) /\ Len(a) = IF 1 <= n - 1 THEN (n - 1) - 1 + 1 ELSE 0
          /\ \A i \in 1..((n - 1) - 1 + 1) : a[i] = q[1 + i - 1]
      BY <2>3, <3>1, SubSeqProperties
    <3> HIDE DEF a
    <3>3. (n - 1) - 1 + 1 = n - 1 /\ \A i \in 1..(n - 1) : 1 + i - 1 = i
      BY <2>3
    <3>4. Len(a) = n - 1
      BY <2>3, <3>2
    <3> QED BY <3>2, <3>3, <3>4
  <2>5. /\ b \in Seq(S) /\ Len(b) = Len(q) - n
        /\ \A i \in 1..(Len(q) - n) : b[i] = q[i + n]
    <3>1. \A i \in (n + 1)..Len(q) : q[i] \in S
      BY <2>3
    <3>2. /\ b \in Seq(S) /\ Len(b) = IF n + 1 <= Len(q) THEN Len(q) - (n + 1) + 1 ELSE 0
          /\ \A i \in 1..(Len(q) - (n + 1) + 1) : b[i] = q[(n + 1) + i - 1]
      BY <2>3, <3>1, SubSeqProperties
    <3> HIDE DEF b
    <3>3. /\ Len(q) - (n + 1) + 1 = Len(q) - n
          /\ \A i \in 1..(Len(q) - n) : (n + 1) + i - 1 = i + n
      BY <2>3
    <3>4. Len(b) = Len(q) - n
      BY <2>3, <3>2
    <3> QED BY <3>2, <3>3, <3>4
  <2> HIDE DEF a, b
  <2>6. /\ r \in Seq(S) /\ Len(r) = Len(a) + Len(b)
        /\ \A i \in 1..(Len(a) + Len(b)) : r[i] = IF i <= Len(a) THEN a[i] ELSE b[i - Len(a)]
    BY <2>4, <2>5, ConcatProperties
  <2> HIDE DEF r
  <2>7. Len(r) = Len(q) - 1
    BY <2>3, <2>4, <2>5, <2>6
  <2>8. \A i \in 1..Len(r) : r[i] = q[IF i < n THEN i ELSE i + 1]
    <3> SUFFICES ASSUME NEW i \in 1..Len(r) PROVE r[i] = q[IF i < n THEN i ELSE i + 1]
      OBVIOUS
    <3>1. CASE i < n
      <4>1. i \in 1..(n - 1) /\ i <= Len(a) /\ i \in 1..(Len(a) + Len(b))
        BY <2>3, <2>4, <2>5, <2>6, <3>1
      <4> QED BY <2>4, <2>6, <3>1, <4>1
    <3>2. CASE ~(i < n)
      <4>1. /\ ~(i <= Len(a)) /\ i \in 1..(Len(a) + Len(b))
            /\ i - Len(a) \in 1..(Len(q) - n) /\ (i - Len(a)) + n = i + 1
        BY <2>3, <2>4, <2>5, <2>7, <2>6, <3>2
      <4> QED BY <2>5, <2>6, <3>2, <4>1
    <3> QED BY <3>1, <3>2
  <2>9. \A i \in 1..Len(r) : (IF i < n THEN i ELSE i + 1) \in 1..Len(q) \ {n}
    BY <2>3, <2>7
  <2>10. \A i, k \in 1..Len(r) :
           (IF i < n THEN i ELSE i + 1) = (IF k < n THEN k ELSE k + 1) => i = k
    BY <2>3, <2>7
  <2>11. \A i, k \in 1..Len(r) : r[i] = r[k] => i = k
    BY <2>8, <2>9, <2>10
  <2>12. Leaves(q, r)
    <3>1. q # <<>>
      BY <2>3
    <3> QED BY <2>8, <2>9, <2>11, <3>1 DEF Leaves
  <2>13. \A i \in 1..Len(r) : r[i] # e
    BY <2>1, <2>8, <2>9
  <2>14. Seqs!RemoveFirst(q, e) = r
    BY <2>2 DEF Seqs!RemoveAt, r, a, b
  <2> QED BY <2>6, <2>12, <2>13, <2>14
<1> QED BY <1>1, <1>2

-----------------------------------------------------------------------------
(* Steps of one job and what they leave of the others. *)

\* The other jobs keep their records, except that one that queues may be handed a permit.
OthersStay(j) ==
  \A k \in Jobs \ {j} :
    \/ job'[k] = job[k]
    \/ job[k].wait = "queued" /\ job'[k] = [job[k] EXCEPT !.wait = "granted"]

\* A handed permit changes neither what a job wants nor its place.
LEMMA OthersOK ==
  ASSUME Inv, NEW j \in Jobs, OthersStay(j), NEW k \in Jobs \ {j}
  PROVE  /\ \A p : Wants(k, p)' <=> Wants(k, p)
         /\ \A p : OwnsPlace(k, p)' <=> OwnsPlace(k, p)
         /\ JobOK(k)'
<1>1. JobOK(k) /\ job[k] \in Job
  BY DEF Inv, TypeOK
<1>2. /\ job'[k].at = job[k].at /\ job'[k].done = job[k].done /\ job'[k].held = job[k].held
      /\ job'[k].worker = job[k].worker
      /\ job'[k].wait = job[k].wait \/ (job[k].wait = "queued" /\ job'[k].wait = "granted")
  BY <1>1 DEF OthersStay, Job
<1>3. \A p : Wants(k, p)' <=> Wants(k, p)
  BY <1>2 DEF Wants, Running, Steps
<1>4. \A p : OwnsPlace(k, p)' <=> OwnsPlace(k, p)
  BY <1>2, <1>3 DEF OwnsPlace
<1>5. Running(k)' <=> Running(k)
  BY <1>2 DEF Running
<1>6. JobOK(k)'
  BY <1>1, <1>2, <1>3, <1>5 DEF JobOK, Steps
<1> QED BY <1>3, <1>4, <1>6

\* A job waits for one pool at most.
LEMMA OneWanted ==
  ASSUME NEW j, NEW p, NEW r, Wants(j, p), Wants(j, r)
  PROVE  p = r
BY StepsDiffer DEF Wants

\* A set of jobs with and without one of them.
LEMMA Cards ==
  ASSUME NEW j \in Jobs, NEW S \in SUBSET Jobs, NEW T \in SUBSET Jobs, S \ {j} = T \ {j}
  PROVE  /\ Cardinality(S) \in Nat /\ Cardinality(T) \in Nat
         /\ (j \in S <=> j \in T) => Cardinality(S) = Cardinality(T)
         /\ j \in S /\ j \notin T => Cardinality(S) = Cardinality(T) + 1
         /\ j \notin S /\ j \in T => Cardinality(T) = Cardinality(S) + 1
<1>1. IsFiniteSet(S) /\ IsFiniteSet(T)
  BY AdmissionAssumption, FS_Subset
<1>2. Cardinality(S) \in Nat /\ Cardinality(T) \in Nat
  BY <1>1, FS_CardinalityType
<1>3. ASSUME j \in S <=> j \in T
      PROVE  Cardinality(S) = Cardinality(T)
  <2>1. S = T
    BY <1>3
  <2> QED BY <2>1
<1>4. ASSUME j \in S, j \notin T
      PROVE  Cardinality(S) = Cardinality(T) + 1
  <2>1. S = T \cup {j}
    BY <1>4
  <2> QED BY <1>1, <1>4, <2>1, FS_AddElement
<1>5. ASSUME j \notin S, j \in T
      PROVE  Cardinality(T) = Cardinality(S) + 1
  <2>1. T = S \cup {j}
    BY <1>5
  <2> QED BY <1>1, <1>5, <2>1, FS_AddElement
<1> QED BY <1>2, <1>3, <1>4, <1>5

\* The places, when only j takes or leaves one.
LEMMA PlacesStep ==
  ASSUME Inv, NEW j \in Jobs, OthersStay(j), NEW p \in Classes,
         \/ places'[p] = places[p] /\ (OwnsPlace(j, p) <=> OwnsPlace(j, p)')
         \/ places'[p] = places[p] + 1 /\ OwnsPlace(j, p) /\ ~OwnsPlace(j, p)'
         \/ places'[p] = places[p] - 1 /\ ~OwnsPlace(j, p) /\ OwnsPlace(j, p)'
  PROVE  PlacesOK(p)'
<1>1. /\ Placed(p)' \ {j} = Placed(p) \ {j}
      /\ Placed(p) \subseteq Jobs /\ Placed(p)' \subseteq Jobs
  BY OthersOK DEF Placed
<1>2. /\ j \in Placed(p) <=> OwnsPlace(j, p)
      /\ j \in Placed(p)' <=> OwnsPlace(j, p)'
  BY DEF Placed
<1>3. /\ places[p] \in Nat /\ places[p] + Cardinality(Placed(p)) = Waiting[p]
      /\ Cardinality(Placed(p)) \in Nat /\ Cardinality(Placed(p)') \in Nat
  BY <1>1, Cards DEF Inv, TypeOK, PlacesOK
<1>4. places'[p] + Cardinality(Placed(p)') = places[p] + Cardinality(Placed(p))
  <2>1. CASE places'[p] = places[p] /\ (OwnsPlace(j, p) <=> OwnsPlace(j, p)')
    <3>1. Cardinality(Placed(p)') = Cardinality(Placed(p))
      BY <1>1, <1>2, <2>1, Cards
    <3> QED BY <2>1, <3>1
  <2>2. CASE places'[p] = places[p] + 1 /\ OwnsPlace(j, p) /\ ~OwnsPlace(j, p)'
    <3>1. Cardinality(Placed(p)) = Cardinality(Placed(p)') + 1
      BY <1>1, <1>2, <2>2, Cards
    <3> QED BY <1>3, <2>2, <3>1
  <2>3. CASE places'[p] = places[p] - 1 /\ ~OwnsPlace(j, p) /\ OwnsPlace(j, p)'
    <3>1. Cardinality(Placed(p)') = Cardinality(Placed(p)) + 1
      BY <1>1, <1>2, <2>3, Cards
    <3> QED BY <1>3, <2>3, <3>1
  <2> QED BY <2>1, <2>2, <2>3
<1> QED BY <1>3, <1>4 DEF PlacesOK

-----------------------------------------------------------------------------
(* Steps that hand permits on. *)

\* Queues as they are, or without a caller.
QueuesLeave(q, j) ==
  \A p \in Pools : /\ q[p] \in Seq(Jobs) /\ Leaves(queue[p], q[p])
                   /\ \A i \in 1..Len(q[p]) : q[p][i] # j

\* A permit of R goes to the head of its queue or to the semaphore, the owners of the
\* others stay; j itself is not looked at.
OwnersHanded(R, q, j, p) ==
  IF p \in R /\ q[p] # <<>>
  THEN /\ avail'[p] = avail[p]
       /\ \E h \in Jobs \ {j} : /\ h \notin Owners(p)
                                /\ Owners(p)' \ {j} = (Owners(p) \ {j}) \cup {h}
  ELSE /\ avail'[p] = IF p \in R THEN avail[p] + 1 ELSE avail[p]
       /\ Owners(p)' \ {j} = Owners(p) \ {j}

\* Every permit returned goes to the head of its queue or to the semaphore.
LEMMA Handing ==
  ASSUME Inv, NEW j \in Jobs, NEW R \in SUBSET Pools, NEW q, NEW c, Handed(R, q, j, c),
         QueuesLeave(q, j)
  PROVE  /\ avail' \in [Pools -> Nat] /\ queue' \in [Pools -> Seq(Jobs)]
         /\ job' \in [Jobs -> Job] <=> c \in Job
         /\ job'[j] = c /\ OthersStay(j)
         /\ \A p \in Pools : QueueOK(p)'
         /\ \A p \in Pools : OwnersHanded(R, q, j, p)
<1> DEFINE heads == {Head(q[p]) : p \in {r \in R : q[r] # <<>>}}
<1>1. /\ avail' = [p \in Pools |-> IF p \in R /\ q[p] = <<>> THEN avail[p] + 1 ELSE avail[p]]
      /\ queue' = [p \in Pools |-> IF p \in R /\ q[p] # <<>> THEN Tail(q[p]) ELSE q[p]]
      /\ job' = [k \in Jobs |-> IF k = j THEN c
                                ELSE IF k \in heads THEN [job[k] EXCEPT !.wait = "granted"]
                                ELSE job[k]]
  BY DEF Handed
<1>2. ASSUME NEW p \in Pools, q[p] # <<>>
      PROVE  /\ Head(q[p]) = q[p][1] /\ 1 \in 1..Len(q[p]) /\ Head(q[p]) \in Jobs
             /\ Tail(q[p]) \in Seq(Jobs) /\ Leaves(q[p], Tail(q[p]))
             /\ \A i \in 1..Len(Tail(q[p])) : Tail(q[p])[i] # Head(q[p])
  BY <1>2, HeadLeaves DEF QueuesLeave, Leaves
<1>3. ASSUME NEW p \in Pools, NEW i \in 1..Len(q[p])
      PROVE  /\ q[p][i] \in Jobs \ {j} /\ job[q[p][i]].wait = "queued" /\ Wants(q[p][i], p)
  <2>1. q[p][i] \in Jobs /\ q[p][i] # j
    BY ElementOfSeq DEF QueuesLeave
  <2>2. PICK m \in 1..Len(queue[p]) : q[p][i] = queue[p][m]
    BY DEF QueuesLeave, Leaves
  <2> QED BY <2>1, <2>2 DEF Inv, QueueOK
<1>4. \A k \in heads : \E r \in R : q[r] # <<>> /\ k = Head(q[r]) /\ job[k].wait = "queued"
                                    /\ Wants(k, r) /\ k \in Jobs \ {j}
  BY <1>2, <1>3
<1>5. job'[j] = c /\ OthersStay(j)
  BY <1>1, <1>4 DEF OthersStay
<1>6. avail' \in [Pools -> Nat] /\ queue' \in [Pools -> Seq(Jobs)]
  BY <1>1, <1>2 DEF Inv, TypeOK, QueuesLeave
<1>7. job' \in [Jobs -> Job] <=> c \in Job
  <2>1. \A k \in Jobs : job[k] \in Job /\ [job[k] EXCEPT !.wait = "granted"] \in Job
    BY DEF Inv, TypeOK, Job
  <2> HIDE DEF heads
  <2> QED BY <1>1, <2>1
<1>8. ASSUME NEW p \in Pools
      PROVE  QueueOK(p)'
  <2>1. Leaves(q[p], queue'[p]) /\ \A i \in 1..Len(queue'[p]) : queue'[p][i] \notin heads
    <3>1. CASE p \in R /\ q[p] # <<>>
      <4>1. queue'[p] = Tail(q[p])
        BY <1>1, <3>1
      <4>2. ASSUME NEW i \in 1..Len(Tail(q[p])), Tail(q[p])[i] \in heads
            PROVE  FALSE
        <5>1. PICK m \in 1..Len(q[p]) : Tail(q[p])[i] = q[p][m]
          BY <1>2, <3>1 DEF Leaves
        <5>2. PICK r \in R : Tail(q[p])[i] = Head(q[r]) /\ Wants(Tail(q[p])[i], r)
          BY <1>4, <4>2
        <5>3. r = p
          BY <1>3, <5>1, <5>2, OneWanted
        <5> QED BY <1>2, <3>1, <5>2, <5>3
      <4> QED BY <1>2, <3>1, <4>1, <4>2
    <3>2. CASE ~(p \in R /\ q[p] # <<>>)
      <4>1. queue'[p] = q[p]
        BY <1>1, <3>2
      <4>2. Leaves(q[p], q[p])
        BY DEF QueuesLeave, Leaves
      <4>3. ASSUME NEW i \in 1..Len(q[p]), q[p][i] \in heads
            PROVE  FALSE
        <5>1. PICK r \in R : q[r] # <<>> /\ Wants(q[p][i], r)
          BY <1>4, <4>3
        <5>2. r = p
          BY <1>3, <5>1, OneWanted
        <5>3. Len(q[p]) \in Nat /\ q[p] = <<>>
          BY <3>2, <5>1, <5>2
        <5> QED BY <5>1, <5>2, <5>3
      <4> QED BY <4>1, <4>2, <4>3
    <3> QED BY <3>1, <3>2
  <2>2. ASSUME NEW i \in 1..Len(queue'[p])
        PROVE  (job[queue[p][i]].wait = "queued" /\ Wants(queue[p][i], p))'
    <3>1. PICK m \in 1..Len(q[p]) : queue'[p][i] = q[p][m]
      BY <2>1 DEF Leaves
    <3>2. PICK k \in Jobs \ {j} : k = queue'[p][i]
      BY <1>3, <3>1
    <3>3. k \notin heads /\ job[k].wait = "queued" /\ Wants(k, p)
      BY <1>3, <2>1, <3>1, <3>2
    <3>4. job'[k] = job[k]
      BY <1>1, <3>3
    <3>5. Wants(k, p)'
      BY <3>3, <3>4 DEF Wants, Running, Steps
    <3> QED BY <3>2, <3>3, <3>4, <3>5
  <2>3. avail'[p] > 0 => queue'[p] = <<>>
    <3> SUFFICES ASSUME avail'[p] > 0 PROVE queue'[p] = <<>>
      OBVIOUS
    <3>1. CASE p \in R
      BY <1>1, <3>1, <2>1 DEF Inv, QueueOK, QueuesLeave, Leaves
    <3>2. CASE p \notin R
      BY <1>1, <3>2 DEF Inv, QueueOK, QueuesLeave, Leaves
    <3> QED BY <3>1, <3>2
  <2> QED BY <2>1, <2>2, <2>3 DEF QueueOK, Leaves
<1>9. ASSUME NEW p \in Pools
      PROVE  /\ p \notin R \/ q[p] = <<>> => Owners(p)' \ {j} = Owners(p) \ {j}
             /\ p \in R /\ q[p] # <<>> =>
                  \E h \in Jobs \ {j} : /\ h \notin Owners(p)
                                        /\ Owners(p)' \ {j} = (Owners(p) \ {j}) \cup {h}
  <2>1. \A k \in Jobs \ {j} : Wants(k, p)' <=> Wants(k, p)
    BY <1>5, OthersOK
  <2>2. ASSUME NEW k \in Jobs \ {j}
        PROVE  k \in Owners(p)' <=> k \in Owners(p) \/ (k \in heads /\ Wants(k, p))
    <3>1. /\ job'[k] = IF k \in heads THEN [job[k] EXCEPT !.wait = "granted"] ELSE job[k]
          /\ job[k] \in Job
      BY <1>1 DEF Inv, TypeOK
    <3> HIDE DEF heads
    <3>2. /\ job'[k].held = job[k].held /\ job'[k].worker = job[k].worker
          /\ job'[k].wait = IF k \in heads THEN "granted" ELSE job[k].wait
      BY <3>1 DEF Job
    <3> QED BY <2>1, <3>2 DEF Owners
  <2>3. CASE p \notin R \/ q[p] = <<>>
    <3>1. \A k \in heads : ~Wants(k, p)
      BY <1>4, <2>3, OneWanted
    <3>2. \A k \in Jobs \ {j} : k \in Owners(p)' <=> k \in Owners(p)
      BY <2>2, <3>1
    <3>3. Owners(p) \subseteq Jobs /\ Owners(p)' \subseteq Jobs
      BY DEF Owners
    <3> QED BY <2>3, <3>2, <3>3
  <2>4. CASE p \in R /\ q[p] # <<>>
    <3>1. PICK h \in Jobs \ {j} : h = Head(q[p])
      BY <1>2, <1>3, <2>4
    <3>2. h \in heads /\ Wants(h, p) /\ job[h].wait = "queued"
      BY <1>2, <1>3, <2>4, <3>1
    <3>3. \A k \in heads : Wants(k, p) => k = h
      BY <1>4, <3>1, OneWanted
    <3>4. h \notin Owners(p)
      <4>1. JobOK(h) /\ job[h].at \in Nat
        <5>1. JobOK(h) /\ job[h] \in Job
          BY DEF Inv, TypeOK
        <5>2. job[h].at \in 0..10
          BY <5>1 DEF Job
        <5> QED BY <5>1, <5>2
      <4>2. /\ Running(h) /\ job[h].at \in 1..Len(Steps(h)) /\ Steps(h)[job[h].at] = Take(p)
            /\ KindOf[h] \in Kinds
        BY <3>2, <4>1, AdmissionAssumption DEF Wants, JobOK
      <4>3. p \notin job[h].held
        BY <4>1, <4>2, Plans DEF JobOK, Steps
      <4>4. job[h].worker = {}
        BY <4>1, <4>2 DEF JobOK, Running
      <4> QED BY <3>2, <4>3, <4>4 DEF Owners
    <3>5. \A k \in Jobs \ {j} : k \in Owners(p)' <=> k \in Owners(p) \/ k = h
      BY <2>2, <3>2, <3>3
    <3>6. Owners(p) \subseteq Jobs /\ Owners(p)' \subseteq Jobs
      BY DEF Owners
    <3>7. Owners(p)' \ {j} = (Owners(p) \ {j}) \cup {h}
      BY <3>5, <3>6
    <3> QED BY <2>4, <3>4, <3>7
  <2> QED BY <2>3, <2>4
<1> HIDE DEF heads
<1>10. ASSUME NEW p \in Pools
       PROVE  avail'[p] = IF p \in R /\ q[p] = <<>> THEN avail[p] + 1 ELSE avail[p]
  BY <1>1
<1>11. \A p \in Pools : OwnersHanded(R, q, j, p)
  BY <1>9, <1>10 DEF OwnersHanded
<1> QED BY <1>5, <1>6, <1>7, <1>8, <1>11

\* A job that gives up exactly the permits returned leaves none lost and none doubled.
LEMMA HandingCounts ==
  ASSUME Inv, NEW j \in Jobs, NEW R \in SUBSET Pools, NEW q, NEW c, Handed(R, q, j, c),
         QueuesLeave(q, j), NEW p \in Pools,
         p \in R => j \in Owners(p) /\ j \notin Owners(p)',
         p \notin R => (j \in Owners(p) <=> j \in Owners(p)')
  PROVE  CountOK(p)'
<1>1. /\ avail[p] \in Nat /\ avail[p] + Cardinality(Owners(p)) = Active[p]
      /\ Owners(p) \subseteq Jobs /\ Owners(p)' \subseteq Jobs
      /\ Cardinality(Owners(p)) \in Nat /\ Cardinality(Owners(p)') \in Nat
  <2>1. Owners(p) \subseteq Jobs /\ Owners(p)' \subseteq Jobs
    BY DEF Owners
  <2>2. Cardinality(Owners(p)) \in Nat /\ Cardinality(Owners(p)') \in Nat
    BY <2>1, AdmissionAssumption, FS_Subset, FS_CardinalityType
  <2> QED BY <2>1, <2>2 DEF Inv, TypeOK, CountOK
<1>2. avail'[p] + Cardinality(Owners(p)') = avail[p] + Cardinality(Owners(p))
  <2>0. OwnersHanded(R, q, j, p)
    BY Handing
  <2>1. CASE p \in R /\ q[p] = <<>>
    <3>1. avail'[p] = avail[p] + 1 /\ Owners(p)' \ {j} = Owners(p) \ {j}
      BY <2>0, <2>1 DEF OwnersHanded
    <3>2. Cardinality(Owners(p)) = Cardinality(Owners(p)') + 1
      BY <1>1, <2>1, <3>1, Cards
    <3> QED BY <1>1, <3>1, <3>2
  <2>2. CASE p \in R /\ q[p] # <<>>
    <3>1. PICK h \in Jobs \ {j} : /\ avail'[p] = avail[p] /\ h \notin Owners(p)
                                  /\ Owners(p)' \ {j} = (Owners(p) \ {j}) \cup {h}
      BY <2>0, <2>2 DEF OwnersHanded
    <3>2. Owners(p)' = (Owners(p) \ {j}) \cup {h} /\ j \in Owners(p)
      BY <1>1, <2>2, <3>1
    <3>3. Cardinality(Owners(p)) = Cardinality(Owners(p) \ {j}) + 1
      BY <1>1, <3>2, Cards
    <3>4. /\ Owners(p)' \ {h} = (Owners(p) \ {j}) \ {h}
          /\ h \in Owners(p)' /\ h \notin Owners(p) \ {j}
      BY <3>1, <3>2
    <3>5. Cardinality(Owners(p)') = Cardinality(Owners(p) \ {j}) + 1
      BY <1>1, <3>4, Cards
    <3> QED BY <3>1, <3>3, <3>5
  <2>3. CASE p \notin R
    <3>1. avail'[p] = avail[p] /\ Owners(p)' \ {j} = Owners(p) \ {j}
      BY <2>0, <2>3 DEF OwnersHanded
    <3>2. Cardinality(Owners(p)) = Cardinality(Owners(p)')
      BY <1>1, <2>3, <3>1, Cards
    <3> QED BY <3>1, <3>2
  <2> QED BY <2>1, <2>2, <2>3
<1> QED BY <1>1, <1>2 DEF CountOK

\* What the invariant says of a job that runs.
LEMMA RunningJob ==
  ASSUME Inv, NEW j \in Jobs
  PROVE  /\ KindOf[j] \in Kinds /\ job[j] \in Job /\ job[j].at \in Nat
         /\ job[j].held \subseteq Pools /\ job[j].worker \subseteq Pools
         /\ Running(j) => job[j].worker = {}
         /\ \A p \in Pools : Wants(j, p) => p \notin job[j].held
         /\ \A p \in Pools : Wants(j, p) => job[j].at \in 1..Len(Steps(j))
         /\ Running(j) => job[j].held = Holds[KindOf[j]][job[j].at]
<1>1. KindOf[j] \in Kinds /\ job[j] \in Job /\ JobOK(j)
  BY AdmissionAssumption DEF Inv, TypeOK
<1>2. job[j].at \in 0..10 /\ job[j].held \subseteq Pools /\ job[j].worker \subseteq Pools
  BY <1>1 DEF Job
<1>3. job[j].at \in Nat
  BY <1>2
<1>4. Running(j) => job[j].worker = {} /\ job[j].held = Holds[KindOf[j]][job[j].at]
  BY <1>1 DEF JobOK, Running
<1>5. ASSUME NEW p \in Pools, Wants(j, p)
      PROVE  p \notin job[j].held /\ job[j].at \in 1..Len(Steps(j))
  <2>1. /\ Running(j) /\ job[j].at \in 1..Len(Steps(j)) /\ Steps(j)[job[j].at] = Take(p)
    BY <1>1, <1>3, <1>5 DEF Wants, JobOK
  <2> QED BY <1>1, <1>4, <2>1, Plans DEF Steps
<1> QED BY <1>1, <1>2, <1>3, <1>4, <1>5

\* The queues without a caller, and the queues while nobody of them acts.
LEMMA QueuesWithout ==
  ASSUME Inv, NEW j \in Jobs
  PROVE  /\ QueuesLeave([p \in Pools |-> Seqs!RemoveFirst(queue[p], j)], j)
         /\ job[j].wait # "queued" => QueuesLeave(queue, j)
<1>1. \A p \in Pools : /\ queue[p] \in Seq(Jobs) /\ QueueOK(p)
                       /\ \A i, k \in 1..Len(queue[p]) : queue[p][i] = queue[p][k] => i = k
  BY DEF Inv, TypeOK, QueueOK
<1>2. ASSUME NEW p \in Pools
      PROVE  /\ Seqs!RemoveFirst(queue[p], j) \in Seq(Jobs)
             /\ Leaves(queue[p], Seqs!RemoveFirst(queue[p], j))
             /\ \A i \in 1..Len(Seqs!RemoveFirst(queue[p], j)) :
                  Seqs!RemoveFirst(queue[p], j)[i] # j
  BY <1>1, CallerLeaves
<1>3. QueuesLeave([p \in Pools |-> Seqs!RemoveFirst(queue[p], j)], j)
  BY <1>2 DEF QueuesLeave
<1>4. ASSUME job[j].wait # "queued"
      PROVE  QueuesLeave(queue, j)
  BY <1>1, <1>4 DEF QueuesLeave, Leaves, QueueOK
<1> QED BY <1>3, <1>4

\* A job that ends, on any path, gives back all it owns except what its worker keeps.
LEMMA LeaveStep ==
  ASSUME Inv, NEW j \in Jobs, Running(j), NEW kept \in SUBSET job[j].held, Leave(j, kept)
  PROVE  Inv'
<1> DEFINE granted == {p \in Pools : job[j].wait = "granted" /\ Wants(j, p)}
           R == (job[j].held \ kept) \cup granted
           q == [p \in Pools |-> Seqs!RemoveFirst(queue[p], j)]
           c == [NewJob EXCEPT !.at = job[j].at, !.worker = kept, !.done = TRUE]
<1>1. /\ Handed(R, q, j, c)
      /\ places' = [p \in Classes |-> IF OwnsPlace(j, p) THEN places[p] + 1 ELSE places[p]]
  BY DEF Leave
<1>2. /\ job[j].held \subseteq Pools /\ job[j].worker = {} /\ job[j] \in Job
      /\ \A p \in Pools : Wants(j, p) => p \notin job[j].held
  BY RunningJob
<1>3. R \in SUBSET Pools /\ QueuesLeave(q, j)
  BY <1>2, QueuesWithout
<1>4. /\ c.at = job[j].at /\ c.wait = "no" /\ c.held = {} /\ c.worker = kept /\ c.done = TRUE
      /\ c \in Job
  BY <1>2 DEF NewJob, Job
<1>5. \A p \in Pools : /\ p \in R <=> \/ p \in job[j].held \ kept
                                      \/ job[j].wait = "granted" /\ Wants(j, p)
                       /\ p \in kept => p \in job[j].held
  OBVIOUS
<1> HIDE DEF granted, R, q, c
<1>6. /\ avail' \in [Pools -> Nat] /\ queue' \in [Pools -> Seq(Jobs)]
      /\ job' \in [Jobs -> Job] /\ job'[j] = c /\ OthersStay(j)
      /\ \A p \in Pools : QueueOK(p)'
  BY <1>1, <1>3, <1>4, Handing
<1>7. TypeOK'
  BY <1>1, <1>6 DEF TypeOK, Inv
<1>8. \A p \in Pools : ~Wants(j, p)' /\ ~OwnsPlace(j, p)'
  BY <1>4, <1>6 DEF Wants, OwnsPlace, Running
<1>9. ASSUME NEW p \in Pools
      PROVE  CountOK(p)'
  <2>1. j \in Owners(p) <=> p \in job[j].held \/ (job[j].wait = "granted" /\ Wants(j, p))
    BY <1>2 DEF Owners
  <2>2. j \in Owners(p)' <=> p \in kept
    BY <1>4, <1>6, <1>8 DEF Owners
  <2>3. /\ p \in R => j \in Owners(p) /\ j \notin Owners(p)'
        /\ p \notin R => (j \in Owners(p) <=> j \in Owners(p)')
    BY <1>2, <1>5, <2>1, <2>2
  <2> QED BY <1>1, <1>3, <2>3, HandingCounts
<1>10. ASSUME NEW p \in Classes
       PROVE  PlacesOK(p)'
  <2>1. p \in Pools
    BY DEF Pools
  <2> QED BY <1>1, <1>6, <1>8, <2>1, PlacesStep
<1>11. ASSUME NEW k \in Jobs
       PROVE  JobOK(k)'
  <2>1. CASE k = j
    BY <1>4, <1>6, <2>1 DEF JobOK, Running
  <2> QED BY <1>6, <2>1, OthersOK
<1> QED BY <1>6, <1>7, <1>9, <1>10, <1>11 DEF Inv

\* The work of a step ends.
LEMMA ReturnStep ==
  ASSUME Inv, NEW j \in Jobs, Return(j)
  PROVE  Inv'
<1>1. PICK r \in Pools :
        /\ Steps(j)[job[j].at] = Give(r)
        /\ Handed({r}, queue, j, [job[j] EXCEPT !.held = @ \ {r}, !.at = @ + 1])
  BY DEF Return
<1>2. /\ Running(j) /\ job[j].at \in 1..Len(Steps(j)) /\ places' = places
      /\ job[j].held \subseteq Pools /\ job[j].worker = {} /\ job[j] \in Job
      /\ job[j].held = Holds[KindOf[j]][job[j].at] /\ KindOf[j] \in Kinds /\ job[j].at \in Nat
  <2>1. JobOK(j) /\ Running(j) /\ job[j].at <= Len(Steps(j)) /\ places' = places
    BY DEF Inv, Return
  <2> QED BY <2>1, RunningJob DEF JobOK
<1>3. \A p : ~Wants(j, p)
  BY <1>1, StepsDiffer DEF Wants
<1>4. job[j].wait = "no"
  BY <1>3 DEF Inv, JobOK
<1> DEFINE c == [job[j] EXCEPT !.held = @ \ {r}, !.at = @ + 1]
<1>5. /\ r \in job[j].held /\ Len(Steps(j)) \in 1..9
      /\ Holds[KindOf[j]][job[j].at + 1] = job[j].held \ {r}
  BY <1>1, <1>2, Plans DEF Steps
<1>6. /\ c.at = job[j].at + 1 /\ c.wait = "no" /\ c.held = job[j].held \ {r} /\ c.worker = {}
      /\ c.done = job[j].done /\ c \in Job
  <2>1. job[j].at + 1 \in 0..10
    <3>1. \A a : \A n \in 1..9 : a \in 1..n => a + 1 \in 0..10
      OBVIOUS
    <3> QED BY <1>2, <1>5, <3>1
  <2> QED BY <1>2, <1>4, <2>1 DEF Job
<1>7. Handed({r}, queue, j, c) /\ {r} \in SUBSET Pools /\ QueuesLeave(queue, j)
  BY <1>1, <1>4, QueuesWithout
<1> HIDE DEF c
<1>8. /\ avail' \in [Pools -> Nat] /\ queue' \in [Pools -> Seq(Jobs)]
      /\ job' \in [Jobs -> Job] /\ job'[j] = c /\ OthersStay(j)
      /\ \A p \in Pools : QueueOK(p)'
  BY <1>6, <1>7, Handing
<1>9. TypeOK'
  BY <1>2, <1>8 DEF TypeOK, Inv
<1>10. ASSUME NEW p \in Pools
       PROVE  CountOK(p)'
  <2>1. j \in Owners(p) <=> p \in job[j].held
    BY <1>2, <1>3 DEF Owners
  <2>2. j \in Owners(p)' <=> p \in job[j].held \ {r}
    BY <1>6, <1>8 DEF Owners
  <2>3. /\ p \in {r} => j \in Owners(p) /\ j \notin Owners(p)'
        /\ p \notin {r} => (j \in Owners(p) <=> j \in Owners(p)')
    BY <1>5, <2>1, <2>2
  <2> QED BY <1>7, <2>3, HandingCounts
<1>11. ASSUME NEW p \in Classes
       PROVE  PlacesOK(p)'
  <2>1. ~OwnsPlace(j, p) /\ ~OwnsPlace(j, p)'
    BY <1>4, <1>6, <1>8 DEF OwnsPlace
  <2> QED BY <1>2, <1>8, <2>1, PlacesStep
<1>12. ASSUME NEW k \in Jobs
       PROVE  JobOK(k)'
  <2>1. CASE k = j
    <3>1. Running(j)' /\ c.at \in 1..(Len(Steps(j)) + 1) /\ c.held = Holds[KindOf[j]][c.at]
      BY <1>2, <1>5, <1>6, <1>8 DEF Running
    <3> QED BY <1>6, <1>8, <2>1, <3>1 DEF JobOK, Steps
  <2> QED BY <1>8, <2>1, OthersOK
<1> QED BY <1>8, <1>9, <1>10, <1>11, <1>12 DEF Inv

\* A blocking worker that outlived its job returns.
LEMMA WorkerStep ==
  ASSUME Inv, NEW j \in Jobs, WorkerReturns(j)
  PROVE  Inv'
<1> DEFINE c == [job[j] EXCEPT !.worker = {}]
           R == job[j].worker
<1>1. Handed(R, queue, j, c) /\ places' = places /\ R # {}
  BY DEF WorkerReturns
<1>2. /\ R \in SUBSET Pools /\ job[j] \in Job /\ JobOK(j) /\ ~Running(j) /\ job[j].held = {}
      /\ job[j].done
  <2>1. JobOK(j) /\ job[j].done
    BY <1>1 DEF Inv, JobOK
  <2> QED BY <2>1, RunningJob DEF JobOK, Running
<1>3. job[j].wait = "no"
  BY <1>2 DEF JobOK, Wants
<1>4. /\ c.at = job[j].at /\ c.wait = "no" /\ c.held = {} /\ c.worker = {} /\ c.done
      /\ c \in Job
  BY <1>2, <1>3 DEF Job
<1>5. QueuesLeave(queue, j)
  BY <1>3, QueuesWithout
<1> HIDE DEF c
<1>6. /\ avail' \in [Pools -> Nat] /\ queue' \in [Pools -> Seq(Jobs)]
      /\ job' \in [Jobs -> Job] /\ job'[j] = c /\ OthersStay(j)
      /\ \A p \in Pools : QueueOK(p)'
  BY <1>1, <1>2, <1>4, <1>5, Handing
<1>7. TypeOK'
  BY <1>1, <1>6 DEF TypeOK, Inv
<1>8. ASSUME NEW p \in Pools
      PROVE  CountOK(p)'
  <2>1. j \in Owners(p) <=> p \in R
    BY <1>2, <1>3 DEF Owners
  <2>2. j \notin Owners(p)'
    BY <1>4, <1>6 DEF Owners
  <2> QED BY <1>1, <1>2, <1>5, <2>1, <2>2, HandingCounts
<1>9. ASSUME NEW p \in Classes
      PROVE  PlacesOK(p)'
  <2>1. ~OwnsPlace(j, p) /\ ~OwnsPlace(j, p)'
    BY <1>3, <1>4, <1>6 DEF OwnsPlace
  <2> QED BY <1>1, <1>6, <2>1, PlacesStep
<1>10. ASSUME NEW k \in Jobs
       PROVE  JobOK(k)'
  <2>1. CASE k = j
    BY <1>4, <1>6, <2>1 DEF JobOK, Running
  <2> QED BY <1>6, <2>1, OthersOK
<1> QED BY <1>6, <1>7, <1>8, <1>9, <1>10 DEF Inv

-----------------------------------------------------------------------------
(* Steps that touch one job, and at most one permit or place. *)

\* The permits, when only j may take one.
LEMMA CountStep ==
  ASSUME Inv, NEW j \in Jobs, \A k \in Jobs \ {j} : job'[k] = job[k], NEW p \in Pools,
         \/ avail'[p] = avail[p] /\ (j \in Owners(p) <=> j \in Owners(p)')
         \/ avail'[p] = avail[p] - 1 /\ j \notin Owners(p) /\ j \in Owners(p)'
  PROVE  CountOK(p)'
<1>1. \A k \in Jobs \ {j} : k \in Owners(p)' <=> k \in Owners(p)
  BY OthersOK DEF Owners, OthersStay
<1>2. /\ Owners(p)' \ {j} = Owners(p) \ {j}
      /\ Owners(p) \subseteq Jobs /\ Owners(p)' \subseteq Jobs
  BY <1>1 DEF Owners
<1>3. /\ avail[p] \in Nat /\ avail[p] + Cardinality(Owners(p)) = Active[p]
      /\ Cardinality(Owners(p)) \in Nat /\ Cardinality(Owners(p)') \in Nat
  BY <1>2, Cards DEF Inv, TypeOK, CountOK
<1>4. avail'[p] + Cardinality(Owners(p)') = avail[p] + Cardinality(Owners(p))
  <2>1. CASE avail'[p] = avail[p] /\ (j \in Owners(p) <=> j \in Owners(p)')
    <3>1. Cardinality(Owners(p)) = Cardinality(Owners(p)')
      BY <1>2, <2>1, Cards
    <3> QED BY <2>1, <3>1
  <2>2. CASE avail'[p] = avail[p] - 1 /\ j \notin Owners(p) /\ j \in Owners(p)'
    <3>1. Cardinality(Owners(p)') = Cardinality(Owners(p)) + 1
      BY <1>2, <2>2, Cards
    <3> QED BY <1>3, <2>2, <3>1
  <2> QED BY <2>1, <2>2
<1> QED BY <1>3, <1>4 DEF CountOK

\* A job that goes on by itself: it takes a permit nobody queues for, takes or leaves a
\* waiting place, queues, or takes the permit it was handed.
LEMMA OwnStep ==
  ASSUME Inv, NEW j \in Jobs, NEW c \in Job, job' = [job EXCEPT ![j] = c],
         avail' \in [Pools -> Nat], places' \in [Classes -> Nat],
         queue' \in [Pools -> Seq(Jobs)], JobOK(j)',
         \A p \in Pools : QueueOK(p)',
         \A p \in Pools :
           \/ avail'[p] = avail[p] /\ (j \in Owners(p) <=> j \in Owners(p)')
           \/ avail'[p] = avail[p] - 1 /\ j \notin Owners(p) /\ j \in Owners(p)',
         \A p \in Classes :
           \/ places'[p] = places[p] /\ (OwnsPlace(j, p) <=> OwnsPlace(j, p)')
           \/ places'[p] = places[p] + 1 /\ OwnsPlace(j, p) /\ ~OwnsPlace(j, p)'
           \/ places'[p] = places[p] - 1 /\ ~OwnsPlace(j, p) /\ OwnsPlace(j, p)'
  PROVE  Inv'
<1>1. job \in [Jobs -> Job] /\ job' \in [Jobs -> Job] /\ \A k \in Jobs \ {j} : job'[k] = job[k]
  BY DEF Inv, TypeOK
<1>2. OthersStay(j)
  BY <1>1 DEF OthersStay
<1>3. TypeOK'
  BY <1>1 DEF TypeOK
<1>4. \A k \in Jobs : JobOK(k)'
  BY <1>2, OthersOK
<1>5. ASSUME NEW p \in Pools
      PROVE  CountOK(p)'
  BY <1>1, CountStep
<1>6. ASSUME NEW p \in Classes
      PROVE  PlacesOK(p)'
  BY <1>2, PlacesStep
<1> QED BY <1>3, <1>4, <1>5, <1>6 DEF Inv

\* The queues while a job that is in none of them acts, or only its token changes.
LEMMA QueuesKept ==
  ASSUME Inv, NEW j \in Jobs, NEW c \in Job, job' = [job EXCEPT ![j] = c], queue' = queue,
         \/ job[j].wait # "queued"
         \/ c.wait = job[j].wait /\ c.at = job[j].at /\ c.done = job[j].done,
         \A p \in Pools : avail'[p] = avail[p] \/ avail'[p] = avail[p] - 1
  PROVE  \A p \in Pools : QueueOK(p)'
<1> SUFFICES ASSUME NEW p \in Pools PROVE QueueOK(p)'
  OBVIOUS
<1>1. /\ job \in [Jobs -> Job] /\ QueueOK(p) /\ avail[p] \in Nat /\ queue[p] \in Seq(Jobs)
      /\ \A k \in Jobs \ {j} : job'[k] = job[k]
      /\ job'[j] = c
  BY DEF Inv, TypeOK
<1>2. ASSUME NEW i \in 1..Len(queue[p])
      PROVE  (job[queue[p][i]].wait = "queued" /\ Wants(queue[p][i], p))'
  <2>1. PICK k \in Jobs : k = queue[p][i]
    BY <1>1, ElementOfSeq
  <2>2. job[k].wait = "queued" /\ Wants(k, p)
    BY <1>1, <2>1 DEF QueueOK
  <2>3. /\ job'[k].wait = job[k].wait /\ job'[k].at = job[k].at /\ job'[k].done = job[k].done
    BY <1>1, <2>2
  <2>4. Wants(k, p)'
    BY <2>2, <2>3 DEF Wants, Running, Steps
  <2> QED BY <2>1, <2>2, <2>3, <2>4
<1>3. avail'[p] > 0 => queue'[p] = <<>>
  BY <1>1 DEF QueueOK
<1> QED BY <1>1, <1>2, <1>3 DEF QueueOK

\* A job joins the queue of a pool without permits.
LEMMA QueueJoined ==
  ASSUME Inv, NEW j \in Jobs, NEW r \in Pools, job' = [job EXCEPT ![j].wait = "queued"],
         queue' = [queue EXCEPT ![r] = Append(@, j)], avail' = avail, ~(avail[r] > 0),
         Wants(j, r), job[j].wait # "queued"
  PROVE  queue' \in [Pools -> Seq(Jobs)] /\ \A p \in Pools : QueueOK(p)'
<1>1. /\ job \in [Jobs -> Job] /\ \A p \in Pools : QueueOK(p) /\ queue[p] \in Seq(Jobs)
      /\ \A k \in Jobs \ {j} : job'[k] = job[k]
      /\ job'[j] = [job[j] EXCEPT !.wait = "queued"] /\ job[j] \in Job
  BY DEF Inv, TypeOK
<1>2. /\ Append(queue[r], j) \in Seq(Jobs) /\ Len(Append(queue[r], j)) = Len(queue[r]) + 1
      /\ \A i \in 1..Len(queue[r]) : Append(queue[r], j)[i] = queue[r][i]
      /\ Append(queue[r], j)[Len(queue[r]) + 1] = j
      /\ Len(queue[r]) \in Nat
  BY <1>1, AppendProperties, LenProperties
<1>3. queue' \in [Pools -> Seq(Jobs)]
  BY <1>2 DEF Inv, TypeOK
<1>4. /\ job'[j].wait = "queued" /\ job'[j].at = job[j].at /\ job'[j].done = job[j].done
  BY <1>1 DEF Job
<1>5. \A k \in Jobs, p \in Pools : Wants(k, p)' <=> Wants(k, p)
  BY <1>1, <1>4 DEF Wants, Running, Steps
<1>6. ASSUME NEW p \in Pools, NEW i \in 1..Len(queue[p])
      PROVE  /\ queue[p][i] \in Jobs \ {j}
             /\ job'[queue[p][i]].wait = "queued" /\ Wants(queue[p][i], p)
  BY <1>1, ElementOfSeq DEF QueueOK
<1>7. ASSUME NEW p \in Pools
      PROVE  QueueOK(p)'
  <2>1. CASE p # r
    <3>1. queue'[p] = queue[p]
      BY <1>1, <2>1 DEF Inv, TypeOK
    <3>2. ASSUME NEW i \in 1..Len(queue[p])
          PROVE  (job[queue[p][i]].wait = "queued" /\ Wants(queue[p][i], p))'
      <4>1. PICK k \in Jobs : k = queue[p][i]
        BY <1>6
      <4> QED BY <1>5, <1>6, <3>1, <4>1
    <3>3. /\ \A i, k \in 1..Len(queue[p]) : queue[p][i] = queue[p][k] => i = k
          /\ avail[p] > 0 => queue[p] = <<>>
      BY <1>1 DEF QueueOK
    <3>4. /\ (\A i \in 1..Len(queue[p]) : job[queue[p][i]].wait = "queued" /\ Wants(queue[p][i], p))'
          /\ (\A i, k \in 1..Len(queue[p]) : queue[p][i] = queue[p][k] => i = k)'
          /\ (avail[p] > 0 => queue[p] = <<>>)'
      BY <3>1, <3>2, <3>3
    <3> QED BY <3>4 DEF QueueOK
  <2>2. CASE p = r
    <3>1. queue'[p] = Append(queue[r], j)
      BY <2>2 DEF Inv, TypeOK
    <3>2. ASSUME NEW i \in 1..Len(queue'[p])
          PROVE  (job[queue[p][i]].wait = "queued" /\ Wants(queue[p][i], p))'
      <4>1. PICK k \in Jobs : k = queue'[p][i] /\ (k = j \/ \E m \in 1..Len(queue[p]) : k = queue[p][m])
        BY <1>2, <2>2, <3>1
      <4>2. job'[k].wait = "queued" /\ Wants(k, p)
        BY <1>4, <1>6, <2>2, <4>1
      <4> QED BY <1>5, <4>1, <4>2
    <3>3. \A i, m \in 1..Len(queue'[p]) : queue'[p][i] = queue'[p][m] => i = m
      <4>1. \A i \in 1..Len(queue[r]) : queue[r][i] # j
        BY <1>6
      <4> QED BY <1>1, <1>2, <2>2, <3>1, <4>1 DEF QueueOK
    <3>4. ~(avail'[p] > 0)
      BY <2>2
    <3>5. /\ (\A i \in 1..Len(queue[p]) : job[queue[p][i]].wait = "queued" /\ Wants(queue[p][i], p))'
          /\ (\A i, k \in 1..Len(queue[p]) : queue[p][i] = queue[p][k] => i = k)'
          /\ (avail[p] > 0 => queue[p] = <<>>)'
      BY <3>2, <3>3, <3>4
    <3> QED BY <3>5 DEF QueueOK
  <2> QED BY <2>1, <2>2
<1> QED BY <1>3, <1>7

\* What the plan says of a job that is admitted, and of a run whose search is refused.
LEMMA Onwards ==
  ASSUME Inv, NEW j \in Jobs, NEW p \in Pools, Wants(j, p)
  PROVE  /\ Admitted(j, p) \in Job
         /\ Admitted(j, p).held = job[j].held \cup {p} /\ Admitted(j, p).wait = "no"
         /\ Admitted(j, p).worker = {}
         /\ job' = [job EXCEPT ![j] = Admitted(j, p)] => JobOK(j)'
         /\ KindOf[j] = "run" /\ p = "search" /\ job[j].wait = "no" =>
              /\ [job[j] EXCEPT !.at = @ + 2] \in Job
              /\ job' = [job EXCEPT ![j] = [job[j] EXCEPT !.at = @ + 2]] => JobOK(j)'
<1>1. /\ KindOf[j] \in Kinds /\ job[j] \in Job /\ job[j].at \in Nat /\ job[j].held \subseteq Pools
      /\ job[j].at \in 1..Len(Steps(j)) /\ job[j].worker = {} /\ Running(j)
      /\ Steps(j)[job[j].at] = Take(p) /\ job[j].held = Holds[KindOf[j]][job[j].at]
      /\ job \in [Jobs -> Job]
  BY RunningJob DEF Wants, Inv, TypeOK
<1>2. /\ Len(Steps(j)) \in 1..9
      /\ Holds[KindOf[j]][job[j].at + 1] = job[j].held \cup {p}
      /\ p = "search" /\ KindOf[j] = "run" =>
           job[j].at + 1 \in 1..Len(Steps(j)) /\ Holds[KindOf[j]][job[j].at + 2] = job[j].held
  BY <1>1, Plans DEF Steps
<1>3. /\ job[j].at + 1 \in 0..10 /\ job[j].at + 1 \in 1..(Len(Steps(j)) + 1)
      /\ job[j].at + 1 \in 1..Len(Steps(j)) =>
           job[j].at + 2 \in 0..10 /\ job[j].at + 2 \in 1..(Len(Steps(j)) + 1)
      /\ job[j].at # 0 /\ job[j].at + 1 # 0 /\ job[j].at + 2 # 0
  <2>1. \A a : \A n \in 1..9 : a \in 1..n =>
          /\ a + 1 \in 0..10 /\ a + 1 \in 1..(n + 1)
          /\ a + 1 \in 1..n => a + 2 \in 0..10 /\ a + 2 \in 1..(n + 1)
          /\ a # 0 /\ a + 1 # 0 /\ a + 2 # 0
    OBVIOUS
  <2> QED BY <1>1, <1>2, <2>1
<1>4. /\ Admitted(j, p) \in Job
      /\ Admitted(j, p).held = job[j].held \cup {p} /\ Admitted(j, p).wait = "no"
      /\ Admitted(j, p).worker = {} /\ Admitted(j, p).at = job[j].at + 1
      /\ Admitted(j, p).done = job[j].done
  BY <1>1, <1>3 DEF Admitted, Job
<1>5. ASSUME job' = [job EXCEPT ![j] = Admitted(j, p)]
      PROVE  JobOK(j)'
  <2>1. job'[j] = Admitted(j, p)
    BY <1>1, <1>5
  <2> QED BY <1>1, <1>2, <1>3, <1>4, <2>1 DEF JobOK, Running, Steps
<1>6. ASSUME KindOf[j] = "run", p = "search", job[j].wait = "no"
      PROVE  /\ [job[j] EXCEPT !.at = @ + 2] \in Job
             /\ job' = [job EXCEPT ![j] = [job[j] EXCEPT !.at = @ + 2]] => JobOK(j)'
  <2> DEFINE c == [job[j] EXCEPT !.at = @ + 2]
  <2>1. /\ c \in Job /\ c.held = job[j].held /\ c.wait = "no" /\ c.worker = {}
        /\ c.at = job[j].at + 2 /\ c.done = job[j].done
    BY <1>1, <1>2, <1>3, <1>6 DEF Job
  <2> HIDE DEF c
  <2>2. ASSUME job' = [job EXCEPT ![j] = c]
        PROVE  JobOK(j)'
    <3>1. job'[j] = c
      BY <1>1, <2>2
    <3> QED BY <1>1, <1>2, <1>3, <1>6, <2>1, <3>1 DEF JobOK, Running, Steps
  <2> QED BY <2>1, <2>2 DEF c
<1> QED BY <1>4, <1>5, <1>6

\* A permit nobody queues for is taken.
LEMMA TakeStep ==
  ASSUME Inv, NEW j \in Jobs, NEW p \in Pools, Wants(j, p), job[j].wait \in {"no", "place"},
         avail[p] > 0, avail' = [avail EXCEPT ![p] = @ - 1], queue' = queue,
         job' = [job EXCEPT ![j] = Admitted(j, p)],
         places' = IF job[j].wait = "place" THEN [places EXCEPT ![p] = @ + 1] ELSE places
  PROVE  Inv'
<1> DEFINE c == Admitted(j, p)
<1>1. /\ c \in Job /\ c.held = job[j].held \cup {p} /\ c.wait = "no" /\ c.worker = {}
      /\ JobOK(j)'
  BY Onwards
<1>2. /\ p \notin job[j].held /\ job[j].worker = {} /\ job[j] \in Job
      /\ \A r \in Pools : Wants(j, r) => r = p
  BY RunningJob, OneWanted DEF Wants
<1> HIDE DEF c
<1>3. /\ job' = [job EXCEPT ![j] = c] /\ job'[j] = c
      /\ avail \in [Pools -> Nat] /\ places \in [Classes -> Nat]
      /\ queue \in [Pools -> Seq(Jobs)]
  BY DEF c, Inv, TypeOK
<1>4. avail' \in [Pools -> Nat] /\ places' \in [Classes -> Nat]
  <2>1. avail[p] - 1 \in Nat
    BY <1>3
  <2>2. p \in Classes => places[p] + 1 \in Nat
    BY <1>3
  <2> QED BY <1>3, <2>1, <2>2
<1>5. \A r \in Pools : avail'[r] = IF r = p THEN avail[p] - 1 ELSE avail[r]
  BY <1>3
<1>6. \A r \in Pools : QueueOK(r)'
  BY <1>1, <1>3, <1>5, QueuesKept
<1>7. ASSUME NEW r \in Pools
      PROVE  \/ avail'[r] = avail[r] /\ (j \in Owners(r) <=> j \in Owners(r)')
             \/ avail'[r] = avail[r] - 1 /\ j \notin Owners(r) /\ j \in Owners(r)'
  <2>1. j \in Owners(r) <=> r \in job[j].held
    BY <1>2 DEF Owners
  <2>2. j \in Owners(r)' <=> r \in job[j].held \cup {p}
    BY <1>1, <1>3 DEF Owners
  <2> QED BY <1>2, <1>5, <2>1, <2>2
<1>8. ASSUME NEW r \in Classes
      PROVE  \/ places'[r] = places[r] /\ (OwnsPlace(j, r) <=> OwnsPlace(j, r)')
             \/ places'[r] = places[r] + 1 /\ OwnsPlace(j, r) /\ ~OwnsPlace(j, r)'
  <2>1. ~OwnsPlace(j, r)' /\ r \in Pools
    BY <1>1, <1>3 DEF OwnsPlace, Pools
  <2>2. OwnsPlace(j, r) <=> job[j].wait = "place" /\ r = p
    BY <1>2, <2>1 DEF OwnsPlace
  <2>3. places'[r] = IF job[j].wait = "place" /\ r = p THEN places[r] + 1 ELSE places[r]
    BY <1>3
  <2> QED BY <2>1, <2>2, <2>3
<1> QED BY <1>1, <1>3, <1>4, <1>6, <1>7, <1>8, OwnStep

\* A caller without a permit takes a waiting place, or queues.
LEMMA WaitStep ==
  ASSUME Inv, NEW j \in Jobs, NEW p \in Pools, Wants(j, p), avail' = avail,
         ~(avail[p] > 0), NEW w \in {"place", "queued"}, job' = [job EXCEPT ![j].wait = w],
         \/ /\ w = "queued" /\ places' = places /\ queue' = [queue EXCEPT ![p] = Append(@, j)]
            /\ job[j].wait = "place" \/ (job[j].wait = "no" /\ p = "slot")
         \/ /\ w = "place" /\ queue' = queue /\ places[p] > 0 /\ p \in Classes
            /\ places' = [places EXCEPT ![p] = @ - 1] /\ job[j].wait = "no"
  PROVE  Inv'
<1> DEFINE c == [job[j] EXCEPT !.wait = w]
<1>1. /\ job[j] \in Job /\ JobOK(j) /\ job \in [Jobs -> Job]
      /\ avail \in [Pools -> Nat] /\ places \in [Classes -> Nat] /\ queue \in [Pools -> Seq(Jobs)]
  BY DEF Inv, TypeOK
<1>2. /\ c \in Job /\ c.wait = w /\ c.at = job[j].at /\ c.held = job[j].held
      /\ c.worker = job[j].worker /\ c.done = job[j].done
  BY <1>1 DEF Job
<1>3. job' = [job EXCEPT ![j] = c]
  OBVIOUS
<1> HIDE DEF c
<1>4. job'[j] = c
  BY <1>1, <1>3
<1>5. /\ \A r \in Pools : Wants(j, r)' <=> Wants(j, r)
      /\ Running(j)' <=> Running(j)
  BY <1>2, <1>4 DEF Wants, Running, Steps
<1>6. \A r \in Pools : Wants(j, r) <=> r = p
  BY OneWanted
<1>7. JobOK(j)'
  BY <1>1, <1>2, <1>4, <1>5, <1>6 DEF JobOK, Steps
<1>8. queue' \in [Pools -> Seq(Jobs)] /\ \A r \in Pools : QueueOK(r)'
  <2>1. CASE w = "queued"
    BY <2>1, QueueJoined
  <2>2. CASE w = "place"
    BY <1>1, <1>2, <1>3, <2>2, QueuesKept
  <2> QED BY <2>1, <2>2
<1>9. \A r \in Pools : j \in Owners(r) <=> j \in Owners(r)'
  BY <1>2, <1>4, <1>5 DEF Owners
<1>10. places' \in [Classes -> Nat]
  <2>1. p \in Classes /\ places[p] > 0 => places[p] - 1 \in Nat
    BY <1>1
  <2> QED BY <1>1, <2>1
<1>11. ASSUME NEW r \in Classes
       PROVE  \/ places'[r] = places[r] /\ (OwnsPlace(j, r) <=> OwnsPlace(j, r)')
              \/ places'[r] = places[r] - 1 /\ ~OwnsPlace(j, r) /\ OwnsPlace(j, r)'
  <2>1. r \in Pools /\ r # "slot"
    BY DEF Pools, Classes
  <2>2. /\ OwnsPlace(j, r) <=> job[j].wait # "no" /\ r = p
        /\ OwnsPlace(j, r)' <=> r = p
    BY <1>2, <1>4, <1>5, <1>6, <2>1 DEF OwnsPlace
  <2>3. CASE w = "queued"
    BY <2>1, <2>2, <2>3
  <2>4. CASE w = "place"
    <3>1. places'[r] = IF r = p THEN places[r] - 1 ELSE places[r]
      BY <1>1, <2>4
    <3> QED BY <2>2, <2>4, <3>1
  <2> QED BY <2>3, <2>4
<1> QED BY <1>1, <1>2, <1>3, <1>7, <1>8, <1>9, <1>10, <1>11, OwnStep

\* The permit a caller was handed becomes its own, and its waiting place is free.
LEMMA WakeStep ==
  ASSUME Inv, NEW j \in Jobs, NEW p \in Pools, Wake(j, p)
  PROVE  Inv'
<1> DEFINE c == Admitted(j, p)
<1>1. /\ Wants(j, p) /\ job[j].wait = "granted" /\ avail' = avail /\ queue' = queue
      /\ places' = IF p \in Classes THEN [places EXCEPT ![p] = @ + 1] ELSE places
      /\ job' = [job EXCEPT ![j] = c]
  BY DEF Wake
<1>2. /\ c \in Job /\ c.held = job[j].held \cup {p} /\ c.wait = "no" /\ c.worker = {}
      /\ JobOK(j)'
  BY <1>1, Onwards
<1>3. /\ job[j].worker = {} /\ \A r \in Pools : Wants(j, r) <=> r = p
  BY <1>1, RunningJob, OneWanted DEF Wants
<1> HIDE DEF c
<1>4. /\ job'[j] = c /\ avail \in [Pools -> Nat] /\ places \in [Classes -> Nat]
      /\ queue \in [Pools -> Seq(Jobs)]
  BY <1>1 DEF Inv, TypeOK
<1>5. \A r \in Pools : QueueOK(r)'
  BY <1>1, <1>2, QueuesKept
<1>6. \A r \in Pools : j \in Owners(r) <=> j \in Owners(r)'
  BY <1>1, <1>2, <1>3, <1>4 DEF Owners
<1>7. places' \in [Classes -> Nat]
  <2>1. p \in Classes => places[p] + 1 \in Nat
    BY <1>4
  <2> QED BY <1>1, <1>4, <2>1
<1>8. ASSUME NEW r \in Classes
      PROVE  \/ places'[r] = places[r] /\ (OwnsPlace(j, r) <=> OwnsPlace(j, r)')
             \/ places'[r] = places[r] + 1 /\ OwnsPlace(j, r) /\ ~OwnsPlace(j, r)'
  <2>1. ~OwnsPlace(j, r)' /\ r \in Pools
    BY <1>2, <1>4 DEF OwnsPlace, Pools
  <2>2. OwnsPlace(j, r) <=> r = p
    BY <1>1, <1>3, <2>1 DEF OwnsPlace
  <2>3. places'[r] = IF r = p THEN places[r] + 1 ELSE places[r]
    BY <1>1, <1>4
  <2> QED BY <2>1, <2>2, <2>3
<1> QED BY <1>1, <1>2, <1>4, <1>5, <1>6, <1>7, <1>8, OwnStep

\* A step that changes neither what a job holds nor what it waits for.
LEMMA QuietStep ==
  ASSUME Inv, NEW j \in Jobs, NEW c \in Job, job' = [job EXCEPT ![j] = c],
         UNCHANGED <<avail, places, queue>>, JobOK(j)',
         c.held = job[j].held, c.worker = job[j].worker, c.wait = job[j].wait,
         \/ job[j].wait = "no"
         \/ c.at = job[j].at /\ c.done = job[j].done
  PROVE  Inv'
<1>1. /\ job'[j] = c /\ avail \in [Pools -> Nat] /\ places \in [Classes -> Nat]
      /\ queue \in [Pools -> Seq(Jobs)]
  BY DEF Inv, TypeOK
<1>2. \A r \in Pools : QueueOK(r)'
  BY QueuesKept
<1>3. job[j].wait # "no" => \A p : Wants(j, p)' <=> Wants(j, p)
  BY <1>1 DEF Wants, Running, Steps
<1>4. \A p \in Pools : j \in Owners(p) <=> j \in Owners(p)'
  BY <1>1, <1>3 DEF Owners
<1>5. \A p \in Classes : OwnsPlace(j, p) <=> OwnsPlace(j, p)'
  BY <1>1, <1>3 DEF OwnsPlace
<1> QED BY <1>1, <1>2, <1>4, <1>5, OwnStep

\* A job is submitted.
LEMMA SubmitStep ==
  ASSUME Inv, NEW j \in Jobs, Submit(j)
  PROVE  Inv'
<1> DEFINE c == [job[j] EXCEPT !.at = 1]
<1>1. /\ job' = [job EXCEPT ![j] = c] /\ UNCHANGED <<avail, places, queue>> /\ job[j].at = 0
  BY DEF Submit
<1>2. job[j] \in Job /\ JobOK(j) /\ KindOf[j] \in Kinds /\ job \in [Jobs -> Job]
  BY AdmissionAssumption DEF Inv, TypeOK
<1>3. /\ c \in Job /\ c.at = 1 /\ c.held = job[j].held /\ c.worker = job[j].worker
      /\ c.wait = job[j].wait /\ c.done = job[j].done
  BY <1>2 DEF Job
<1> HIDE DEF c
<1>4. job[j].held = {} /\ job[j].wait = "no"
  BY <1>1, <1>2 DEF JobOK, Running, Wants
<1>5. Holds[KindOf[j]][1] = {} /\ 1 \in 1..(Len(Steps(j)) + 1)
  <2>1. \A k \in Kinds : Holds[k][1] = {}
    BY DEF Kinds, Holds
  <2>2. \A k \in Kinds : Len(Plan[k]) \in Nat
    BY DEF Kinds, Plan, RunPlan, MaterialPlan
  <2> QED BY <1>2, <2>1, <2>2 DEF Steps
<1>6. job'[j] = c
  BY <1>1, <1>2
<1>7. JobOK(j)'
  BY <1>2, <1>3, <1>4, <1>5, <1>6 DEF JobOK, Running, Steps
<1> QED BY <1>1, <1>3, <1>4, <1>7, QuietStep

\* A job is cancelled.
LEMMA CancelStep ==
  ASSUME Inv, NEW j \in Jobs, Cancel(j)
  PROVE  Inv'
<1> DEFINE c == [job[j] EXCEPT !.cancelled = TRUE]
<1>1. job' = [job EXCEPT ![j] = c] /\ UNCHANGED <<avail, places, queue>>
  BY DEF Cancel
<1>2. job[j] \in Job /\ JobOK(j) /\ job \in [Jobs -> Job]
  BY DEF Inv, TypeOK
<1>3. /\ c \in Job /\ c.at = job[j].at /\ c.held = job[j].held /\ c.worker = job[j].worker
      /\ c.wait = job[j].wait /\ c.done = job[j].done
  BY <1>2 DEF Job
<1> HIDE DEF c
<1>4. job'[j] = c
  BY <1>1, <1>2
<1>5. JobOK(j)'
  BY <1>2, <1>3, <1>4 DEF JobOK, Running, Wants, Steps
<1> QED BY <1>1, <1>3, <1>5, QuietStep

\* A reservation: a permit, a place, a turn in the queue of the slots, or a refusal.
LEMMA ReserveStep ==
  ASSUME Inv, NEW j \in Jobs, NEW p \in Pools, Reserve(j, p)
  PROVE  Inv'
<1>1. /\ Wants(j, p) /\ job[j].wait = "no" /\ avail \in [Pools -> Nat] /\ Running(j)
  BY DEF Reserve, Wants, Inv, TypeOK
<1>2. CASE avail[p] > 0
  <2>1. /\ avail' = [avail EXCEPT ![p] = @ - 1] /\ queue' = queue /\ places' = places
        /\ job' = [job EXCEPT ![j] = Admitted(j, p)]
    BY <1>2 DEF Reserve
  <2> QED BY <1>1, <1>2, <2>1, TakeStep
<1>3. CASE ~(avail[p] > 0) /\ p = "slot"
  <2>1. /\ avail' = avail /\ queue' = [queue EXCEPT ![p] = Append(@, j)] /\ places' = places
        /\ job' = [job EXCEPT ![j].wait = "queued"]
    BY <1>3 DEF Reserve
  <2> QED BY <1>1, <1>3, <2>1, WaitStep
<1>4. CASE ~(avail[p] > 0) /\ p # "slot" /\ places[p] > 0
  <2>1. /\ avail' = avail /\ queue' = queue /\ places' = [places EXCEPT ![p] = @ - 1]
        /\ job' = [job EXCEPT ![j].wait = "place"] /\ p \in Classes
    BY <1>4 DEF Reserve, Pools
  <2> QED BY <1>1, <1>4, <2>1, WaitStep
<1>5. CASE ~(avail[p] > 0) /\ p # "slot" /\ ~(places[p] > 0)
  <2>1. Refused(j, p)
    BY <1>5 DEF Reserve
  <2>2. CASE KindOf[j] = "run" /\ p = "search"
    <3> DEFINE c == [job[j] EXCEPT !.at = @ + 2]
    <3>1. job' = [job EXCEPT ![j] = c] /\ UNCHANGED <<avail, places, queue>>
      BY <2>1, <2>2 DEF Refused
    <3>2. c \in Job /\ JobOK(j)' /\ job[j] \in Job
      BY <1>1, <2>2, <3>1, Onwards, RunningJob
    <3>3. c.held = job[j].held /\ c.worker = job[j].worker /\ c.wait = job[j].wait
      BY <3>2 DEF Job
    <3> HIDE DEF c
    <3> QED BY <1>1, <3>1, <3>2, <3>3, QuietStep
  <2>3. CASE ~(KindOf[j] = "run" /\ p = "search")
    <3>1. Leave(j, {}) /\ {} \in SUBSET job[j].held
      BY <2>1, <2>3 DEF Refused
    <3> QED BY <1>1, <3>1, LeaveStep
  <2> QED BY <2>2, <2>3
<1> QED BY <1>2, <1>3, <1>4, <1>5

\* The first poll of a caller with a waiting place.
LEMMA ActivateStep ==
  ASSUME Inv, NEW j \in Jobs, NEW p \in Pools, Activate(j, p)
  PROVE  Inv'
<1>1. Wants(j, p) /\ job[j].wait = "place"
  BY DEF Activate
<1>2. CASE avail[p] > 0
  <2>1. /\ avail' = [avail EXCEPT ![p] = @ - 1] /\ queue' = queue
        /\ places' = [places EXCEPT ![p] = @ + 1]
        /\ job' = [job EXCEPT ![j] = Admitted(j, p)]
    BY <1>2 DEF Activate
  <2> QED BY <1>1, <1>2, <2>1, TakeStep
<1>3. CASE ~(avail[p] > 0)
  <2>1. /\ avail' = avail /\ queue' = [queue EXCEPT ![p] = Append(@, j)] /\ places' = places
        /\ job' = [job EXCEPT ![j].wait = "queued"]
    BY <1>3 DEF Activate
  <2> QED BY <1>1, <1>3, <2>1, WaitStep
<1> QED BY <1>2, <1>3

-----------------------------------------------------------------------------
(* The invariant. *)

\* Empty pools of waiting callers, all permits in the semaphores.
LEMMA InvInit == Init => Inv
<1> SUFFICES ASSUME Init PROVE Inv
  OBVIOUS
<1>1. NewJob \in Job /\ \A j \in Jobs : job[j] = NewJob
  BY DEF Init, NewJob, Job
<1>2. TypeOK
  <2>1. \A p \in Pools : <<>> \in Seq(Jobs)
    BY EmptySeq
  <2> QED BY <1>1, <2>1, AdmissionAssumption DEF Init, TypeOK
<1>3. \A j \in Jobs : JobOK(j) /\ ~Running(j)
  BY <1>1 DEF JobOK, Running, NewJob
<1>4. \A p \in Pools : Owners(p) = {} /\ Placed(p) = {}
  BY <1>1, <1>3 DEF Owners, Placed, OwnsPlace, Wants, NewJob
<1>5. Cardinality({}) = 0
  BY FS_EmptySet
<1>6. ASSUME NEW p \in Pools
      PROVE  QueueOK(p) /\ CountOK(p)
  <2>1. queue[p] = <<>> /\ avail[p] = Active[p] /\ Active[p] \in Nat
    BY AdmissionAssumption DEF Init
  <2>2. CountOK(p)
    <3>1. Cardinality(Owners(p)) = 0
      BY <1>4, <1>5
    <3> QED BY <2>1, <3>1 DEF CountOK
  <2>3. QueueOK(p)
    BY <2>1 DEF QueueOK
  <2> QED BY <2>2, <2>3
<1>7. ASSUME NEW p \in Classes
      PROVE  PlacesOK(p)
  <2>1. places[p] = Waiting[p] /\ Waiting[p] \in Nat /\ p \in Pools
    BY AdmissionAssumption DEF Init, Pools
  <2>2. Cardinality(Placed(p)) = 0
    BY <1>4, <1>5, <2>1
  <2> QED BY <2>1, <2>2 DEF PlacesOK
<1> QED BY <1>2, <1>3, <1>6, <1>7 DEF Inv

\* Every step of every job keeps the invariant.
LEMMA InvNext == Inv /\ [Next]_vars => Inv'
<1> SUFFICES ASSUME Inv, [Next]_vars PROVE Inv'
  OBVIOUS
<1>1. CASE UNCHANGED vars
  <2>1. avail' = avail /\ places' = places /\ queue' = queue /\ job' = job
    BY <1>1 DEF vars
  <2>2. \A j, p : (Wants(j, p)' <=> Wants(j, p)) /\ (Running(j)' <=> Running(j))
    BY <2>1 DEF Wants, Running, Steps
  <2>3. \A p : Owners(p)' = Owners(p) /\ Placed(p)' = Placed(p)
    BY <2>1, <2>2 DEF Owners, Placed, OwnsPlace
  <2>4. \A j \in Jobs : JobOK(j)'
    BY <2>1, <2>2 DEF Inv, JobOK, Steps
  <2>5. \A p \in Pools : QueueOK(p)' /\ CountOK(p)'
    BY <2>1, <2>2, <2>3 DEF Inv, QueueOK, CountOK
  <2>6. \A p \in Classes : PlacesOK(p)'
    BY <2>1, <2>3 DEF Inv, PlacesOK
  <2> QED BY <2>1, <2>4, <2>5, <2>6 DEF Inv, TypeOK
<1>2. ASSUME NEW j \in Jobs, Submit(j) \/ Cancel(j) \/ Drop(j) \/ Progress(j)
      PROVE  Inv'
  <2>1. CASE Submit(j) \/ Cancel(j)
    BY <2>1, SubmitStep, CancelStep
  <2>2. CASE Drop(j)
    <3>1. Running(j) /\ Leave(j, job[j].held \cap Detached[KindOf[j]])
      BY <2>2 DEF Drop
    <3> QED BY <3>1, LeaveStep
  <2>3. ASSUME NEW p \in Pools, Reserve(j, p) \/ Activate(j, p) \/ Wake(j, p)
        PROVE  Inv'
    BY <2>3, ReserveStep, ActivateStep, WakeStep
  <2>4. CASE SeeCancel(j) \/ Finish(j)
    <3>1. Running(j) /\ Leave(j, {}) /\ {} \in SUBSET job[j].held
      BY <2>4 DEF SeeCancel, Finish
    <3> QED BY <3>1, LeaveStep
  <2>5. CASE Return(j) \/ WorkerReturns(j)
    BY <2>5, ReturnStep, WorkerStep
  <2> QED BY <1>2, <2>1, <2>2, <2>3, <2>4, <2>5 DEF Progress
<1> QED BY <1>1, <1>2 DEF Next

\* Types, plans, queues and counts hold in every reachable state.
THEOREM Invariant == Spec => []Inv
BY InvInit, InvNext, PTL DEF Spec

\* Permits and waiting places are neither lost nor duplicated on any path through refusal,
\* cancellation, a grant nobody waits for any more, a drop or a detached worker.
THEOREM PermitsConserved == Spec => []Conserved
<1>1. Inv => Conserved
  <2> SUFFICES ASSUME Inv PROVE Conserved
    OBVIOUS
  <2>1. ASSUME NEW p \in Pools
        PROVE  avail[p] + Cardinality({j \in Jobs : p \in job[j].held})
                        + Cardinality({j \in Jobs : p \in job[j].worker})
                        + Cardinality({j \in Jobs : job[j].wait = "granted" /\ Wants(j, p)})
                 = Active[p]
    <3> DEFINE H == {j \in Jobs : p \in job[j].held}
               W == {j \in Jobs : p \in job[j].worker}
               G == {j \in Jobs : job[j].wait = "granted" /\ Wants(j, p)}
    <3>1. \A j \in Jobs : /\ job[j].worker # {} => ~Running(j) /\ job[j].held = {}
                          /\ Wants(j, p) => Running(j) /\ p \notin job[j].held
      <4>1. \A j \in Jobs : JobOK(j)
        BY DEF Inv
      <4> QED BY <4>1, RunningJob DEF JobOK, Running, Wants
    <3>2. H \cap W = {} /\ (H \cup W) \cap G = {} /\ Owners(p) = (H \cup W) \cup G
      BY <3>1 DEF Owners
    <3>3. IsFiniteSet(H) /\ IsFiniteSet(W) /\ IsFiniteSet(G) /\ IsFiniteSet(H \cup W)
      <4>1. H \subseteq Jobs /\ W \subseteq Jobs /\ G \subseteq Jobs /\ H \cup W \subseteq Jobs
        OBVIOUS
      <4> QED BY <4>1, AdmissionAssumption, FS_Subset
    <3> HIDE DEF H, W, G
    <3>4. /\ Cardinality(H) \in Nat /\ Cardinality(W) \in Nat /\ Cardinality(G) \in Nat
          /\ Cardinality(H \cup W) \in Nat /\ avail[p] \in Nat
      BY <3>3, FS_CardinalityType DEF Inv, TypeOK
    <3>5. /\ Cardinality(H \cup W) = Cardinality(H) + Cardinality(W)
          /\ Cardinality(Owners(p)) = Cardinality(H \cup W) + Cardinality(G)
      <4>1. Cardinality({}) = 0
        BY FS_EmptySet
      <4>2. /\ Cardinality(H \cup W) = Cardinality(H) + Cardinality(W) - Cardinality({})
            /\ Cardinality((H \cup W) \cup G) = Cardinality(H \cup W) + Cardinality(G) - Cardinality({})
        BY <3>2, <3>3, FS_Union
      <4> QED BY <3>2, <3>4, <4>1, <4>2
    <3>6. avail[p] + Cardinality(Owners(p)) = Active[p]
      BY DEF Inv, CountOK
    <3>7. avail[p] + Cardinality(H) + Cardinality(W) + Cardinality(G) = Active[p]
      BY <3>4, <3>5, <3>6
    <3> QED BY <3>7 DEF H, W, G
  <2>2. ASSUME NEW p \in Classes
        PROVE  places[p] + Cardinality({j \in Jobs : OwnsPlace(j, p)}) = Waiting[p]
    BY DEF Inv, PlacesOK, Placed
  <2> QED BY <2>1, <2>2 DEF Conserved, Inv
<1> QED BY Invariant, <1>1, PTL

-----------------------------------------------------------------------------
(* Order. *)

\* Callers that queue are served before newcomers.
InTurn ==
  \A j \in Jobs, p \in Pools :
    p \in job'[j].held \ job[j].held /\ job[j].wait # "granted" => queue[p] = <<>>

\* Handing permits on, no job takes a free one.
LEMMA HandedFair ==
  ASSUME Inv, NEW j \in Jobs, NEW R, NEW q, NEW c, Handed(R, q, j, c),
         c.held \subseteq job[j].held
  PROVE  InTurn
<1>1. \A k \in Jobs : job[k] \in Job /\ [job[k] EXCEPT !.wait = "granted"].held = job[k].held
  BY DEF Inv, TypeOK, Job
<1>2. ASSUME NEW k \in Jobs
      PROVE  job'[k].held \subseteq job[k].held
  <2>1. CASE k = j
    BY <2>1 DEF Handed
  <2>2. CASE k # j
    <3>1. job'[k] = job[k] \/ job'[k] = [job[k] EXCEPT !.wait = "granted"]
      BY <2>2 DEF Handed
    <3> QED BY <1>1, <3>1
  <2> QED BY <2>1, <2>2
<1> QED BY <1>2 DEF InTurn

\* A job that ends takes none.
LEMMA LeaveFair ==
  ASSUME Inv, NEW j \in Jobs, NEW kept, Leave(j, kept)
  PROVE  InTurn
<1> DEFINE c == [NewJob EXCEPT !.at = job[j].at, !.worker = kept, !.done = TRUE]
<1>1. c.held = {}
  BY DEF NewJob
<1>2. \E R, q : Handed(R, q, j, c)
  BY DEF Leave
<1> HIDE DEF c
<1> QED BY <1>1, <1>2, HandedFair

\* A job that goes on by itself takes only a permit it was handed or nobody queues for.
LEMMA OwnFair ==
  ASSUME Inv, NEW j \in Jobs, NEW c \in Job, job' = [job EXCEPT ![j] = c],
         \/ c.held = job[j].held
         \/ \E p \in Pools : /\ c.held = job[j].held \cup {p}
                             /\ job[j].wait = "granted" \/ avail[p] > 0
  PROVE  InTurn
<1>1. job \in [Jobs -> Job] /\ \A p \in Pools : avail[p] > 0 => queue[p] = <<>>
  BY DEF Inv, TypeOK, QueueOK
<1>2. job'[j] = c /\ \A k \in Jobs \ {j} : job'[k] = job[k]
  BY <1>1
<1> QED BY <1>1, <1>2 DEF InTurn

\* Callers that queue are served before newcomers: a permit is taken from the semaphore
\* only while nobody queues for it.
THEOREM QueueServedFirst == Spec => NoBarging
<1>1. Inv /\ [Next]_vars => [InTurn]_vars
  <2> SUFFICES ASSUME Inv, Next PROVE InTurn
    OBVIOUS
  <2>1. PICK j \in Jobs : Submit(j) \/ Cancel(j) \/ Drop(j) \/ Progress(j)
    BY DEF Next
  <2>2. job[j] \in Job
    BY DEF Inv, TypeOK
  <2>3. CASE Submit(j)
    <3> DEFINE c == [job[j] EXCEPT !.at = 1]
    <3>1. job' = [job EXCEPT ![j] = c] /\ c \in Job /\ c.held = job[j].held
      BY <2>2, <2>3 DEF Submit, Job
    <3> HIDE DEF c
    <3> QED BY <3>1, OwnFair
  <2>4. CASE Cancel(j)
    <3> DEFINE c == [job[j] EXCEPT !.cancelled = TRUE]
    <3>1. job' = [job EXCEPT ![j] = c] /\ c \in Job /\ c.held = job[j].held
      BY <2>2, <2>4 DEF Cancel, Job
    <3> HIDE DEF c
    <3> QED BY <3>1, OwnFair
  <2>5. CASE Drop(j) \/ SeeCancel(j) \/ Finish(j)
    <3>1. \E kept : Leave(j, kept)
      BY <2>5 DEF Drop, SeeCancel, Finish
    <3> QED BY <3>1, LeaveFair
  <2>6. CASE Return(j)
    <3>1. PICK p \in Pools :
            Handed({p}, queue, j, [job[j] EXCEPT !.held = @ \ {p}, !.at = @ + 1])
      BY <2>6 DEF Return
    <3> DEFINE c == [job[j] EXCEPT !.held = @ \ {p}, !.at = @ + 1]
    <3>2. Handed({p}, queue, j, c) /\ c.held \subseteq job[j].held
      BY <2>2, <3>1 DEF Job
    <3> HIDE DEF c
    <3> QED BY <3>2, HandedFair
  <2>7. CASE WorkerReturns(j)
    <3> DEFINE c == [job[j] EXCEPT !.worker = {}]
    <3>1. Handed(job[j].worker, queue, j, c) /\ c.held \subseteq job[j].held
      BY <2>2, <2>7 DEF WorkerReturns, Job
    <3> HIDE DEF c
    <3> QED BY <3>1, HandedFair
  <2>8. ASSUME NEW p \in Pools, Reserve(j, p) \/ Activate(j, p) \/ Wake(j, p)
        PROVE  InTurn
    <3>1. Wants(j, p)
      BY <2>8 DEF Reserve, Activate, Wake
    <3>2. Admitted(j, p) \in Job /\ Admitted(j, p).held = job[j].held \cup {p}
      BY <3>1, Onwards
    <3>3. CASE /\ job' = [job EXCEPT ![j] = Admitted(j, p)]
               /\ job[j].wait = "granted" \/ avail[p] > 0
      BY <3>2, <3>3, OwnFair
    <3>4. ASSUME NEW w \in {"place", "queued"}, job' = [job EXCEPT ![j].wait = w]
          PROVE  InTurn
      <4> DEFINE c == [job[j] EXCEPT !.wait = w]
      <4>1. job' = [job EXCEPT ![j] = c] /\ c \in Job /\ c.held = job[j].held
        BY <2>2, <3>4 DEF Job
      <4> HIDE DEF c
      <4> QED BY <4>1, OwnFair
    <3>5. CASE Refused(j, p)
      <4>1. CASE KindOf[j] = "run" /\ p = "search"
        <5> DEFINE c == [job[j] EXCEPT !.at = @ + 2]
        <5>2. job' = [job EXCEPT ![j] = c] /\ c.held = job[j].held
          BY <2>2, <3>5, <4>1 DEF Refused, Job
        <5>3. \A k \in Jobs : job'[k].held = job[k].held
          BY <5>2 DEF Inv, TypeOK
        <5> QED BY <5>3 DEF InTurn
      <4>2. CASE ~(KindOf[j] = "run" /\ p = "search")
        BY <3>5, <4>2, LeaveFair DEF Refused
      <4> QED BY <4>1, <4>2
    <3>6. \/ job' = [job EXCEPT ![j] = Admitted(j, p)] /\ (job[j].wait = "granted" \/ avail[p] > 0)
          \/ \E w \in {"place", "queued"} : job' = [job EXCEPT ![j].wait = w]
          \/ Refused(j, p)
      BY <2>8 DEF Reserve, Activate, Wake
    <3> QED BY <3>3, <3>4, <3>5, <3>6
  <2> QED BY <2>1, <2>3, <2>4, <2>5, <2>6, <2>7, <2>8 DEF Progress
<1>2. Spec => [][InTurn]_vars
  BY Invariant, <1>1, PTL DEF Spec
<1> QED BY <1>2 DEF NoBarging, InTurn
=============================================================================
