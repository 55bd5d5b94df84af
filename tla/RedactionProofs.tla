--------------------------- MODULE RedactionProofs ---------------------------
(***************************************************************************)
(* TLAPS proofs about Redaction, for every set of text shapes and every    *)
(* bound: the chunks show the model every passage in one piece, every      *)
(* answer fits the question it is used for, and raw text leaves only for a *)
(* trusted provider.                                                       *)
(***************************************************************************)
EXTENDS Redaction, WellFoundedInduction, TLAPS

(* The chunks. *)

\* A set of naturals that is not empty has a least element.
LEMMA LeastNatural ==
  ASSUME NEW T \in SUBSET Nat, T # {}
  PROVE  \E x \in T : \A y \in T : x <= y
<1> DEFINE R == OpToRel(<, Nat)
<1>1. IsWellFoundedOn(R, Nat)
  BY NatLessThanWellFounded
<1>2. \A x \in Nat, y \in Nat : x < y => <<x, y>> \in R
  BY DEF OpToRel
<1> HIDE DEF R
<1>3. PICK x \in T : \A y \in T : <<y, x>> \notin R
  BY <1>1, WFMin
<1>4. x \in Nat /\ \A y \in T : y \in Nat /\ ~(y < x)
  BY <1>2, <1>3
<1> QED BY <1>4

\* If it is bounded it has a greatest one.
LEMMA GreatestNatural ==
  ASSUME NEW T \in SUBSET Nat, T # {}, NEW n \in Nat, \A x \in T : x <= n
  PROVE  \E x \in T : \A y \in T : y <= x
<1> DEFINE S == {n - x : x \in T}
<1>1. S \in SUBSET Nat /\ S # {}
  <2>1. \A x \in T : n - x \in Nat
    OBVIOUS
  <2> QED BY <2>1
<1>2. PICK z \in S : \A y \in S : z <= y
  <2> HIDE DEF S
  <2> QED BY <1>1, LeastNatural
<1>3. PICK x \in T : z = n - x
  BY <1>2
<1>4. \A y \in T : n - x <= n - y
  BY <1>2, <1>3
<1> QED BY <1>4

\* What is assumed of a shape.
LEMMA ShapeFacts ==
  ASSUME NEW t \in Shapes
  PROVE  /\ t.len \in Nat \ {0} /\ 0 \in t.at /\ t.len \in t.at
         /\ t.at \subseteq 0..t.len /\ t.nl \subseteq t.at \ {t.len}
         /\ \A p \in t.at : p < t.len => \E q \in t.at : p < q /\ q <= p + Width
         /\ \A p \in t.nl : p + 1 \in t.at
BY RedactionAssumption

\* floor_char_boundary: the last boundary up to i, less than a character away.
LEMMA FloorFacts ==
  ASSUME NEW t \in Shapes, NEW i \in 0..t.len
  PROVE  /\ Floor[t][i] \in t.at /\ Floor[t][i] <= i /\ i < Floor[t][i] + Width
         /\ \A c \in t.at : c <= i => c <= Floor[t][i]
<1> DEFINE T == {b \in t.at : b <= i}
<1>1. t.len \in Nat /\ T \in SUBSET Nat /\ 0 \in T /\ i \in Nat /\ \A x \in T : x <= i
  BY ShapeFacts
<1>2. PICK b \in T : \A c \in T : c <= b
  <2> HIDE DEF T
  <2> QED BY <1>1, GreatestNatural
<1>3. \E z \in t.at : z <= i /\ \A c \in t.at : c <= i => c <= z
  BY <1>2
<1>4. Floor[t][i] = CHOOSE z \in t.at : z <= i /\ \A c \in t.at : c <= i => c <= z
  BY DEF Floor
<1>5. /\ Floor[t][i] \in t.at /\ Floor[t][i] <= i
      /\ \A c \in t.at : c <= i => c <= Floor[t][i]
  BY <1>3, <1>4
<1>6. i < Floor[t][i] + Width
  <2>1. Floor[t][i] \in Nat /\ Width \in Nat \ {0} /\ Floor[t][i] <= t.len
    BY <1>5, ShapeFacts, RedactionAssumption
  <2>2. CASE Floor[t][i] = t.len
    BY <1>1, <2>1, <2>2
  <2>3. CASE Floor[t][i] < t.len
    <3>1. PICK q \in t.at : Floor[t][i] < q /\ q <= Floor[t][i] + Width
      BY <1>5, <2>3, ShapeFacts
    <3>2. ~(q <= i) /\ q \in Nat
      BY <1>5, <2>1, <3>1, ShapeFacts
    <3> QED BY <1>1, <2>1, <3>1, <3>2
  <2> QED BY <1>1, <2>1, <2>2, <2>3
<1> QED BY <1>5, <1>6

\* What the constants are worth.
LEMMA Sizes ==
  /\ Width \in Nat \ {0} /\ MaxChunk \in Nat \ {0} /\ Overlap \in Nat \ {0}
  /\ Retries \in Nat \ {0}
  /\ MaxChunk \div 2 \in Nat /\ 2 * (MaxChunk \div 2) <= MaxChunk
  /\ MaxChunk \div 2 >= Overlap + 2 * Width
BY RedactionAssumption

\* A chunk ends at a boundary behind its start; unless it is the last one it is
\* longer than the overlap and a character.
LEMMA ChunkFacts ==
  ASSUME NEW t \in Shapes, NEW s \in t.at, s < t.len
  PROVE  /\ ChunkEnd[t][s] \in t.at /\ s < ChunkEnd[t][s]
         /\ ChunkEnd[t][s] = t.len \/ s + Overlap + Width < ChunkEnd[t][s]
<1> DEFINE h == MaxChunk \div 2
           hard == Least(Most(Floor[t][Least(s + MaxChunk, t.len)], s + 1), t.len)
           lines == {p \in t.nl : s <= p /\ p < hard}
           cut == (CHOOSE p \in lines : \A q \in lines : q <= p) + 1
           half == Floor[t][s + Least(h, hard - s)]
           e == ChunkEnd[t][s]
<1>1. /\ t.len \in Nat \ {0} /\ s \in Nat /\ s \in 0..(t.len - 1)
      /\ t.at \subseteq 0..t.len /\ t.len \in t.at
  BY ShapeFacts
<1>2. e = IF hard < t.len /\ lines # {} /\ cut >= half THEN cut ELSE hard
  BY <1>1 DEF ChunkEnd
<1>3. /\ Width \in Nat \ {0} /\ MaxChunk \in Nat \ {0} /\ Overlap \in Nat \ {0}
      /\ h \in Nat /\ 2 * h <= MaxChunk /\ h >= Overlap + 2 * Width
  BY Sizes
<1> HIDE DEF h, e
<1>4. /\ hard \in t.at /\ s < hard
      /\ hard = t.len \/ s + h + Overlap + Width < hard
  <2>1. CASE s + MaxChunk >= t.len
    <3>1. Least(s + MaxChunk, t.len) = t.len
      BY <1>1, <1>3, <2>1 DEF Least
    <3>2. Floor[t][t.len] = t.len
      <4>1. t.len \in 0..t.len
        BY <1>1
      <4>2. /\ Floor[t][t.len] \in t.at /\ Floor[t][t.len] <= t.len
            /\ t.len <= Floor[t][t.len]
        BY <1>1, <4>1, FloorFacts
      <4> QED BY <1>1, <4>2
    <3> QED BY <1>1, <3>1, <3>2 DEF Least, Most
  <2>2. CASE s + MaxChunk < t.len
    <3> DEFINE f == Floor[t][s + MaxChunk]
    <3>1. Least(s + MaxChunk, t.len) = s + MaxChunk /\ s + MaxChunk \in 0..t.len
      BY <1>1, <1>3, <2>2 DEF Least
    <3>2. f \in t.at /\ f <= s + MaxChunk /\ s + MaxChunk < f + Width
      BY <3>1, FloorFacts
    <3>3. hard = Least(Most(f, s + 1), t.len)
      BY <3>1
    <3> HIDE DEF f, hard
    <3>4. f \in Nat
      BY <1>1, <3>2
    <3>5. s + h + Overlap + Width < f
      BY <1>1, <1>3, <3>2, <3>4
    <3>6. hard = f
      BY <1>1, <1>3, <2>2, <3>2, <3>3, <3>4, <3>5 DEF Least, Most
    <3> QED BY <1>1, <1>3, <3>2, <3>4, <3>5, <3>6
  <2> QED BY <1>1, <1>3, <2>1, <2>2
<1> HIDE DEF hard
<1>5. CASE hard < t.len /\ lines # {} /\ cut >= half
  <2>1. lines \in SUBSET Nat /\ \A p \in lines : p <= t.len
    BY <1>1, ShapeFacts
  <2>2. \E p \in lines : \A q \in lines : q <= p
    <3> HIDE DEF lines
    <3> QED BY <1>1, <1>5, <2>1, GreatestNatural
  <2>3. PICK p \in lines : cut = p + 1
    BY <2>2
  <2>4. cut \in t.at
    BY <2>3, ShapeFacts
  <2>5. hard \in Nat /\ s + h + Overlap + Width < hard
    BY <1>1, <1>4, <1>5
  <2>6. Least(h, hard - s) = h /\ s + h \in 0..t.len
    BY <1>1, <1>3, <1>5, <2>5 DEF Least
  <2>7. half \in t.at /\ s + h < half + Width
    BY <2>6, FloorFacts
  <2> HIDE DEF cut, half
  <2>8. cut \in Nat /\ half \in Nat
    BY <1>1, <2>4, <2>7
  <2>9. s + Overlap + Width < cut
    BY <1>1, <1>3, <1>5, <2>7, <2>8
  <2>10. e = cut
    BY <1>2, <1>5
  <2> HIDE DEF lines
  <2> QED BY <1>1, <1>3, <2>4, <2>8, <2>9, <2>10 DEF e
<1>6. CASE ~(hard < t.len /\ lines # {} /\ cut >= half)
  <2>1. e = hard
    BY <1>2, <1>6
  <2> HIDE DEF lines, cut, half
  <2>2. hard \in Nat
    BY <1>1, <1>4
  <2> QED BY <1>1, <1>3, <1>4, <2>1, <2>2 DEF e
<1> QED BY <1>5, <1>6

\* The next chunk starts at a boundary behind the start of this one, and far enough
\* before its end.
LEMMA NextFacts ==
  ASSUME shape \in Shapes, NEW s \in shape.at, NEW e \in shape.at, s + Overlap + Width < e
  PROVE  /\ NextStart(s, e) \in shape.at /\ s < NextStart(s, e)
         /\ NextStart(s, e) + Overlap <= e
<1>1. /\ s \in Nat /\ e \in Nat /\ e <= shape.len /\ shape.len \in Nat
      /\ Width \in Nat \ {0} /\ Overlap \in Nat \ {0}
  BY ShapeFacts, Sizes
<1> DEFINE f == Floor[shape][e - Overlap]
<1>2. Most(e - Overlap, 0) = e - Overlap /\ e - Overlap \in 0..shape.len
  BY <1>1 DEF Most
<1>3. f \in shape.at /\ f <= e - Overlap /\ e - Overlap < f + Width
  BY <1>2, FloorFacts
<1>4. NextStart(s, e) = Least(Most(f, s + 1), e)
  BY <1>2 DEF NextStart
<1> HIDE DEF f
<1>5. f \in Nat
  BY <1>3, ShapeFacts
<1>6. NextStart(s, e) = f
  BY <1>1, <1>3, <1>4, <1>5 DEF Least, Most
<1> QED BY <1>1, <1>3, <1>5, <1>6

-----------------------------------------------------------------------------
(* The invariant. *)

Questions == [version : Nat, pass : Passes, start : Nat, end : Nat, hints : Nat,
              covered : SUBSET Nat]

Rows == [asked : Questions, rev : Nat, by : Nat, answer : BOOLEAN]

Uses == [asked : Questions, pass : Passes, start : Nat, end : Nat, rev : Nat, by : Nat]

Asking == {"load", "ask", "send", "sent", "save"}

Jobs == [pc : Over \cup {"chunk", "first"} \cup Asking, version : Nat, hints : Nat,
         pass : Passes, start : Nat, end : Nat, rev : Nat, by : Nat, tries : Nat,
         answer : BOOLEAN, primary : SUBSET Nat, found : SUBSET Nat,
         taken : SUBSET Uses, cancelled : BOOLEAN]

Typed ==
  /\ shape \in Shapes /\ version \in Nat /\ hints \in Nat
  /\ prov \in [rev : Nat, trusted : BOOLEAN]
  /\ cache \subseteq Rows
  /\ job \in Jobs

\* Every passage no longer than the overlap that starts before n was in a chunk of
\* that pass.
Seen(pass, n) ==
  \A a \in shape.at, b \in shape.at :
    a <= b /\ b - a <= Overlap /\ a < n =>
      \E k \in job.taken : k.pass = pass /\ k.start <= a /\ b <= k.end

\* Where the attempt is in the text, and what it has shown the model.
Placed ==
  /\ job.pc \in Asking \cup {"chunk"} =>
       job.start \in shape.at /\ job.start < shape.len /\ Seen(job.pass, job.start)
  /\ job.pc \in Asking => job.end = ChunkEnd[shape][job.start]
  /\ job.pc = "first" => job.pass = "locate" /\ Seen("locate", shape.len + 1)
  /\ job.pc \in Asking \cup {"chunk"} /\ job.pass = "omission" =>
       Seen("locate", shape.len + 1)
  /\ job.pc = "done" => \A pass \in Passes : Seen(pass, shape.len + 1)

\* What an answer is filed under is what it was asked with.
Filed ==
  /\ \A c \in cache : c.by = c.rev
  /\ job.pass = "locate" => \A k \in job.taken : k.pass = "locate"
  /\ job.pc \in {"ask", "send"} /\ ~job.cancelled => job.rev = prov.rev
  /\ job.pc = "send" /\ ~job.cancelled => prov.trusted
  /\ job.pc \in {"sent", "save"} => job.by = job.rev

Inv == Typed /\ Placed /\ Filed /\ AnswersFit

-----------------------------------------------------------------------------
(* The steps. *)

\* What has been seen stays seen as long as the answers are kept.
LEMMA SeenStays ==
  ASSUME NEW p, NEW n, Seen(p, n), shape' = shape, job.taken \subseteq job'.taken
  PROVE  Seen(p, n)'
BY DEF Seen

\* An attempt that goes on with the same chunk.
LEMMA Resumes ==
  ASSUME Inv, Typed', Filed', shape' = shape, UNCHANGED cache,
         job'.version = job.version, job'.hints = job.hints, job'.pass = job.pass,
         job'.start = job.start, job'.primary = job.primary, job'.taken = job.taken,
         job'.pc \in Asking \cup {"chunk"} => job.pc \in Asking \cup {"chunk"},
         job'.pc \in Asking => job'.end = ChunkEnd[shape][job.start],
         job'.pc \in {"first", "done"} => job'.pc = job.pc
  PROVE  Inv'
<1>1. \A p, n : Seen(p, n) => Seen(p, n)'
  BY SeenStays
<1>2. PICK p, n, last : p = job.pass /\ n = job.start /\ last = shape.len + 1
  OBVIOUS
<1>3. p = job'.pass /\ n = job'.start /\ last = shape'.len + 1
  BY <1>2
<1>4. /\ job'.pc \in Asking \cup {"chunk"} =>
           job'.start \in shape'.at /\ job'.start < shape'.len /\ Seen(p, n)'
      /\ job'.pc \in Asking => job'.end = ChunkEnd[shape'][job'.start]
  BY <1>1, <1>2 DEF Inv, Placed
<1>5. /\ job'.pc = "first" => job'.pass = "locate" /\ Seen("locate", last)'
      /\ job'.pc \in Asking \cup {"chunk"} /\ job'.pass = "omission" => Seen("locate", last)'
      /\ job'.pc = "done" => \A pass \in Passes : Seen(pass, last)'
  BY <1>1, <1>2 DEF Inv, Placed
<1>6. Placed'
  BY <1>3, <1>4, <1>5 DEF Placed, Seen
<1>7. AnswersFit'
  BY DEF Inv, AnswersFit, Question
<1> QED BY <1>6, <1>7 DEF Inv

\* An attempt begins, fails or is forgotten.
LEMMA Restarts ==
  ASSUME Inv, UNCHANGED <<shape, version, hints, prov, cache>>,
         job' \in Jobs, job'.pc \in {"idle", "failed", "chunk"}, job'.taken = {},
         job'.pass = "locate", job'.start = 0
  PROVE  Inv'
<1>1. Typed'
  BY DEF Inv, Typed
<1>2. 0 \in shape.at /\ 0 < shape.len /\ \A a \in shape.at : ~(a < 0)
  BY ShapeFacts DEF Inv, Typed
<1>3. Placed'
  BY <1>2 DEF Placed, Asking, Seen
<1>4. Filed' /\ AnswersFit'
  BY DEF Inv, Filed, AnswersFit
<1> QED BY <1>1, <1>3, <1>4 DEF Inv

\* The locals of an attempt that has not begun.
LEMMA NewJobTyped ==
  /\ NewJob \in Jobs
  /\ NewJob.pc = "idle" /\ NewJob.taken = {} /\ NewJob.pass = "locate" /\ NewJob.start = 0
BY DEF NewJob, Jobs, Over, Asking, Passes

\* A failed attempt.
LEMMA Fails == ASSUME Inv, Fail, UNCHANGED cache PROVE Inv'
<1>1. job' = [NewJob EXCEPT !.pc = "failed"] /\ UNCHANGED <<shape, version, hints, prov>>
  BY DEF Fail, Work
<1>2. /\ job' \in Jobs /\ job'.pc = "failed" /\ job'.taken = {} /\ job'.pass = "locate"
      /\ job'.start = 0
  BY <1>1, NewJobTyped DEF Jobs, Over
<1> QED BY <1>1, <1>2, Restarts

\* The attempt keeps its question.
SameChunk ==
  /\ job' \in Jobs
  /\ job'.version = job.version /\ job'.hints = job.hints /\ job'.pass = job.pass
  /\ job'.start = job.start /\ job'.primary = job.primary /\ job'.taken = job.taken
  /\ job'.cancelled = job.cancelled

\* A step of the worker that stays with its chunk.
LEMMA Stays ==
  ASSUME Inv, UNCHANGED <<shape, version, hints, prov, cache>>, SameChunk,
         job.pc \in Asking \cup {"chunk"}, job'.pc \in Asking \cup {"failed"},
         job'.end = ChunkEnd[shape][job.start],
         job'.pc \in {"ask", "send"} /\ ~job.cancelled => job'.rev = prov.rev,
         job'.pc = "send" /\ ~job.cancelled => prov.trusted,
         job'.pc \in {"sent", "save"} => job'.by = job'.rev
  PROVE  Inv'
<1>1. Typed'
  BY DEF Inv, Typed, SameChunk
<1>2. Filed'
  BY DEF Inv, Filed, SameChunk
<1> QED BY <1>1, <1>2, Resumes DEF Asking, SameChunk

\* What is known of the attempt while it works on a chunk.
LEMMA AtChunk ==
  ASSUME Inv, job.pc \in Asking \cup {"chunk"}
  PROVE  /\ job.start \in shape.at /\ job.start < shape.len /\ shape \in Shapes
         /\ ChunkEnd[shape][job.start] \in shape.at
         /\ ChunkEnd[shape][job.start] \in Nat
         /\ job.pc \in Asking => job.end = ChunkEnd[shape][job.start]
         /\ prov.rev \in Nat /\ job.tries \in Nat /\ job.rev \in Nat /\ job.by \in Nat
         /\ job.answer \in BOOLEAN /\ job.cancelled \in BOOLEAN /\ job.end \in Nat
<1>1. job.start \in shape.at /\ job.start < shape.len /\ shape \in Shapes
  BY DEF Inv, Typed, Placed
<1>2. ChunkEnd[shape][job.start] \in shape.at
  BY <1>1, ChunkFacts
<1> QED BY <1>1, <1>2, ShapeFacts DEF Inv, Typed, Placed, Jobs

\* The next chunk: text.get does not refuse it.
LEMMA ChunkStep == ASSUME Inv, Chunk PROVE Inv'
<1> DEFINE e == ChunkEnd[shape][job.start]
           pc == IF {job.start, e} \subseteq shape.at THEN "load" ELSE "failed"
<1>1. job.pc = "chunk" /\ UNCHANGED cache
  BY DEF Chunk, Checked, At
<1>2. CASE Fail
  BY <1>1, <1>2, Fails
<1>3. CASE Work([job EXCEPT !.end = e, !.tries = 0, !.pc = pc])
  <2>1. job \in Jobs
    BY DEF Inv, Typed
  <2>2. pc = "load" /\ e \in Nat
    BY <1>1, AtChunk
  <2> HIDE DEF pc, e
  <2>3. job' = [job EXCEPT !.end = e, !.tries = 0, !.pc = "load"]
    BY <1>3, <2>2 DEF Work
  <2>4. SameChunk /\ job'.pc = "load" /\ job'.end = e
    BY <2>1, <2>2, <2>3 DEF SameChunk, Jobs, Asking
  <2> QED BY <1>1, <1>3, <2>4, Stays DEF Work, Asking, e
<1> QED BY <1>2, <1>3 DEF Chunk, Checked

\* The steps of a request.
LEMMA AskSteps == ASSUME Inv, Ask \/ Send \/ Reply \/ Invalid \/ SendFails \/ SaveFails PROVE Inv'
<1>0. job \in Jobs
  BY DEF Inv, Typed
<1>1. CASE Ask
  <2>1. job.pc = "ask" /\ UNCHANGED cache
    BY <1>1 DEF Ask, Checked, At
  <2>2. CASE Fail
    BY <2>1, <2>2, Fails
  <2>3. CASE ~job.cancelled /\ prov.trusted /\ Work([job EXCEPT !.pc = "send"])
    <3>1. SameChunk /\ job'.pc = "send" /\ job'.end = job.end /\ job'.rev = job.rev
      BY <1>0, <2>3 DEF Work, SameChunk, Jobs, Asking
    <3>2. job.rev = prov.rev
      BY <2>1, <2>3 DEF Inv, Filed
    <3> QED BY <2>1, <2>3, <3>1, <3>2, AtChunk, Stays DEF Work, Asking
  <2> QED BY <1>1, <2>2, <2>3 DEF Ask, Checked
<1>2. CASE Send
  <2>1. job.pc = "send" /\ UNCHANGED cache
    BY <1>2 DEF Send, At
  <2>2. CASE Fail
    BY <2>1, <2>2, Fails
  <2>3. CASE ~job.cancelled /\ Work([job EXCEPT !.pc = "sent", !.by = prov.rev])
    <3>1. prov.rev \in Nat
      BY DEF Inv, Typed
    <3>2. SameChunk /\ job'.pc = "sent" /\ job'.end = job.end /\ job'.rev = job.rev
      BY <1>0, <2>3, <3>1 DEF Work, SameChunk, Jobs, Asking
    <3>3. job'.by = prov.rev
      BY <1>0, <2>3 DEF Work, Jobs
    <3>4. job.rev = prov.rev
      BY <2>1, <2>3 DEF Inv, Filed
    <3> QED BY <2>1, <2>3, <3>2, <3>3, <3>4, AtChunk, Stays DEF Work, Asking
  <2> QED BY <1>2, <2>2, <2>3 DEF Send
<1>3. CASE Reply
  <2>1. PICK a \in BOOLEAN : Work([job EXCEPT !.pc = "save", !.answer = a])
    BY <1>3 DEF Reply, Answers
  <2>2. job.pc = "sent" /\ UNCHANGED cache
    BY <1>3 DEF Reply, At
  <2>3. /\ SameChunk /\ job'.pc = "save" /\ job'.end = job.end /\ job'.rev = job.rev
        /\ job'.by = job.by
    BY <1>0, <2>1 DEF Work, SameChunk, Jobs, Asking
  <2>4. job.by = job.rev
    BY <2>2 DEF Inv, Filed
  <2> QED BY <2>1, <2>2, <2>3, <2>4, AtChunk, Stays DEF Work, Asking
<1>4. CASE Invalid
  <2> DEFINE pc == IF job.tries + 1 < Retries THEN "ask" ELSE "failed"
             n == job.tries + 1
  <2>1. /\ job.pc = "sent" /\ UNCHANGED cache /\ prov.rev = job.by
        /\ Work([job EXCEPT !.tries = n, !.pc = pc])
    BY <1>4 DEF Invalid, At
  <2>2. pc \in {"ask", "failed"} /\ n \in Nat
    BY <1>0 DEF Jobs
  <2> HIDE DEF pc, n
  <2>3. /\ SameChunk /\ job'.pc = pc /\ job'.end = job.end /\ job'.rev = job.rev
    BY <1>0, <2>1, <2>2 DEF Work, SameChunk, Jobs, Asking, Over
  <2>4. job.rev = prov.rev
    BY <2>1 DEF Inv, Filed
  <2> QED BY <2>1, <2>2, <2>3, <2>4, AtChunk, Stays DEF Work, Asking
<1>5. CASE SendFails \/ SaveFails
  BY <1>5, Fails DEF SendFails, SaveFails
<1> QED BY <1>1, <1>2, <1>3, <1>4, <1>5

-----------------------------------------------------------------------------
(* An answer is taken. *)

\* The use of a row.
Use(c) == [asked |-> c.asked, pass |-> job.pass, start |-> job.start, end |-> job.end,
           rev |-> c.rev, by |-> c.by]

\* What does not depend on whether the chunk was the last one.
Kept(c) ==
  /\ UNCHANGED <<shape, version, hints, prov>>
  /\ job' \in Jobs
  /\ job'.version = job.version /\ job'.hints = job.hints
  /\ job'.pass = job.pass /\ job'.primary = job.primary
  /\ job'.taken = job.taken \cup {Use(c)}

\* The locals after an answer was taken.
LEMMA TookFacts ==
  ASSUME Inv, NEW c \in Rows, job.pc \in Asking, Work(Took(c)),
         NextStart(job.start, job.end) \in Nat \/ ~(job.end < shape.len)
  PROVE  /\ Kept(c)
         /\ job.end < shape.len =>
              job'.pc = "chunk" /\ job'.start = NextStart(job.start, job.end)
         /\ ~(job.end < shape.len) =>
              job'.pc = IF job.pass = "locate" THEN "first" ELSE "done"
<1> DEFINE f == IF c.answer THEN job.found \cup {job.start} ELSE job.found
           n == NextStart(job.start, job.end)
           u == Use(c)
           last == IF job.pass = "locate" THEN "first" ELSE "done"
           now == [job EXCEPT !.tries = 0, !.rev = 0, !.by = 0, !.answer = FALSE,
                              !.found = f, !.taken = job.taken \cup {u}]
<1>1. job \in Jobs /\ shape.len \in Nat
  BY ShapeFacts DEF Inv, Typed
<1>2. f \in SUBSET Nat
  BY <1>1 DEF Jobs
<1>3. u \in Uses
  BY <1>1 DEF Use, Uses, Jobs, Rows
<1>4. last \in {"first", "done"}
  OBVIOUS
<1>5. UNCHANGED <<shape, version, hints, prov>>
  BY DEF Work
<1>6. job' = IF job.end < shape.len THEN [now EXCEPT !.pc = "chunk", !.start = n]
                                    ELSE [now EXCEPT !.pc = last]
  BY <1>1 DEF Work, Took, Use, Jobs
<1>7. u = Use(c) /\ n = NextStart(job.start, job.end)
  OBVIOUS
<1> HIDE DEF f, u, n, last
<1>8. /\ now \in Jobs /\ now.version = job.version /\ now.hints = job.hints
      /\ now.pass = job.pass /\ now.primary = job.primary
      /\ now.taken = job.taken \cup {u}
  BY <1>1, <1>2, <1>3 DEF Jobs
<1> HIDE DEF now
<1>9. CASE job.end < shape.len
  <2>1. job' = [now EXCEPT !.pc = "chunk", !.start = n] /\ n \in Nat
    BY <1>6, <1>7, <1>9
  <2>2. /\ job' \in Jobs /\ job'.version = job.version /\ job'.hints = job.hints
        /\ job'.pass = job.pass /\ job'.primary = job.primary
        /\ job'.taken = job.taken \cup {u} /\ job'.pc = "chunk" /\ job'.start = n
    BY <1>8, <2>1 DEF Jobs
  <2> QED BY <1>5, <1>7, <1>9, <2>2 DEF Kept
<1>10. CASE ~(job.end < shape.len)
  <2>1. job' = [now EXCEPT !.pc = last]
    BY <1>6, <1>10
  <2>2. /\ job' \in Jobs /\ job'.version = job.version /\ job'.hints = job.hints
        /\ job'.pass = job.pass /\ job'.primary = job.primary
        /\ job'.taken = job.taken \cup {u} /\ job'.pc = last
    BY <1>4, <1>8, <2>1 DEF Jobs, Over
  <2> QED BY <1>5, <1>7, <1>10, <2>2 DEF Kept, last
<1> QED BY <1>9, <1>10

\* What is seen after an answer: the passages before n, where the next chunk starts
\* or the text ends.
LEMMA SeenGrows ==
  ASSUME Inv, NEW c \in Rows, job.pc \in Asking, Kept(c), NEW n \in Nat,
         n + Overlap <= job.end \/ job.end = shape.len, NEW p, p = job.pass
  PROVE  Seen(p, n)'
<1> SUFFICES ASSUME NEW a \in shape.at, NEW b \in shape.at,
                    a <= b, b - a <= Overlap, a < n
             PROVE  \E k \in job'.taken : k.pass = p /\ k.start <= a /\ b <= k.end
  BY DEF Seen, Kept
<1>1. /\ a \in Nat /\ b \in Nat /\ b <= shape.len /\ shape.len \in Nat
      /\ job.start \in Nat /\ job.end \in Nat /\ Overlap \in Nat
  BY ShapeFacts, Sizes DEF Inv, Typed, Jobs
<1>2. CASE a < job.start
  BY <1>2 DEF Inv, Placed, Seen, Kept
<1>3. CASE ~(a < job.start)
  <2>1. job.start <= a /\ b <= job.end
    BY <1>1, <1>3
  <2>2. Use(c).pass = job.pass /\ Use(c).start = job.start /\ Use(c).end = job.end
    BY DEF Use
  <2> QED BY <2>1, <2>2 DEF Kept
<1> QED BY <1>2, <1>3

\* An answer is taken for the question the attempt has, and shows the model what the
\* chunk holds.
LEMMA TookStep ==
  ASSUME Inv, NEW c \in Rows, job.pc \in Asking, Work(Took(c)), c.by = c.rev,
         c.asked = Question(job, job.pass, job.start, job.end),
         cache' \subseteq Rows, \A r \in cache' : r.by = r.rev
  PROVE  Inv'
<1> DEFINE n == NextStart(job.start, job.end)
<1>1. /\ job.start \in shape.at /\ job.start < shape.len /\ shape \in Shapes
      /\ job.end = ChunkEnd[shape][job.start] /\ job.end \in Nat
  BY AtChunk
<1>2. /\ job.end \in shape.at
      /\ job.end = shape.len \/ job.start + Overlap + Width < job.end
  BY <1>1, ChunkFacts
<1>3. /\ job.end <= shape.len /\ shape.len \in Nat /\ job.start \in Nat
      /\ Overlap \in Nat \ {0}
  BY <1>1, <1>2, ShapeFacts, Sizes
<1>4. job.end < shape.len => n \in shape.at /\ n \in Nat /\ n + Overlap <= job.end
  BY <1>1, <1>2, <1>3, NextFacts, ShapeFacts
<1>5. /\ Kept(c)
      /\ job.end < shape.len => job'.pc = "chunk" /\ job'.start = n
      /\ ~(job.end < shape.len) =>
           job'.pc = IF job.pass = "locate" THEN "first" ELSE "done"
  BY <1>4, TookFacts
<1> HIDE DEF n
<1>6. shape' = shape /\ job'.pass = job.pass /\ job.taken \subseteq job'.taken
  BY <1>5 DEF Kept
<1>7. job.pass \in Passes
  BY DEF Inv, Typed, Jobs
<1>8. Typed'
  BY <1>5 DEF Inv, Typed, Kept
<1>9. Filed'
  <2>1. \A r \in cache' : r.by = r.rev
    OBVIOUS
  <2>2. job'.pass = "locate" => \A k \in job'.taken : k.pass = "locate"
    BY <1>5 DEF Inv, Filed, Kept, Use
  <2>3. job'.pc \in {"chunk", "first", "done"}
    BY <1>5
  <2> QED BY <2>1, <2>2, <2>3 DEF Filed
<1>10. AnswersFit'
  <2>1. \A p, s, e : Question(job', p, s, e) = Question(job, p, s, e)
    BY <1>5 DEF Kept, Question
  <2>2. /\ Use(c).pass = job.pass /\ Use(c).start = job.start /\ Use(c).end = job.end
        /\ Use(c).asked = c.asked /\ Use(c).rev = c.rev /\ Use(c).by = c.by
    BY DEF Use
  <2>3. /\ \A k \in job.taken :
             k.asked = Question(job, k.pass, k.start, k.end) /\ k.by = k.rev
        /\ job'.taken = job.taken \cup {Use(c)}
    BY <1>5 DEF Inv, AnswersFit, Kept
  <2>4. \A k \in job'.taken :
          k.asked = Question(job', k.pass, k.start, k.end) /\ k.by = k.rev
    BY <2>1, <2>2, <2>3
  <2> QED BY <2>4 DEF AnswersFit
<1>11. Placed'
  <2>1. PICK p, m : p = job.pass /\ m = shape.len + 1 /\ m \in Nat
    BY <1>3
  <2>2. p = job'.pass /\ m = shape'.len + 1
    BY <1>6, <2>1
  <2>3. p = "omission" => Seen("locate", m)'
    BY <1>6, <2>1, SeenStays DEF Inv, Placed
  <2>4. CASE job.end < shape.len
    <3>1. PICK k \in Nat : k = n /\ k \in shape.at /\ k + Overlap <= job.end
      BY <1>4, <2>4
    <3>2. Seen(p, k)'
      BY <1>5, <2>1, <3>1, SeenGrows
    <3>3. job'.pc = "chunk" /\ job'.start = k /\ k < shape.len
      BY <1>1, <1>3, <1>5, <2>4, <3>1
    <3>4. k \in shape'.at /\ k < shape'.len
      BY <1>6, <3>1, <3>3
    <3> QED BY <1>6, <2>1, <2>2, <2>3, <3>2, <3>3, <3>4 DEF Placed, Asking, Seen
  <2>5. CASE job.end = shape.len
    <3>1. Seen(p, m)'
      BY <1>5, <2>1, <2>5, SeenGrows
    <3>2. job'.pc = IF p = "locate" THEN "first" ELSE "done"
      BY <1>3, <1>5, <2>1, <2>5
    <3>3. p \in Passes
      BY <1>7, <2>1
    <3>4. CASE p = "locate"
      BY <1>6, <2>1, <2>2, <3>1, <3>2, <3>4 DEF Placed, Asking, Seen
    <3>5. CASE p = "omission"
      <4>1. \A q \in Passes : Seen(q, m)'
        BY <2>3, <3>1, <3>5 DEF Passes, Seen
      <4>2. job'.pc = "done"
        BY <3>2, <3>5
      <4>3. \A q \in Passes : Seen(q, shape.len + 1)'
        BY <2>2, <4>1 DEF Seen
      <4> QED BY <4>2, <4>3 DEF Placed, Asking
    <3> QED BY <3>3, <3>4, <3>5 DEF Passes
  <2> QED BY <1>1, <1>2, <1>3, <2>4, <2>5
<1> QED BY <1>8, <1>9, <1>10, <1>11 DEF Inv

-----------------------------------------------------------------------------
(* The other steps. *)

\* A stored answer, or none of that question.
LEMMA LoadStep == ASSUME Inv, Load PROVE Inv'
<1>1. job.pc = "load" /\ job.pc \in Asking /\ UNCHANGED cache
  BY DEF Load, At, Asking
<1>2. CASE \E c \in Stored(prov.rev) : Work(Took(c))
  <2>1. PICK c \in Stored(prov.rev) : Work(Took(c))
    BY <1>2
  <2>2. /\ c \in Rows /\ c.by = c.rev
        /\ c.asked = Question(job, job.pass, job.start, job.end)
    BY DEF Stored, Inv, Typed, Filed
  <2>3. cache' \subseteq Rows /\ \A r \in cache' : r.by = r.rev
    BY <1>1 DEF Inv, Typed, Filed
  <2> QED BY <1>1, <2>1, <2>2, <2>3, TookStep
<1>3. CASE Work([job EXCEPT !.pc = "ask", !.rev = prov.rev])
  <2>1. job \in Jobs /\ prov.rev \in Nat
    BY DEF Inv, Typed
  <2>2. SameChunk /\ job'.pc = "ask" /\ job'.end = job.end /\ job'.rev = prov.rev
    BY <1>3, <2>1 DEF Work, SameChunk, Jobs, Asking
  <2> QED BY <1>1, <1>3, <2>2, AtChunk, Stays DEF Work, Asking
<1> QED BY <1>2, <1>3 DEF Load

\* The answer is stored under the question and the revision it was asked with.
LEMMA SaveStep == ASSUME Inv, Save PROVE Inv'
<1> DEFINE q == Question(job, job.pass, job.start, job.end)
           c == [asked |-> q, rev |-> job.rev, by |-> job.by, answer |-> job.answer]
<1>1. job.pc = "save" /\ job.pc \in Asking /\ cache' = cache \cup {c} /\ Work(Took(c))
  BY DEF Save, At, Asking
<1>2. q \in Questions
  BY DEF Inv, Typed, Jobs, Question, Questions
<1>3. job.rev \in Nat /\ job.by \in Nat /\ job.answer \in BOOLEAN
  BY <1>1, AtChunk
<1>4. c.asked = q /\ c.by = c.rev
  BY <1>1 DEF Inv, Filed
<1>5. c \in Rows
  <2> HIDE DEF q
  <2> QED BY <1>2, <1>3 DEF Rows
<1>6. q = Question(job, job.pass, job.start, job.end)
  OBVIOUS
<1> HIDE DEF q, c
<1>7. cache' \subseteq Rows /\ \A r \in cache' : r.by = r.rev
  BY <1>1, <1>4, <1>5 DEF Inv, Typed, Filed
<1> QED BY <1>1, <1>4, <1>5, <1>6, <1>7, TookStep

\* The second pass begins, with the first one's findings.
LEMMA FirstStep == ASSUME Inv, First PROVE Inv'
<1>1. job.pc = "first" /\ UNCHANGED cache
  BY DEF First, Checked, At
<1>2. CASE Fail
  BY <1>1, <1>2, Fails
<1>3. CASE Work([job EXCEPT !.pc = "chunk", !.pass = "omission", !.start = 0,
                            !.primary = job.found, !.found = {}])
  <2>1. job \in Jobs
    BY DEF Inv, Typed
  <2>2. /\ job' \in Jobs /\ job'.pc = "chunk" /\ job'.pass = "omission" /\ job'.start = 0
        /\ job'.taken = job.taken /\ job'.version = job.version /\ job'.hints = job.hints
        /\ UNCHANGED <<shape, version, hints, prov>>
    BY <1>3, <2>1 DEF Work, Jobs, Passes
  <2>3. Typed' /\ Filed'
    BY <1>1, <2>2 DEF Inv, Typed, Filed
  <2>4. AnswersFit'
    <3>1. \A k \in job.taken :
            k.pass = "locate" /\ k.asked = Question(job, k.pass, k.start, k.end) /\ k.by = k.rev
      BY <1>1 DEF Inv, Placed, Filed, AnswersFit
    <3>2. \A s, e : Question(job', "locate", s, e) = Question(job, "locate", s, e)
      BY <2>2 DEF Question
    <3>3. \A k \in job'.taken :
            k.asked = Question(job', k.pass, k.start, k.end) /\ k.by = k.rev
      BY <2>2, <3>1, <3>2
    <3> QED BY <3>3 DEF AnswersFit
  <2>5. Placed'
    <3>1. PICK m : m = shape.len + 1
      OBVIOUS
    <3>2. m = shape'.len + 1
      BY <2>2, <3>1
    <3>3. Seen("locate", m)'
      BY <1>1, <2>2, <3>1, SeenStays DEF Inv, Placed
    <3>4. 0 \in shape.at /\ 0 < shape.len /\ \A a \in shape.at : ~(a < 0)
      BY ShapeFacts DEF Inv, Typed
    <3> QED BY <2>2, <3>2, <3>3, <3>4 DEF Placed, Asking, Seen
  <2> QED BY <2>3, <2>4, <2>5 DEF Inv
<1> QED BY <1>2, <1>3 DEF First, Checked

\* An attempt begins.
LEMMA BeginStep == ASSUME Inv, Begin PROVE Inv'
<1>1. /\ job' = [NewJob EXCEPT !.pc = "chunk", !.version = version, !.hints = hints]
      /\ UNCHANGED <<shape, version, hints, prov, cache>>
  BY DEF Begin, Work
<1>2. version \in Nat /\ hints \in Nat
  BY DEF Inv, Typed
<1>3. /\ job' \in Jobs /\ job'.pc = "chunk" /\ job'.taken = {} /\ job'.pass = "locate"
      /\ job'.start = 0
  BY <1>1, <1>2, NewJobTyped DEF Jobs
<1> QED BY <1>1, <1>3, Restarts

\* The process ends: of the attempt only its rows are left.
LEMMA CrashStep == ASSUME Inv, Crash PROVE Inv'
BY Restarts, NewJobTyped DEF Crash

\* The token is cancelled, alone or with a change of the provider.
LEMMA CancelSteps == ASSUME Inv, CancelTask \/ SaveProvider PROVE Inv'
<1>1. job' = Cancelled /\ UNCHANGED <<shape, version, hints, cache>>
  BY DEF CancelTask, SaveProvider
<1>2. prov' \in [rev : Nat, trusted : BOOLEAN] /\ (job.pc \in Over => job' = job)
  <2>1. CASE CancelTask
    BY <1>1, <2>1 DEF CancelTask, Cancelled, Inv, Typed
  <2>2. CASE SaveProvider
    BY <1>1, <2>2 DEF SaveProvider, Cancelled, Inv, Typed
  <2> QED BY <2>1, <2>2
<1>3. job \in Jobs
  BY DEF Inv, Typed
<1>4. /\ job' \in Jobs /\ job'.pc = job.pc /\ job'.end = job.end /\ job'.rev = job.rev
      /\ job'.by = job.by /\ job'.version = job.version /\ job'.hints = job.hints
      /\ job'.pass = job.pass /\ job'.start = job.start /\ job'.primary = job.primary
      /\ job'.taken = job.taken /\ (job.pc \notin Over => job'.cancelled)
  BY <1>1, <1>3 DEF Cancelled, Jobs
<1>5. Typed'
  BY <1>1, <1>2, <1>4 DEF Inv, Typed
<1>6. Filed'
  BY <1>1, <1>4 DEF Inv, Filed, Over
<1>7. job'.pc \in Asking => job'.end = ChunkEnd[shape][job.start]
  BY <1>4 DEF Inv, Placed
<1> QED BY <1>1, <1>4, <1>5, <1>6, <1>7, Resumes

\* The text or the dictionary changes: the attempt goes on with what it has read.
LEMMA NewInputStep == ASSUME Inv, NewInput PROVE Inv'
<1>1. UNCHANGED <<shape, prov, cache, job>> /\ version' \in Nat /\ hints' \in Nat
  BY DEF NewInput, Inv, Typed
<1>2. Typed' /\ Filed'
  BY <1>1 DEF Inv, Typed, Filed
<1>3. job'.pc \in Asking => job'.end = ChunkEnd[shape][job.start]
  BY <1>1 DEF Inv, Placed
<1> QED BY <1>1, <1>2, <1>3, Resumes

-----------------------------------------------------------------------------
(* The theorems. *)

\* The invariant holds initially.
LEMMA InitInv == ASSUME Init PROVE Inv
<1>1. Typed
  BY NewJobTyped DEF Init, Typed
<1>2. Placed
  BY NewJobTyped DEF Init, Placed, Asking
<1>3. Filed /\ AnswersFit
  BY NewJobTyped DEF Init, Filed, AnswersFit
<1> QED BY <1>1, <1>2, <1>3 DEF Inv

\* Every step keeps it.
LEMMA NextInv == ASSUME Inv, [Next]_vars PROVE Inv'
<1>1. CASE Begin
  BY <1>1, BeginStep
<1>2. CASE Chunk
  BY <1>2, ChunkStep
<1>3. CASE Load
  BY <1>3, LoadStep
<1>4. CASE Ask \/ Send \/ Reply \/ Invalid \/ SendFails \/ SaveFails
  BY <1>4, AskSteps
<1>5. CASE Save
  BY <1>5, SaveStep
<1>6. CASE First
  BY <1>6, FirstStep
<1>7. CASE CancelTask \/ SaveProvider
  BY <1>7, CancelSteps
<1>8. CASE NewInput
  BY <1>8, NewInputStep
<1>9. CASE Crash
  BY <1>9, CrashStep
<1>10. CASE UNCHANGED vars
  <2>1. UNCHANGED <<shape, version, hints, prov, cache, job>>
    BY <1>10 DEF vars
  <2>2. Typed' /\ Filed'
    BY <2>1 DEF Inv, Typed, Filed
  <2>3. job'.pc \in Asking => job'.end = ChunkEnd[shape][job.start]
    BY <2>1 DEF Inv, Placed
  <2> QED BY <2>1, <2>2, <2>3, Resumes
<1> QED BY <1>1, <1>2, <1>3, <1>4, <1>5, <1>6, <1>7, <1>8, <1>9, <1>10 DEF Next, WorkerNext

\* The invariant holds in every reachable state, whatever is fair.
THEOREM Invariant == Spec => []Inv
<1>1. Init => Inv
  BY InitInv
<1>2. Inv /\ [Next]_vars => Inv'
  BY NextInv
<1> QED BY <1>1, <1>2, PTL DEF Spec

\* Chunks begin and end between characters, and a finished redaction has shown the
\* model in both passes every passage no longer than the overlap in one piece.
THEOREM WholePassages == Spec => []Whole
<1>1. ASSUME Inv PROVE Whole
  <2>1. At("chunk") => {job.start, ChunkEnd[shape][job.start]} \subseteq shape.at
    BY <1>1, AtChunk DEF At
  <2>2. ASSUME At("done"), NEW pass \in Passes, NEW a \in shape.at, NEW b \in shape.at,
               a <= b /\ b - a <= Overlap
        PROVE  \E k \in job.taken : k.pass = pass /\ k.start <= a /\ b <= k.end
    <3>1. a < shape.len + 1
      BY <1>1, ShapeFacts DEF Inv, Typed
    <3>2. Seen(pass, shape.len + 1)
      BY <1>1, <2>2 DEF Inv, Placed, At
    <3> QED BY <2>2, <3>1, <3>2 DEF Seen
  <2> QED BY <2>1, <2>2 DEF Whole
<1> QED BY <1>1, Invariant, PTL

\* Every answer an attempt uses was given to the question it has, by the revision of
\* the provider it is filed under.
THEOREM AnswersFitAlways == Spec => []AnswersFit
<1>1. Inv => AnswersFit
  BY DEF Inv
<1> QED BY <1>1, Invariant, PTL

\* Raw text leaves only for a provider that is trusted as it leaves: a change of the
\* provider has cancelled every request that was checked before it.
THEOREM OnlyToTrusted == Spec => TrustedOnly
<1>1. ASSUME Inv, [Next]_vars
      PROVE  [At("send") /\ job'.pc = "sent" => prov.trusted]_vars
  <2> SUFFICES ASSUME At("send"), job'.pc = "sent", ~(UNCHANGED vars)
               PROVE  prov.trusted
    OBVIOUS
  <2>1. job.pc = "send" /\ job \in Jobs
    BY <1>1 DEF At, Inv, Typed
  <2>2. Send
    <3>1. ~Begin /\ ~Crash /\ ~NewInput
      BY <2>1, NewJobTyped DEF Begin, Over, Crash, NewInput
    <3>2. ~CancelTask /\ ~SaveProvider
      BY <2>1 DEF CancelTask, SaveProvider, Cancelled, Jobs
    <3>3. ~Chunk /\ ~Load /\ ~Ask /\ ~First
      BY <2>1 DEF Chunk, Load, Ask, First, Checked, At
    <3>4. ~Reply /\ ~Invalid /\ ~SendFails /\ ~Save /\ ~SaveFails
      BY <2>1 DEF Reply, Invalid, SendFails, Save, SaveFails, At
    <3> QED BY <1>1, <3>1, <3>2, <3>3, <3>4 DEF Next, WorkerNext
  <2>3. ~job.cancelled
    <3>1. SUFFICES ASSUME Fail PROVE FALSE
      BY <2>2 DEF Send
    <3>2. job'.pc = "failed"
      BY <3>1, NewJobTyped DEF Fail, Work, Jobs
    <3> QED BY <3>2
  <2> QED BY <1>1, <2>1, <2>3 DEF Inv, Filed
<1> QED BY <1>1, Invariant, PTL DEF Spec, TrustedOnly
=============================================================================
