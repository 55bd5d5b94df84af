----------------------------- MODULE Redaction -----------------------------
(***************************************************************************)
(* The redaction of one extracted text by a model.  The text is cut into   *)
(* overlapping chunks; a first pass asks the model for entities of each    *)
(* chunk, a second one for what the first has missed.  An answer is kept,  *)
(* so that an attempt after a failure, a cancellation or a crash resumes.  *)
(* Between attempts, and during one, the text may be extracted anew, the   *)
(* dictionary may change and the provider may be reconfigured.             *)
(*                                                                         *)
(* A text is its shape: its length, the positions where characters begin   *)
(* and the line ends among them.  Of its content only the version counts.  *)
(***************************************************************************)
EXTENDS Integers, FiniteSets

CONSTANTS Shapes,   \* [len, at : character boundaries, nl : positions of line ends]
          Width,    \* bytes of the widest character (4 in UTF-8)
          MaxChunk, \* MAX_ENTITY_CHUNK_BYTES
          Overlap,  \* ENTITY_CHUNK_OVERLAP_BYTES
          Retries,  \* MAX_PARSE_RETRIES
          MaxChanges

\* Boundaries are dense enough, and half a chunk is longer than the overlap and two
\* characters: else start + 1 could be the next start, which need not be a boundary.
ASSUME RedactionAssumption ==
  /\ {Width, MaxChunk, Overlap, Retries} \subseteq Nat \ {0}
  /\ MaxChanges \in Nat
  /\ MaxChunk \div 2 >= Overlap + 2 * Width
  /\ \A t \in Shapes :
       /\ t.len \in Nat \ {0} /\ {0, t.len} \subseteq t.at
       /\ t.nl \subseteq t.at \ {t.len} /\ t.at \subseteq 0..t.len
       /\ \A p \in t.at : p < t.len => \E q \in t.at : p < q /\ q <= p + Width
       /\ \A p \in t.nl : p + 1 \in t.at

VARIABLES
  shape,   \* the shape of the text
  version, \* version of its content, which text_sha256 identifies
  hints,   \* version of the dictionary and the dismissals, local hints of a text
  prov,    \* the provider: its revision and whether it is trusted with raw text
  cache,   \* the ai_redaction_chunk rows
  job      \* the attempt under way

vars == <<shape, version, hints, prov, cache, job>>

Passes == {"locate", "omission"}

Over == {"idle", "done", "failed"}

\* What a chunk is asked about: its text, and of the first pass the number of local
\* hints, of the second the summary of what is covered.
Question(j, pass, s, e) ==
  [version |-> j.version, pass |-> pass, start |-> s, end |-> e, hints |-> j.hints,
   covered |-> IF pass = "locate" THEN {} ELSE {p \in j.primary : s <= p /\ p < e}]

NewJob == [pc |-> "idle", version |-> 0, hints |-> 0, pass |-> "locate", start |-> 0,
           end |-> 0, rev |-> 0, by |-> 0, tries |-> 0, answer |-> FALSE, primary |-> {},
           found |-> {}, taken |-> {}, cancelled |-> FALSE]

Init ==
  /\ shape \in Shapes
  /\ version = 1 /\ hints = 1
  /\ prov = [rev |-> 1, trusted |-> TRUE]
  /\ cache = {} /\ job = NewJob

-----------------------------------------------------------------------------
(* The chunks. *)

Least(a, b) == IF a <= b THEN a ELSE b

Most(a, b) == IF a >= b THEN a ELSE b

\* floor_char_boundary: the last boundary up to i.
Floor == [t \in Shapes |-> [i \in 0..t.len |->
            CHOOSE b \in t.at : b <= i /\ \A c \in t.at : c <= i => c <= b]]

\* The end of the chunk that starts at s: MAX_ENTITY_CHUNK_BYTES further, or after
\* the last line end of its second half.
ChunkEnd == [t \in Shapes |-> [s \in 0..(t.len - 1) |->
  LET hard == Least(Most(Floor[t][Least(s + MaxChunk, t.len)], s + 1), t.len)
      lines == {p \in t.nl : s <= p /\ p < hard}
      cut == (CHOOSE p \in lines : \A q \in lines : q <= p) + 1
  IN IF /\ hard < t.len /\ lines # {}
        /\ cut >= Floor[t][s + Least(MaxChunk \div 2, hard - s)]
     THEN cut ELSE hard]]

\* Faulty variant: the next chunk begins where this one ends.
NextStart_NoOverlap(s, e) == e

\* The start of the chunk after [s, e).
NextStart(s, e) == Least(Most(Floor[shape][Most(e - Overlap, 0)], s + 1), e)

-----------------------------------------------------------------------------
(* The attempt. *)

At(p) == job.pc = p

Work(j) == /\ job' = j
           /\ UNCHANGED <<shape, version, hints, prov>>

\* Nothing is left of a failed attempt but its rows in the cache.
Fail == Work([NewJob EXCEPT !.pc = "failed"])

\* A step that first looks at the token and at the trust in the provider.
Checked(p, q) ==
  /\ At(p) /\ UNCHANGED cache
  /\ IF job.cancelled \/ ~prov.trusted THEN Fail ELSE Work(q)

\* redact_with_ai with the text and the group the worker has read.
Begin ==
  /\ job.pc \in Over /\ prov.trusted
  /\ Work([NewJob EXCEPT !.pc = "chunk", !.version = version, !.hints = hints])
  /\ UNCHANGED cache

\* The next chunk of a pass; text.get refuses one that is not between boundaries.
Chunk ==
  LET e == ChunkEnd[shape][job.start] IN
  Checked("chunk", [job EXCEPT !.end = e, !.tries = 0,
                    !.pc = IF {job.start, e} \subseteq shape.at THEN "load" ELSE "failed"])

\* An answer is taken: adjust_findings checks it against the text. Where the chunk
\* was the last one the pass is over. A finding is one at the start of its chunk.
Took(c) ==
  LET now == [job EXCEPT !.tries = 0, !.rev = 0, !.by = 0, !.answer = FALSE,
               !.found = IF c.answer THEN @ \cup {job.start} ELSE @,
               !.taken = @ \cup {[asked |-> c.asked, pass |-> job.pass, start |-> job.start,
                                  end |-> job.end, rev |-> c.rev, by |-> c.by]}]
  IN IF job.end < shape.len
     THEN [now EXCEPT !.pc = "chunk", !.start = NextStart(job.start, job.end)]
     ELSE [now EXCEPT !.pc = IF job.pass = "locate" THEN "first" ELSE "done"]

\* Faulty variant: the identity of a row leaves the prompt out.
Stored_AnyPrompt(rev) ==
  {c \in cache : /\ c.asked.version = job.version /\ c.asked.pass = job.pass
                 /\ c.asked.start = job.start /\ c.asked.end = job.end /\ c.rev = rev}

\* load_ai_chunk: its row is found under a hash of the binding to the text, pass,
\* chunk, prompt and provider revision.
Stored(rev) ==
  {c \in cache : c.asked = Question(job, job.pass, job.start, job.end) /\ c.rev = rev}

Load ==
  /\ At("load") /\ UNCHANGED cache
  /\ IF Stored(prov.rev) # {}
     THEN \E c \in Stored(prov.rev) : Work(Took(c))
     ELSE Work([job EXCEPT !.pc = "ask", !.rev = prov.rev])

\* complete_findings_with_retry: one of MAX_PARSE_RETRIES attempts.
Ask == Checked("ask", [job EXCEPT !.pc = "send"])

\* ai_complete: the dispatch is recorded under the gate with the configuration of
\* the moment, then polled.
Send ==
  /\ At("send") /\ UNCHANGED cache
  /\ IF job.cancelled THEN Fail ELSE Work([job EXCEPT !.pc = "sent", !.by = prov.rev])

\* With a finding or without; no later step looks at those of the second pass.
Answers(pass) == IF pass = "locate" THEN BOOLEAN ELSE {FALSE}

\* An answer whose findings are located exactly, under the revision of the request.
Reply ==
  /\ At("sent") /\ ~job.cancelled /\ prov.rev = job.by
  /\ \E a \in Answers(job.pass) : Work([job EXCEPT !.pc = "save", !.answer = a])
  /\ UNCHANGED cache

\* Faulty variant: the refused answers are not counted.
Invalid_Uncounted ==
  /\ At("sent") /\ ~job.cancelled /\ prov.rev = job.by
  /\ Work([job EXCEPT !.pc = "ask"])
  /\ UNCHANGED cache

\* parse_findings_response refuses the answer.
Invalid ==
  /\ At("sent") /\ ~job.cancelled /\ prov.rev = job.by
  /\ Work([job EXCEPT !.tries = @ + 1,
                      !.pc = IF job.tries + 1 < Retries THEN "ask" ELSE "failed"])
  /\ UNCHANGED cache

\* The transport fails or is cancelled, or the provider was changed meanwhile.
SendFails == At("sent") /\ Fail /\ UNCHANGED cache

\* save_ai_chunk.
Save ==
  LET c == [asked |-> Question(job, job.pass, job.start, job.end), rev |-> job.rev,
            by |-> job.by, answer |-> job.answer]
  IN /\ At("save")
     /\ cache' = cache \cup {c}
     /\ Work(Took(c))

SaveFails == At("save") /\ Fail /\ UNCHANGED cache

\* The first pass is merged and analysed; the second one begins.
First ==
  Checked("first", [job EXCEPT !.pc = "chunk", !.pass = "omission", !.start = 0,
                               !.primary = job.found, !.found = {}])

WorkerNext == Chunk \/ Load \/ Ask \/ Send \/ Reply \/ Invalid \/ SendFails \/ Save
                \/ SaveFails \/ First

-----------------------------------------------------------------------------
(* What happens beside it. *)

Changes == version + hints + prov.rev - 3

Cancelled == IF job.pc \in Over THEN job ELSE [job EXCEPT !.cancelled = TRUE]

CancelTask ==
  /\ job.pc \notin Over
  /\ job' = Cancelled
  /\ UNCHANGED <<shape, version, hints, prov, cache>>

\* Faulty variant: the requests of materials are not cancelled.
SaveProvider_KeepsTokens ==
  /\ Changes < MaxChanges
  /\ \E b \in BOOLEAN : prov' = [rev |-> prov.rev + 1, trusted |-> b]
  /\ UNCHANGED <<shape, version, hints, cache, job>>

\* commit_prepared_provider_save: the rows, and then every token, under the gate.
SaveProvider ==
  /\ Changes < MaxChanges
  /\ \E b \in BOOLEAN : prov' = [rev |-> prov.rev + 1, trusted |-> b]
  /\ job' = Cancelled
  /\ UNCHANGED <<shape, version, hints, cache>>

\* The next attempt has another text (of the same shape: OCR read it anew) or another
\* dictionary.
NewInput ==
  /\ Changes < MaxChanges
  /\ \/ version' = version + 1 /\ UNCHANGED hints
     \/ hints' = hints + 1 /\ UNCHANGED version
  /\ UNCHANGED <<shape, prov, cache, job>>

Crash ==
  /\ job.pc \notin Over
  /\ job' = NewJob
  /\ UNCHANGED <<shape, version, hints, prov, cache>>

Next == Begin \/ WorkerNext \/ CancelTask \/ SaveProvider \/ NewInput \/ Crash

Spec == Init /\ [][Next]_vars

\* The runtime polls the attempt, and the transport has a total timeout.
FairSpec == Spec /\ WF_vars(WorkerNext)

-----------------------------------------------------------------------------
(* Properties. *)

\* Chunks begin and end between characters, and a finished redaction has shown the
\* model, in both passes, every passage no longer than the overlap in one piece: no
\* such entity is cut by every chunk it lies in.
Whole ==
  /\ At("chunk") => {job.start, ChunkEnd[shape][job.start]} \subseteq shape.at
  /\ At("done") =>
       \A pass \in Passes, a \in shape.at, b \in shape.at :
         a <= b /\ b - a <= Overlap =>
           \E k \in job.taken : k.pass = pass /\ k.start <= a /\ b <= k.end

\* Every answer an attempt uses, a stored one included, was given to the question the
\* attempt has: on this text, with these hints, over what its first pass covered, and
\* by the provider revision it is filed under.
AnswersFit ==
  \A k \in job.taken :
    k.asked = Question(job, k.pass, k.start, k.end) /\ k.by = k.rev

\* Raw text leaves only for a provider that is trusted as it leaves.
TrustedOnly == [][At("send") /\ job'.pc = "sent" => prov.trusted]_vars

\* Every attempt ends: the chunks advance and the retries are bounded.
Ends == job.pc \notin Over ~> job.pc \in Over
=============================================================================
