# Verification of the Lawyer Assistance workspace

TLA+ models, TLC configurations and TLAPS proofs for the Web workspace of
Lawyer Assistance: the Rust service (`src/crates/workspace-service`, served by
`src/apps/server`) that imports case files, redacts them locally or with a
language model, publishes the redacted text, and runs AI searches, chats and
drafts over it.

## 1. The system

One process owns one workspace directory. All state that matters is rows of an
encrypted SQLite object store (`store.rs`); one `Mutex<()>` (`Workspace::lock`,
"the gate") makes a handler's read-check-write atomic, and everything slow —
parsing, OCR, model calls — happens between two acquisitions of the gate.

| Component | State it keeps | Operations | Talks to |
|---|---|---|---|
| Materials (`tasks.rs`, `lib.rs`) | `material`, `source`, `group`, `result`, `consent` rows; a cancellation token per running task | submit, replace, cancel, retry, review, set dictionary, consent, revoke; the worker's claim, extract, analyse, finish, settle | store, redaction engine, models, admission |
| Model stages (`redaction_ai.rs`, `ocr.rs`) | `ai_stage`, `ai_chunk`, OCR cache rows | mark stage, OCR pages, redact chunks, recover | `ai_complete_budgeted` |
| Providers (`provider.rs`, `ai_provider.rs`) | `provider`, `ai_provider`, `ai_defaults`, `provider_credential_state` rows; API keys in the operating system's vault | save (with, without, deleting a key), snapshot, dispatch | vault, HTTP transport, all tokens |
| Admission (`admission.rs`) | three pools (Search 2+16, Ai 2+6, Parse 1+2) and two transport slots | reserve, activate, drop | every expensive handler |
| AI runs (`ai_runs.rs`, `ai_context.rs`) | `ai_run`, `ai_conversation`, draft rows; a token per run | start, progress, cancel, continue, finish, recover; context manifest; drafts | providers, legal tools, materials |
| Citations and legal tools (`ai_citations.rs`, `ai_legal_tools.rs`, `case_search.rs`) | none of their own | resolve, verify, search | legal database, Search pool |
| Store (`store.rs`) | objects, indexes, summaries, quarantine, schema version | save, `put_many`, page, migrate with backup | file system |
| Document worker (`document_worker.rs`, `diagnostics/process.rs`) | a child process and its pipe | start, next page, acknowledge, abort | Parse holder |
| Supervisor (`diagnostics/supervisor.rs`) | heartbeats and faults | start, heartbeat, completed, failed | health endpoint |
| HTTP server, MCP server, Web client | sessions, tool registry, UI | routes | all of the above |
| `privacy-text`, `file-ingest`, `citations`, `retrieval`, `legal-services`, `providers`, `database`, `domain`, `assistant`, `privacy` | none at run time, or a read-only corpus | pure functions, queries, transports | called by the service |

What is hard here:

* **Interleaving.** The material worker holds a *copy* of a row while users
  replace the source, change the dictionary the group shares, cancel, revoke or
  review. It compares revision and status and then writes the whole copy back.
* **Dispatch of protected text.** Text may leave the process only for a current
  row and, on the cloud path, under a consent that is used once. The consent is
  marked, rechecked and polled in three critical sections.
* **Crashes.** Rows, stages and consents are written in separate transactions;
  recovery runs two passes and may itself be interrupted. A dispatch whose
  answer was lost must not be sent again.
* **Two stores.** A provider save spans SQLite and the credential vault; either
  may fail, the vault may fail after taking effect, and the process may die in
  between while model calls take snapshots.
* **Holding and waiting.** Runs and materials hold an Ai permit while waiting
  for the sole Parse permit and hold both while waiting for a transport slot;
  blocking workers outlive the request that started them.

* **Copies of a run.** The task of an AI run works on a copy of its row and
  looks at the stored one before every round; users cancel, delete, continue and
  change the context meanwhile, and the answer is appended to the conversation
  in a transaction after the one that completed the run.
* **A child process.** The parser of a document is a separate process that may
  stall for ever; its owner may be dropped at any await.
* **Reads beside writes.** The store decrypts outside its lock and quarantines
  afterwards; it is migrated in steps that may each be the last before a crash.

`PROJECT.json` lists each hazard at its line with the properties that cover it.

## 2. Modules

| Module | Models | Implements | Proofs |
|---|---|---|---|
| `Materials` | material life cycle, model stages, consents, crash and recovery | `Publication` | `MaterialsProofs`, `MaterialSafetyProofs` |
| `Publication` | what readers of results see | — | — |
| `ProviderCredential` | the save protocol between SQLite and vault, model calls beside it | — | `ProviderCredentialProofs` |
| `Admission` | pools, waiting places, transport slots, the handlers' permit plans | — | `AdmissionProofs` |
| `AiRuns` | runs, their tasks, tokens and supervisor records, one conversation, the materials and the provider beside them | — | `AiRunsProofs` |
| `DocumentWorker` | the extraction of a PDF by a child process | `PageStream` | `DocumentWorkerProofs` |
| `PageStream` | the promise of that extraction to its caller | — | — |
| `ObjectStore` | opening, migration, backups, writes, reads, quarantine, queue claims | — | `ObjectStoreProofs` |
| `Redaction` | the chunks, passes, retries and stored answers of one text | — | `RedactionProofs` |
| `MC*` | constants for TLC | — | — |

`Materials` abstracts the series of dispatches that `Redaction` models to one,
and the admission waits that `Admission` models; `AiRuns` sees of the materials
their revision, hash and revocation. The components are not composed in one
state space: each names in its header what it takes from the others.

### Materials

One action is one critical section of the gate, or one store transaction where
an operation has several. `mat` holds the `material` rows, `dict` the dictionary
revision of each group, `results` the `result` rows of each material (the id is
the index), `consent` the `consent` row of each task, `stage` the `ai_stage`
rows, `job` the locals of the worker's `process_material` call together with its
cancellation token, `phase` the progress of `Workspace::open`. `profile` stands
for the provider revision that is part of every profile hash.

Data is reduced to what properties compare. A text *is* the source it was
extracted from; an analysis is the source and dictionary it was computed from,
whether it has model findings and whether it needs review (a nondeterministic
outcome of the redaction engine); a source is a model value in place of its
SHA-256. `Analysis.dict` and `Result.adict` have no field in the code: they
remember the dictionary really used, so that a result stamped with another
revision is visible. `lost` and `clouded` are history variables.

User actions are `Submit`, `ReplaceMaterial`, `SetDictionary`, `CancelTask`,
`RetryTask`, `Review`, `ReviewWithDictionary`, `GrantConsent`, `RevokeConsent`,
`RevokeMaterial`, `SaveProvider`, `SaveAiDefaults` and the passing of time
(`ExpireResult`, `ExpireConsent`). The worker claims a row, selects the model or
the local path, and walks through `ocr`, `text_ready`, `redact`, `ai_finish`,
`ai_stage` or `local`, `claim_cloud`, `cloud`, `finish`; every error path ends in
`settle`. `JobError` is a refused admission, a storage error or a panic at any
point. `Crash` is possible in every state, during recovery too.

Simplifications: a series of OCR pages or redaction chunks is one dispatch; the
admission waits inside a job are the subject of `Admission`. Requests hold the
gate to their end; where one makes several transactions, or cancels tokens
before its transaction, a flag of the action (`saved`, `marked`) says whether a
storage fault stopped it in between.

### ProviderCredential

`config` is the provider row's revision, `blocked` the durable dispatch block,
`vault` the key in the operating system's vault, `save` the locals of the save
that holds the gate, `disp` the model calls. `commit_prepared_provider_save` is
split at every external effect: `Block`, `Apply`, `Commit`, `Restore`,
`Unblock`. A vault call that fails may have changed the entry or not. A call
takes its `Snapshot` and makes its `Record` under the gate and sends without it.
Calls outside `Registered` (a model test) have no token a save could cancel.
`committed` and `reentered` are history variables: the key of the last save that
committed one, and whether a save with a key began while the block was set.

### Admission

`avail` and `places` are the two semaphores of each pool, `queue` the callers
inside `acquire_owned` in their order, `job` each handler's position in its
plan. `Plan` (`RunPlan`, `MaterialPlan`) lists the permits a handler takes and gives on
its longest path;
a handler that skips a call follows a shorter plan that holds no more. A
released permit is handed to the head of the queue, which may be cancelled
before it wakes (`Handed`, external: tokio's fair semaphore). `Drop` may happen
anywhere and leaves a blocking worker with its permit behind.

### Publication

The abstract workspace of a reader: `source` and `dict` are what a material and
its group have at the moment, `made` counts the results a material ever had and
`shown` is the set of those not revoked, each with the source and dictionary it
was made from. There are four steps: sources are set, a dictionary is changed, a
result is published, results are withdrawn. The first two withdraw in the same
step, a result is made of the present source and dictionary or not at all, and a
result that was withdrawn never comes back, because a new one has a new number.
`Publishes` (in `Materials`) is this specification under the mapping `shown`
from the `revoked` flags, `made` from the number of rows. It says more than
`PublishedIsCurrent`, which is about states: results come and go in steps of
these four kinds only, the change of a source or a dictionary withdraws in that
very step although five handlers make it, and no later step, of the worker, of a
retry or of recovery, brings back or alters what was withdrawn.

### AiRuns

`row` is the stored run, `task` the locals of its task with the copy it works on
and the place it is at, `tok` its entry in `chat_cancellations`, `conv` the
conversation (revision, selected sources, messages), `sup` the supervisor's
record. `Admit` to `Drop` follow `execute_ai_run`: admission, reading of each
source with the backfill of migrated rows, the history, then rounds of validate,
take a slot, send, answer, tools, and at the end the validation, the completion
and the answer appended to the conversation. Each await is a place where users
(`CancelRun`, `DeleteRun`, `ContinueRun`, `ReplaceContext`, `RevokeMaterial`,
`ReplaceMaterial`, `SaveProvider`) act. `Faults` selects crashes,
panics, failed saves of the prompt and failed saves of a run's end. A run's manifest is a set of sources; of its messages only which
earlier turns they include is kept.

Simplifications: the spawn of the task and the supervisor's `start` belong to
the step of the request; the supervisor's `failed` belongs to the step of the
check that refused; one conversation and one provider; citations, drafts,
attachments and budgets are left out.

### DocumentWorker and PageStream

`pc` is where the parent is, `child` where the child is, `stdin` and `stdout`
the frames between them, `ledger` what the parent recorded about the child's
end. `Tick` lets the read or write under way take a part of the render budget,
which `Charge` adds up over the document. `Fail`, `Grace`, `Abort`, `Reap` and
`Note` are `abort_with_error` and what it calls; `Drop` is the destructor, which
can run at every await. The child may fail (`ChildFails`), crash at any point
or do nothing for ever. `Streams` is `PageStream` under the mapping from the
child's `todo` and the parent's `body`: pages are rendered one at a time, the
next one after the previous one was collected, and success means all of them.

### ObjectStore

`db` is the database: its schema, the objects (version, readable or not), the
index, the summaries and the quarantine. `pc` and `copy` follow the opening:
backup into the first free file, verification, migration from `v1` over `v2` to
`v3`, version bump. `origin` remembers the rows before the first opening.
Readers fetch under the lock and decide after it; the worker picks a queued
index row and claims it later. `hurt` remembers which objects the disk ever
damaged.

### Redaction

A text is its length, the positions where characters begin and its line ends, of
its content only a version counts. `ChunkEnd` and `NextStart` are `chunk_ranges`,
`Floor` is `floor_char_boundary`. `job` is the attempt, `cache` the
`ai_redaction_chunk` rows, filed under the question they answer. The text, the
dictionary and the provider change beside an attempt.

The constants must satisfy `MaxChunk ÷ 2 ≥ Overlap + 2 · Width`
(`RedactionAssumption`): otherwise the `.max(start + 1)` of the code could
decide the next start, which need not be a character boundary. The code's
constants do. Texts are not empty.

## 3. Runs

| Run | Instance | Properties |
|---|---|---|
| `materials_cloud` | two materials of one task, local and cloud path, one consent, one crash, two dictionary revisions, two provider revisions | `PublishedIsCurrent`, `CopyIsCurrent`, `NoStranded`, `DispatchIsCurrent`, `OneDispatchPerConsent`, `Publishes` |
| `materials_switch` | one material over three revisions and two sources while the redaction model is configured and removed, two provider revisions, one crash, with fairness | `PublicationInvariant`, `ReadyIsReadable`, `DispatchIsCurrent`, `ReviewKeepsEvidence`, `SettledNeedsRevision`, `NoReplay`, `QueueDrains` |
| `provider_credential` | two keys, two calls of which one has a token, three saves, three faults | `CredentialInvariant`, `FirstFaultContained`, `CommitPairs`, `RecordIsCurrent` |
| `provider_reentry` | two keys, one call, two faults | `KeyOfConfig`, violated (section 5) |
| `admission` | a run, a material and an export, pools of one, with fairness | `Conserved`, `NoBarging`, `Settles` |
| `ai_runs_chat` | two turns of one conversation over a migrated material, a changing context, panics, crashes and prompts that cannot be saved, with fairness | `OneTurn`, `AnswersFollow`, `Owned`, `SentBound`, `Settles` |
| `ai_runs_bound` | two searches (or one and its continuation), failed saves and panics, a changing material and provider | `EndedStays`, `SentBound` |
| `ai_runs_history` | two turns, four context replacements | `SentHistory`, violated |
| `ai_runs_backfill` | one search over a migrated material | `MaterialAdvances`, violated |
| `document_worker` | three pages, two of them scanned, a budget of two ticks, with fairness | `WholeText`, `Reaped`, `Budgeted`, `Streams`, `Settles` |
| `object_store` | an object and a raw object, every older schema, one reader, one crash or failed opening, one damaged row after opening, with fairness | `RowsAgree`, `BackedUp`, `Preserved`, `Opens` |
| `redaction` | texts of 21 bytes, a line end anywhere, three chunks, two retries, one change, with fairness | `Whole`, `AnswersFit`, `TrustedOnly`, `Ends` |

`TypeOK` of a module is the first conjunct of one of its invariants
(`PublicationInvariant`, `CredentialInvariant`, `Conserved`, `Owned`, `Reaped`,
`RowsAgree`). The refinements `Publishes` and `Streams` are checked as properties.

Bounds. Revisions up to 3 let a row be claimed, superseded and superseded again
while the old job still runs; two dictionary revisions let one change race a
job; two sources let a replacement be told from the original; one crash at every
state is enough to interrupt a job and, because recovery is several actions, to
resume from its result. Pools of one with one waiting place make three jobs
reach the three outcomes of `reserve` (active, waiting, refused); larger pools
only delay them. One round per run contains every await; a second turn is what
history and the busy check are about. Three pages, of which the first and the
last need a model, give each page a neighbour of the other kind; two ticks tell
a budget of the document from one of a read. Backups and rows are told apart by
version, so two saves are enough. Chunks of 14 bytes with an overlap of 3 cut
two-byte characters at either parity and reach the line-end rule and its
fallback. `SentBound` is checked with a changing
context where there are turns and with changing materials and providers where
there are none. Symmetry is used over keys and over the materials of a task in
runs without liveness.
`CHECK_DEADLOCK FALSE` is set because the systems may rest: nobody has to
submit, save, start or query, and the bounds end every behaviour.

Fairness. `Materials` assumes weak fairness of the worker and of recovery: the
worker loop polls the queue every two seconds, every transport has a total
timeout and `start_worker` joins a panicked job. `QueueDrains` is checked
without consents; the cloud path is covered by the safety run. `Admission`
assumes weak fairness of each job's progress: the executor polls ready tasks,
model calls and blocking queries end by their timeouts and interrupts. `AiRuns`
assumes it of each task (a dispatch has timeouts, tools have budgets) and of the
restart. `DocumentWorker` assumes it of the parent, whose waits all have
deadlines, and of the operating system ending a killed process; the child is
under no fairness. `ObjectStore` assumes that the user opens the workspace again
after a failure, and faults are bounded. `Redaction` assumes that the attempt is
polled and its transport ends; a new attempt is under no obligation. Users,
crashes, cancellations and drops are under no fairness anywhere.

Each property has a mutant: a faulty variant of one modelled definition
(suffix after `_`, defined just before it) under which the property fails.

## 4. Proofs

Every invariant, action property and refinement that a passing run checks is
also a theorem, for every value of the constants its module's assumption admits
(and, for three properties of `AiRuns`, under the hypothesis named below). Each
theorem names the property as its run does; the run shows on an instance that
the property has cases to speak of. The theorems are about `Spec`, which the
`FairSpec` of the runs with fairness implies. TLC has checked each inductive invariant on
an instance before it was proved.

### Materials

`MaterialsProofs` proves

* `InvariantHolds`: `Spec => []PublicationInvariant`;
* `TypeCorrect`, `PublicationSafe`, `NoLostUpdate`, `TextSafe`: its parts
  `TypeOK`, `PublishedIsCurrent`, `CopyIsCurrent`, `TextOfSource`;
* `PublicationImplemented`: `Spec => Publishes`.

`PublishedIsCurrent` is not inductive: a late `finish_locked` writes the worker's
copy. The strengthening says why that is harmless. `CopyIsCurrent` (the stored
row *is* the copy while the revision check succeeds) turns the late write into a
write over a known row; `JobConsistent` adds that the copy's text and the
analysis the worker carries belong to that row's source and to the dictionary
read at the claim; `ResultIndex` and `TextOfSource` tie rows to their results.
The proof has one lemma per request and worker step over a few shared ones:
`RowStep` and `RequestStep` (a request gives a running row a new revision, so
the job becomes stale), `OneRow`, `WriteBack` and `FinishStep` (the worker's
writes), `DictionaryRow` (no row of the group keeps a valid result).

For the refinement, a step leaves a material's results as readers see them
(`Kept`), withdraws them (`Emptied`) or replaces them by one new result of the
present source and dictionary (`Made`); `KeptRow`, `EmptiedRow`, `MadeRow`,
`FinishedTurn` and `WithdrawnTurn` say which by the row, and `TurnStep` and
`OneTurn` assemble the abstract step. Each action then has a lemma (`...Seen` or
`Quiet...`). The invariant is needed in every one of them: a worker that
finishes has the row it writes as its copy, a row that is not ready has only
revoked results, so that a dictionary change need not look at materials outside
the group's list.

`MaterialSafetyProofs` builds on it a second inductive invariant, `Safe`, of six
parts: `ReadyShows` (a ready row has its text and a result that is not revoked),
`RunningHeld` (running rows are the worker's, and after the first recovery pass
there are none), `TokenHolds` (while the job's token is not cancelled its row is
unchanged), `DispatchRecorded` (before a request leaves, the stage or the used
consent is on disk), `LostParked` (a material whose answer was lost is not
pending, or cannot be sent again, or will be parked by the recovery under way)
and `ConsentsUsed` (every cloud dispatch used up its consent). What requests do
to a row is one of four effects (`RowKept`, `SetAside`, `Reviewed`, `Consented`),
each of which preserves `Safe`; `Moves`, `JobOver` and `Parked` are the same for
the worker, the end of a job and recovery. From `Safe` follow `NothingStranded`
and `ReadyCanBeRead`, and the action properties `DispatchesCurrent`,
`NeverReplayed`, `ConsentsSpent`, `ReviewsKeepEvidence`, `SettledRowsKept`. The
argument for "never replay" is `DispatchRecorded` before the crash, `LostParked`
from the crash on.

### Providers

`ProviderCredentialProofs` proves `CredentialInvariantHolds`,
`ContainedUntilReentry`, `CommitIsCoherent` and `RecordedIsCurrent`. The
strengthening `SaveConsistent` says what the save relies on at each of its
places: the block is set from before the first vault write until it is lifted
over a verified key, and `save.before` is the committed key as long as no save
began over a block.

### Admission

`AdmissionProofs` proves `PermitsConserved` and `QueueServedFirst` for every
finite set of jobs and every pool size. `Holds` tabulates what a job of each kind
holds before each step of its plan; `JobOK` ties a job to its row of the table,
`Owners` and `Placed` are the jobs that own a permit of a pool or a waiting place
of it (in their hands, in a detached blocking worker, or granted and not claimed),
and `CountOK`, `PlacesOK` count them: what is available and what is owned make up
the pool. `QueueOK` says that the callers in a queue are distinct and that the
queue of a pool with a permit left is empty. `OwnersHanded` describes what
handing a permit along a queue does to the owners. A newcomer takes a permit only
when the pool has one, and then by `QueueOK` nobody queues for it.

### AiRuns

`AiRunsProofs` proves, over `Inv` (types, `TaskOK` for the place of a task
against its row, `SupOK` for the supervisor's record):

* `OneTurnAtATime` with `OneActive`: only a start or a continuation makes a row
  active (`NoneActivated`), and it looks for another active one first;
* `EndedRunsStay`: every save of a task is made from a copy under the check that
  the stored row is active;
* `AnswersFollowPrompts`: the answer is appended by the one task of the run, once
  its row is completed (`Closing`), behind the prompt its start has written;
* `RunsOwned` with `EndInv`, if `"save" \notin Faults`. A run whose end cannot be
  saved stays unfinished without a task, so the property is false without the
  hypothesis; the run `ai_runs_chat` has no such fault for this reason, while
  `EndedStays` and `SentBound` are checked with them;
* `RequestsBound` and `MaterialsAdvance` with `LiveInv`, if `Legacy = {}`. The
  write-back of a migrated row can take a material back (finding
  `ai_runs_backfill`), which also makes a revoked source look unrevoked; without
  such rows a live token means that nothing the run depends on has changed
  (`LiveOK`), so the last look at the token before the dispatch is enough.

### DocumentWorker

`DocumentWorkerProofs` proves `ChildReaped`, `WithinBudget`, `TextIsWhole` and
the refinement `ImplementsStream`. Its invariant has, besides types: `LedgerOK`
(the ledger is what the places passed so far record, and what each place knows of
the child), `BudgetOK` (the waits of all reads and writes so far are what the document is
charged with, and that stays within the budget), `PipesOK` (at most one frame in a pipe, a page frame only while the
child waits for its acknowledgement) and `PagesOK` (pages are rendered in order,
at most one is not collected, and it is where the protocol says: in the pipe, in
the model's hands or with its acknowledgement pending). Under the refinement
rendering a page and collecting it are steps of `PageStream`, success needs
`PagesOK` at the child's regular exit, and every other action is a stutter.

### ObjectStore

`ObjectStoreProofs` proves `AgreementHolds`, `MigratedWithBackup` and
`OpeningPreserves`. The invariant says of rows (`RowsOK`) that what does not open
was damaged and that, from the schema of version 3 on, index and summary agree
with every object; of readers (`ReadersOK`) that an object found bad was damaged,
whenever the reader gets to say so; of the opening (`OpeningOK`) what schema it
found at each place, that the rows are still those of the beginning until the
last migration, and that a whole backup of them exists once a migration may run.

### Redaction

`RedactionProofs` proves `WholePassages`, `AnswersFitAlways` and `OnlyToTrusted`
for every set of text shapes and every chunk size the assumption admits. The
first rests on facts about the chunking functions: `FloorFacts` (the last
boundary exists and is less than a character away), `ChunkFacts` (a chunk ends at
a boundary, and unless it is the last it is longer than the overlap and a
character) and `NextFacts` (the next one starts at a boundary, further on and an
overlap before the end). That a bounded set of positions has a greatest element
is proved from the well-foundedness of `<` (`LeastNatural`, `GreatestNatural`).
`Seen(pass, n)` is the invariant of the loop: every short passage that starts
before `n` was shown in that pass. `Filed` says that a live token means the
revision and the trust that the check saw are the present ones.

### Assumptions and limits

Assumptions are the named ones of the modules (`ConstantsAssumption`,
`CredentialAssumption`, `AdmissionAssumption`, `AiRunsAssumption`,
`DocumentWorkerAssumption`, `ObjectStoreAssumption`, `RedactionAssumption`):
types of the constants, distinguished values outside the sets, finite sets of
jobs and runs, pools and rounds of at least one, an object at least; TLC
evaluates them in every run of the module. Only `RedactionAssumption` relates
numbers, see section 2.

Only model-checked: the liveness properties `QueueDrains`, `Opens`, `Ends` and
the three called `Settles`. They depend on fairness, which this prover does not
reason about. The three properties of section 5 are false and have
counterexamples instead; of `MaterialAdvances` the part that holds is
proved.

## 5. Findings

`provider_reentry`: the comment of `commit_prepared_provider_save` says the block
prevents "a later request from combining an old configuration with a possibly
new key". It does for a first fault (`FirstFaultContained`, proved). But a save
that begins while the block of an interrupted save is still set remembers the
vault's present, uncommitted key as `before`. If it fails in turn, that key is
restored and verified, the block is lifted, and the next call combines the old
configuration with it. Remembering the committed key, or lifting the block only
if it was not set when the save began, would restore the property.

`ai_runs_history`: `docs/web/audit-1.2.1-contracts.md:44` says that removing a
material stops the unfinished tasks that depend on it and that later context
excludes the corresponding turns. A turn's history is filtered by the context of
the moment it is read. When a source is selected again at that moment and removed
afterwards, the turn carries an earlier turn made with it; the removal compares
only the run's own manifest, and the removed source's turn is still sent.

`ai_runs_backfill`: a material row read without the gate is written back with its
missing length and format. A revocation in between is undone, although
`docs/security-and-privacy.md:14` says it blocks later sends.

Observed on the way, without a sentence in the repository that says otherwise:

* A `Drop` after an abort was interrupted records a natural exit of a child the
  parent killed (`document_worker.rs:1110`); the ledger property speaks of
  operations that return.
* A late read may quarantine an object that was saved again in the meantime
  (`store.rs:207`): healthy rows are hidden until the next save.
* `start_ai_run` saves the run before the conversation; when the second save
  fails the queued run has no task until it is cancelled or the process restarts
  (`ai_runs.rs:2247`). `Unprompted` names such runs; `Owned` shows
  that nothing ever executes them, `OneTurn` that they keep the conversation busy,
  and `Settles` does not speak of them.
* A panic between the completion of a run and `finish_ai_chat` leaves a completed
  run without its answer in the conversation and a failed supervisor record.

## 6. Plan

Done: `Materials` with the refinement of `Publication`, `ProviderCredential`,
`Admission`, `AiRuns` with the supervisor's records, `DocumentWorker` with the
refinement of `PageStream`, `ObjectStore`, `Redaction`; the proofs of every
safety property and both refinements.

Left, in this order:

1. Proofs: the variants behind the liveness properties, as action properties
   (chunks advance and retries are bounded in `Redaction`, a job of `Admission`
   moves along its plan, an opening of `ObjectStore` does not return to an
   earlier schema); the abstract promise of `Redaction` and of `AiRuns` to their
   callers, as specifications of their own.
2. Drafts: revisions, conflict copies and their pages.
3. The leases of the process diagnostics' log (`diagnostics/process.rs`).
4. The OCR page cache beside `Redaction`'s chunk cache.
5. Pure algorithms against reference definitions: context range normalisation
   and containment, the context budget, paging cursors.

## 7. Not modelled

Cryptographic sealing, file formats, text matching, the merging of findings and
their exact verification against the text, rendering, HTTP and SSE parsing,
sessions, the read-only legal corpus and its ranking, the older desktop vault in
`crates/privacy`, data builds and the Web client: pure data handling or I/O
without protocol state, see the notes in `PROJECT.json`. These make up most of
the repository's lines. The models concentrate on `crates/workspace-service`,
where the state that handlers, workers and crashes share is kept.
