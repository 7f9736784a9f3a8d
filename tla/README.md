# A TLA+ model of OnCall Pilot

OnCall Pilot is a workbench for people on call: a Vue page talks to a FastAPI service that keeps
users, sessions, documents and jobs in SQLite and the chunks of indexed documents in Milvus, and
calls Qwen for embeddings and reranking. This directory models the parts of it where order, failure
and time decide what is right: the durable job queue, the worker that runs on it, document indexing
over two stores without a common transaction, the vector store and provider below it, uploads and
their splitting, hybrid retrieval with its concurrent branches, the identity and the event streams of
a browser page, and the synchronizer of the project's WIKI.

Paths below are relative to the repository; `oncall_pilot/` is
`apps/backend/src/oncall_pilot/`, `frontend/` is `apps/frontend/src/`.

## 1. The system

| Component | State | Operations | Interacts with |
|---|---|---|---|
| Durable job queue, `background_jobs.py`, `background_models.py` | tables `background_jobs`, `background_job_events` | create, claim, heartbeat, append_event, finish, recover_expired, cancel, retry, list_events | called by worker, APIs, index tasks; every event is projected on the index task in the same transaction |
| Background worker, `background_runtime.py` | polling tasks, stop event, per run a context with a cancel flag and a heartbeat, owner cursor | lifespan start/stop, `_loop`, `_next`, `_execute`, `_heartbeat`, emit | queue, handlers |
| Index tasks and projection, `index_tasks.py`, `index_projection.py` | table `document_index_tasks`, `index_status` of documents | create, retry, cancel, projection | queue, documents |
| Index handler, `document_indexing.py` | the run's step | read, embed, initialise, delete old chunks, insert | queue (checkpoints), LLM, vector store |
| Knowledge documents, `knowledge.py`, `knowledge_models.py` | table `knowledge_documents` | upload with overwrite, delete, soft_delete, confirm_cleanup | index tasks, vector store |
| Backend authentication, `auth/` | tables `users`, `auth_sessions` | register, login, authenticate, logout | every API |
| Frontend authentication, `frontend/auth/authState.ts` | status, user, token, version, open streams, localStorage | initialize, login, logout, request, stream | API, protected stores, router |
| Hybrid retrieval, `knowledge_retrieval.py` | none between calls | two concurrent recall branches, fusion, rerank | LLM, vector store |
| Uploads and chunking, `knowledge_api.py`, `knowledge_documents.py`, `knowledge_chunking.py` | bytes received of one body; stored settings of a document | limit, extraction checks, three splitting strategies | handler, preview |
| Vector store, `vector_store/` | per store a client, a ready flag and a lock; the collection in Milvus | initialize, insert, delete, search, list | Milvus, handler, requests, retrieval |
| LLM provider, `llm/` | HTTP clients | chat, embed in batches, rerank with retries | Qwen |
| Frontend transport, `frontend/transport/` | parser state of one stream | request, SSE parsing, abort | auth state |
| WIKI synchronizer, `scripts/sync_wiki.py` | directories and pages under `docs/changes`, index, navigation | sync of all or one change, verify | OpenSpec changes and main specs, files people put there |
| Adapters: HTTP APIs, SQLite set-up, configuration, contracts, migrations, views, smoke script | none of their own that others rely on | | |

What is hard about it:

* **Leases.** An executor may lose its lease at any moment (a stall, a crash, a failed renewal) and go
  on working; cancel, retry, recovery and a second executor meet its late writes.
* **Five ends of a run.** Handler, heartbeat, stop, cancel and timeout can be complete at the same
  wake-up, and after the decision the two tasks must still be drained.
* **Two stores.** Chunks of a document are deleted and inserted in Milvus while SQLite says what the
  document is; a run, an overwrite and a delete can stop between any two calls.
* **Late answers.** A page has several calls in the air under identities it no longer has.
* **One collection, many initialisers.** Every store creates what it finds missing, while others do the
  same, over calls that may fail after their effect.
* **Files without transactions.** The synchronizer may be killed between any two file system calls, and
  changes are archived while it runs.
* **Cuts.** Upload bodies and event streams arrive in pieces that the code must not notice.
* **Boundaries.** The last attempt, the backoff cap, equal time stamps, equal content hashes.

`PROJECT.json` lists each hazard at its line with the properties that guard it.

### What makes each component correct

* Queue: settled is final; a cancel request is never lost; no row is stranded; only a live lease can
  renew or settle, and no two runs share one; order of service; retries form a chain; the event log
  replays the life of the row; the CHECK constraints are never hit.
* Worker: success only from the handler of the run that holds the lease; nothing abandoned while
  nothing fails; shutdown ends and leaves nothing running; every job is settled and every cancel takes
  effect in the end.
* Indexing: a document with a task in progress cannot vanish or get a second one; what clients poll is
  current; a document shown as indexed has exactly one run's chunks; a cleaned document stays clean.
* Retrieval: nothing outside the caller's scope and filters leaves the service; reported ranks are true
  and the best candidates are reranked; a failure never yields a partial answer.
* Vector store and provider: a ready store meets a complete, validated collection; the old vectors of a
  document go only when all new ones are in hand, each belonging to its text; locks and clients are
  given back on every path.
* Uploads: the limit is exact for every cut; what was accepted can be split later, under the settings
  as they are read back; chunks are what each strategy promises, and the preview shows the same ones.
* Synchronizer: the gate judges by the last word of the archived deltas; directories without its marker
  are never removed; the WIKI follows the changes again after every trouble.
* Event stream: events and failures depend on the text, not on how it was cut.
* Page: the user shown is the owner of the token in use, in memory and in localStorage; logout forgets
  the token; streams and late answers of an earlier identity change nothing; the page never hangs.

## 2. Modules

| Module | Models | Uses |
|---|---|---|
| `JobLeases` | the contract of the queue: status, attempt, who holds the lease, whether it is live, whether a delay is over | |
| `BackgroundJobs` | the queue itself: full rows, clock in seconds, owners, kinds, event log | instantiates `JobLeases` as its abstraction |
| `BackgroundJobsProofs`, `AuthStateProofs`, `VectorIndexProofs`, `HybridRetrievalProofs`, `DocumentIntakeProofs`, `SseStreamProofs`, `WikiSyncProofs` | theorems about the module each is named after | extend it |
| `LeasedRunProofs` | theorems about `JobLeases`, `BackgroundWorker` and `DocumentIndexing` | extends the three |
| `BackgroundWorker` | the executor with slots, on the contract | extends `JobLeases` |
| `DocumentIndexing` | tasks, projection, handler runs, uploads and deletes, SQLite and Milvus, on the contract | extends `JobLeases` |
| `AuthState` | one page, its localStorage, its calls in the air, the sessions of the server | |
| `HybridRetrieval` | one retrieval: two branches, fusion, rerank | |
| `VectorIndex` | one document's vectors as a run replaces them: provider clients, embedding batches, stores initialised by several threads | |
| `DocumentChunking` | settings and the three splitting loops, for indexing and preview | |
| `DocumentIntake` | an upload from the socket to the stored row, then its splitting | extends `DocumentChunking` |
| `SseStream` | the SSE parser and the reading loop around it | |
| `WikiSources` | the changes and main specs, and the gate on archived deltas | |
| `WikiSync` | a run of the synchronizer as file system calls | extends `WikiSources` |
| `MCBackgroundJobs`, `MCDocumentIndexing`, `MCHybridRetrieval`, `MCVectorIndex`, `MCDocumentIntake`, `MCWikiSync` | symmetry sets and small inputs for TLC | extend the module |

### BackgroundJobs

One action per repository method. Each runs in a transaction whose first statement is a write, so
SQLite serialises them; a method that raises rolls back and is a stuttering step. `jobs[j]` is the row
of `j`, `events[j]` its event log in sequence order, `now` the clock in seconds, `issued` every lease
token written so far. `cancel` is two actions by the status it meets. Heartbeat, AppendEvent and
Finish may be called with any token ever issued, by executors that lost their lease long ago:
fencing is what the guard `HoldsLease` does, not something the environment is polite about.
`AfterRun` and `AfterFailedRun` are the CASE expressions of `finish` and `recover_expired`;
`Transition` is `_transition`. Payloads, results and texts are left out, `error` and `completed` say
whether a column is set. Events that handlers emit are all called "progress".

`leaseView` maps a row to the contract: a lease is live while `lease_expires_at > now`, a queued job
is due when `available_at <= now`. `ImplementsLeases` is the refinement; the clock's Tick implements
`TimePasses`, Create and Retry implement `Enqueue`, Heartbeat and AppendEvent are invisible.

### BackgroundWorker

A slot is one `_loop` task. `BeginPoll`, `Poll` (recovery of expired runs, then claim), `PollFails`;
`HandlerEnds`, `Beat`, `BeatFails`; `Wake` is the end of `asyncio.wait` with the branch `_execute`
takes in its order (`Verdict`), where the tasks that wait for stop and cancel may or may not have been
scheduled yet; `HandlerStops`, `BeatEnds` drain; `WriteBack` or `WriteFails` settle; `Stop`,
`ShutDown`, `LoopEnds` are the lifespan; `Crash` and `Restart` lose every slot and keep the table.
`Submit` and `RequestCancel` are API calls, `Lapse`, `Stall` and `DelayEnds` are time. A lease lapses
only where no heartbeat renews it, or after a stall, which counts as a fault.

Owners are abstracted: `_next` recovers owner after owner until it claims, so a poll recovers the
expired runs of an arbitrary subset when it claims and of all when it finds nothing.

### DocumentIndexing

A task and its job are one identity. `CreateTask` is create and retry of `index_tasks.py` with their
guards; `Project` is `project_index_job`, applied by every action that changes a job's status, because
the code does so in the same transaction. A run executes `Steps` with a checkpoint before each and
after the last (`Checkpoint` reads the cancel flag and the lease), a step may fail with or without
having had its effect, `Interrupt` is the worker cancelling the handler (a bounded thread first
finishes the call it is in), `Vanish` a crash. `Upload`, `SoftDelete`, `DeleteVectors`,
`ConfirmCleanup`, `Add` and `Delete` are the request paths of `knowledge.py`, cut where the
transactions are, and `RequestFails` can end a request between any two. All documents have the same
content, the case in which they compete for one hash. `chunks[d]` is the set of runs whose chunks of
`d` are in Milvus: the order and number of chunks inside a run does not matter to any property.

`overrun` is a history variable: it records that a lease ended while a Milvus call of its run was on
the way. `apps/backend/persistence.md` line 164 limits the guarantee to the local write-back in exactly
that case, so `SucceededIsComplete` and `CleanedStaysClean` are stated under `~overrun`.

### AuthState

`page` holds the variables of `createAuthState`, `stored` localStorage, `call[c]` a call with the
version and token it captured, `owner` and `live` the sessions table. Code between two awaits is one
action: `Initialize`, `Login`, `Logout`, `Ask` (request and stream) send; `LoginHandled`,
`Authenticate`, `Revoke` are the server's transactions; `AnswerOf...` and `HandshakeRefused` are what
the page does with an answer, `Fail` with the lack of one (network, 5xx, broken contract, the ten
seconds of a logout), after which the server may still handle the call. `Reload` closes the page and
opens it again. `shown` is whose data the protected stores hold, written by answers of requests and
events of streams; `left` is history: the tokens this page has logged out of. Guards on the status say
where the interface offers an operation: the login page also exists while a logout or a retried
recovery is under way. `authenticate` is one action though it is two transactions: both require that
the session is not revoked, and a revocation is final. Left out: register, emails and passwords
(a login is refused nondeterministically), `last_seen_at`, several tabs, exceptions of storage or of
a store's reset.

### HybridRetrieval

`stage` is where `retrieve` is, `vector` and `keyword` are the two tasks. `SearchVector` and
`SearchKeyword` end a branch with any duplicate-free order of chunks: scores only serve to sort, and
`IndexedChunk` values may come back from the stores for anybody's chunk, as the code assumes when it
checks them again. `Fused`, `Before` and `Sorted` are `_fuse` with exact fractions in place of floating
point, `Kept` the filter comprehensions before it; the 64 hits of the vector store are a property of the store and left out. `Rerank` is the
provider's answer, any sequence of indices, and `_serialize`. After `Cancel` a thread may still be
reading Milvus, but nothing uses the provider.
`attempt` counts the tries of `rerank`: `Retry` is a timeout, a lost connection or a status worth
trying again while one is left, `RerankFails` any other failure.

### VectorIndex

`store[s]` is a `MilvusVectorStore`: has a client, is ready, who holds its lock. The application makes
one for the job handler and one for requests, and each retrieval tool one more (`app.py`); job slots
share the first. `call[c]` is where thread `c` is in a call: `Lock` to `Load` are the lines of
`initialize`, one action per client call, `Data` is the insert, delete, search or query after it. `Fail`
is a client call that raises, with or without its effect, and `Raises` the way out of the `with`
block. Milvus is external: `After` is what a client call does to the collection. When another
store has made the collection or an index since this one looked, Milvus accepts the call or refuses it;
both happen. The initial states include a collection that is absent, half indexed, wrongly indexed or
of another schema. `run` is the handler from the opening of the provider to the end: clients opened and
closed one by one, `Embed` with any answer a provider may give to a batch (`Ordered` and `Complete` are
`_OrderedEmbeddings`), the check of all rows, then the three store calls with their checkpoints. A
cancel while a call is in its thread waits for it (`CancelCall`, `Returned`). `Restart` is a crash at any
point. DocumentIndexing abstracts all this to a step that may fail with or without effect.

### DocumentChunking and DocumentIntake

`Normalized`, `Public` and `Stored` are the settings as the request gives them, as the row stores them
and as they are normalised again on reading and on splitting. `split[p]` is a call of
`chunk_document_text` for indexing or for the preview, whose loops advance by one window, one boundary,
one line per action. Characters are classes (visible, white space, the three that form line ends), lines
of Markdown are classes as well (headings, fences, blank, text); ranges are kept exactly. A request is
received in pieces (`Receive`), then checked in the order of the code (`Verdict`).

### SseStream

Text is a sequence of tokens: line ends are exact, a field with its value is one token. The network may
hand over any prefix of what has been sent (`Read`), the caller takes events one at a time (`Yield`) and
may abort between any two. The reference in the property reads the whole text at once and speaks of
places only: where a line starts (an LF after a CR is no place of its own), where a frame ends, which
characters and fields lie between two ends, which frames are owed an event.
An exception of `push` takes with it the events that were complete in the same piece; which events a
caller gets before a failure therefore depends on the cut, and the property says so.

### WikiSources and WikiSync

Changes are proposed, archived with a delta (synced into the main specs or not) and the day moves on,
at any time, also while a run is at work. `Latest` is the fold of `_validate_archive_specs` with its sort
key; `history` keeps the true order of archiving, which the code does not know. `run` goes through the
two stale-directory passes, the pages, index, navigation and validation; removal and writing are two
calls each, and `Kill` may fall between them; writing the index or the configuration is one step.

`MakeOwn` puts files of people into any directory, also one that has the name of a change, before or after
the change exists. `theirs` says where such files lie and whether a page was ever beside them ("shared") or
not ("apart"). `_write_outputs` does not look at what is there: `mkdir` accepts the directory and
`write_text` replaces its `index.md`, which gives it the marker; once that change is archived,
`_remove_stale_directories` removes it with everything in it. `OwnFilesKept` draws the line exactly there:
files go only from a shared directory of an active page whose change is archived by then, and files that lie
apart are never touched. Somebody who names a directory like an active change does lose its files. No doc
promises otherwise (the skill asks only that the marker is looked for), so this is a documented limit and
no finding.

A change that has moved while its page was open leaves a directory that the next run repairs. Two things
stay in the way: a run killed after emptying a page whose change then moves away, or between the two calls
of a removal, leaves a directory without the marker that no change accounts for; the next run refuses it, as
it refuses one made by hand, and people have to look. `Converges` counts exactly this as blocked, and only
after a kill or files put by hand. It is about eventual repair: the run during which a change moved may
itself end in success, for its validation looks for what it had collected, and a page whose change had moved
before it was opened is rendered and accepted without includes.

A delta that parses is reduced to its operations; both dates are days.

An operation knows its change and its place in the text, so the operations on a requirement are a set and
the sort key orders it. `Bodies` is what `openspec archive` makes of the main specs, operation by operation;
the tool is not in `src/`, and the order of the text is the one the fold keeps, by a stable sort and the comment at
`sync_wiki.py:322`;
a delta is archived only if every one of its operations applies to them. `FoldFollowsHistory` compares
`Latest` with `LastWord` wherever dates and names tell the order (`OrderTold`). One case is excluded by name,
`AddsAgain`: a change that renames something to `r` and modifies `r`, archived without reaching the main
specs, and an addition of `r` on the same dates under a later name. The code takes the addition for the
original one and sorts it first. The proof met this case, not a run; it takes a missed sync to get there.

## 3. Runs

| Run | Instance | Question | Size |
|---|---|---|---|
| `jobs_one` | one job, attempts 1 to 3, lease 2 s, clock to 9, 3 tokens, 7 events | the life of one row, with every late or stale call | 124,000 states |
| `jobs_two` | two jobs, one owner, two kinds of which one has a handler, lease 1 s, clock to 4 | what two jobs do to each other, and the refinement | 138,000 |
| `worker` | one job, 2 tokens, 2 slots, one fault, one restart | safety and liveness of the executor | 60,000 |
| `worker_heartbeat` | the same | the comment on failed heartbeats (violated, see findings) | stops early |
| `indexing` | two documents of equal content, two tasks, 2 tokens, one request at a time | indexing against uploads, overwrites and deletes | 1.2 million |
| `indexing_corpus` | the same | what the retrieval spec says of the corpus (violated, see findings) | stops early |
| `auth_state` | two users, two sessions, two calls in the air, four identity changes per page, reloads | safety and liveness of the page | 170,000 |
| `retrieval` | five chunks, one of another owner, one of another knowledge base, two rerank candidates, one retry | every order of hits, filter, failure and rerank answer | 44,000 |
| `vectors` | two stores, three threads, three chunks in batches of two, two runs, one failure or restart | initialisation races, provider answers, locks and clients | 378,000 |
| `intake` | files of 0, 3 and 4 bytes under a limit of 3, overheads of 0 to 2 under an allowance of 1, 13 settings, all texts of up to 9 characters or 4 to 6 classes | upload limit, settings that survive storage, exact chunks | 276,000 |
| `sse` | every text of up to six tokens, frames of up to seven characters | events independent of cuts, exact limit | 861,000 |
| `wiki` | two changes, two days, two requirements, seven kinds of delta, one trouble | the gate, the files of people and convergence of the WIKI | 664,000 |

Bounds and why they are enough. `MaxTime`, `MaxEvents`, `MaxFaults`, `MaxRestarts`, `MaxVersion`,
`MaxCalls`, `MaxRuns`, `MaxFailures`, `MaxText`, `MaxTrouble`, `Days`, `LaterDeltas` and the finite sets of
tokens are the only bounds, each in a guard. `jobs_one` has room for three
attempts with backoff 2 and 4 and for a lease that is renewed and one that runs out; what a single row
does depends on nothing beyond. Two jobs suffice for exclusiveness, order and lineage, which relate
pairs. The worker needs one job and two slots for the meeting that matters: a run that lost its lease
while draining and the run that recovered the job. One fault is enough for each property because a
fault only ever turns a run into an expired lease; a second one would meet the same state. Indexing
needs two documents for competition over one hash, and two tasks for a retry or a second index of one
document. In `auth_state` one call belongs to the present identity and one to an earlier one; the
slots are reused, so any number of calls follow one another. Three eligible chunks and two candidates
let the limit cut, a filter take out the first hit and two chunks tie in every way. In `vectors` two
indexes are one that is there and one that is not, three chunks make a full and a partial batch, and
the second run has vectors to replace; an initialisation race needs two stores, a race for a lock two
threads of one. In `intake` a file one byte too long gets
past the limit on the body when it comes without overhead, so that both checks of the size are met; texts are longer than two windows with any overlap, and hold two paragraphs
or two fences. In `sse` six tokens hold two events, or one with each kind of line end. In `wiki` an
ADDED, a MODIFIED and a REMOVED meet on one day in both orders of names; one killed run, forced run,
directory with files put by hand or change moved under a run is what a later run has to cope with. After the first
written page only deltas that add the first requirement or declare no specs are archived (`LaterDeltas`): the
gate does not depend on the pages. The `auth_state` instance with three calls and three
identity changes (2.1 million states) also passes; change the constants to run it.

Deadlock is not checked in `jobs_*` and `indexing*`, where the clock or the tokens end by their bound,
in `retrieval`, `intake` and `sse`, where the call ends, in `vectors`, where runs and calls are used up,
and in `wiki`, where the calendar ends.
Symmetry is used only in runs without liveness properties.

Fairness. `BackgroundWorker`: asyncio runs every ready task; `asyncio.wait` has a timeout; bounded
threads end because every remote call has one; clocks advance; a supervisor starts the process again.
Handlers are *not* assumed to return by themselves. There is no fairness on crashes, faults, stops or
submissions. `AuthState`: the server answers what reaches it, and the page's event loop handles what
arrived; nothing is assumed of users, reloads or failures. `VectorIndex`: every client call ends, by its
timeout of 30 s if need be, and a thread goes on, through a lock that is free too. Fairness is weak:
a thread that other threads overtake again and again is not covered, `MaxCalls` keeps it from happening;
the providers' requests end by their timeouts. `WikiSync`: a run that is not killed goes on, and the workflow
runs the synchronizer again after changes, never forcing the gate. `BackgroundJobs`, `DocumentIndexing`,
`DocumentIntake`, `SseStream` and `HybridRetrieval` state safety only.

`WorkerTypeOK`, `IndexTypeOK`, `AuthTypeOK` and `RetrievalTypeOK` give the domains of the variables. They are
theorems (section 4) and not properties of the runs, which ask for what could really be wrong.

Each property of a passing run has a mutant in `PROJECT.json`: a definition of the module with a
plausible bug (marked "mutant of" where it stands), under which TLC finds the property violated.

### Findings

* `worker_heartbeat`: a comment in `background_runtime.py` (line 177) says that after a failed
  database access of the heartbeat the job is left to the recovery of its lease. The code takes the
  failure branch and writes the run back as failed, at once (lines 186, 199-207).
* `indexing_corpus`: the hybrid retrieval spec (`spec.md` line 23) says the keyword corpus holds only
  chunks that were indexed successfully. A run that is cancelled, or whose last attempt fails, after
  its insert leaves its chunks, and `knowledge_retrieval.py` (lines 320-346) does not look at the
  index status.

## 4. Proofs

Every theorem holds for all values of the constants that satisfy the module's named assumption: any
number of jobs, owners, kinds, tokens, slots, documents, users, calls, stores, threads, chunks or
filters, and any bounds. The bounds of section 3 are then no more than constants of the specification:
none of the proofs depends on their size. The assumptions are those TLC evaluates on the runs; the
proofs added a few: the job identities of `DocumentIndexing` are finite (they are row numbers of a table),
`IndexNames` of `VectorIndex` is a non-empty sequence (`collection_indexes` returns one), the sizes,
settings, kinds and texts of `DocumentIntake` are of their types, and so are the deltas of `WikiSources`, of
which one that does not parse gives no operations.

A safety property is proved from an inductive invariant, one lemma per action or group of actions. TLC
checked each of these invariants on the instance of the component's run before it was proved, those of
`AuthState` and `DocumentIndexing` also on larger ones (three calls and three tokens; three tasks and
three tokens, in part).

**The queue (`BackgroundJobsProofs`).**

* `TypeCorrect`: one step per action; the row updates have a lemma each.
* `ChecksAlwaysHold`, `NeverStranded`, `CancelAlwaysWins`, `SettledRowsAlwaysExplained` follow from one
  inductive invariant, `RowsOK`. None of the four is inductive alone: that a queued row has an attempt
  left needs that a running row has at most `max_attempts`, that no cancel is pending on a queued row
  needs the same of the run that is put back. `EveryRowSteps` reduces a step of the table to what can
  happen to one row; `RowsOKStep` goes through those cases.
* `SettledForever` and `ExpiredLeaseStaysDead`, `BackoffAlwaysRespected` are action properties, each
  proved from the type invariant and a case analysis of the step.
* `LineageAlwaysHolds` needs that ages never lie in the future and that sources of retries are settled
  for good; `LeasesAlwaysExclusive` that every lease of a running row has been issued, while claim
  writes a token that has not; `AlwaysFirstComeFirstServed` that a row waiting for its first run has
  `available_at = created_at`, so that an older one is due whenever a younger one is.
* `EventsAlwaysReplay` is inductive as it stands, because `EventsReplay` speaks of positions in the log:
  `FirstEvent`, `OneMoreNote` and `OneMoreStatus` say what one more event does to any log that replays,
  and `ReplayStep` finds for each action which of them applies.

**The refinement (`BackgroundJobsProofs`, last part).** `QueueImplementsLeases`: `Spec => ImplementsLeases`, a
simulation with one lemma per action. Views of two records are compared field by field (`SameView`).

**The contract (`LeasedRunProofs`, first part).** The worker and indexing change several rows in one step, so the
lemmas are about what may happen to one row (`RowStep`) and about tables all of whose rows take such
steps and of which at most one is started (`TableStep`). `LeasesAreSound` and `LeasesAreFinal` are the
theorems; the two parts below reuse the lemmas for the rows.

**The worker (`LeasedRunProofs`).** `WorkerInv` adds to the contract's invariant what each phase
of a slot still keeps (`SlotOK`): a slot that rests keeps neither job nor tasks, a run that noticed its
lease as lost has lost it, a cancelled context means a cancel request while the lease is held, and a
success that still holds its lease has a handler that returned. Without these, `NothingRunsAfterShutdown` is not
kept by the end of a loop, `NoRunAbandoned` not by the write-back and `SuccessIsEarned` not by a slot
that drains while another one recovers its job.

**Indexing (`LeasedRunProofs`).** `IndexInv` has two halves. `TablesOK` and the run and request
parts hold always: task, job and document agree, an active task is the latest of a live document (so
nothing supersedes it), a request past `soft_delete` has a deleted document. `ChunksOK` holds until a
lease ends during a Milvus call: a run that changes Milvus holds its lease, between delete and insert a
document is empty, after the insert it has the run's chunks while its lease lasts and nobody cancels
(`ProgressOK`). `SucceededIsComplete` is the last state of that chain, and `CleanedStaysClean` needs
that no active task exists once a document is deleted.

**The page (`AuthStateProofs`).** `AuthInv`: at most one call decides over the present identity
(`OneDecides`); while it is on the way the page is loading and token, localStorage and shown data are
what the call left behind (`DecidingOK`); a request or stream of the current version carries the page's
token; a refusal means that the token was revoked; a token the page has left is not the page's any more
and is in localStorage only while the logout that will remove it is still deciding (`Forgotten`). The
four properties are projections of it; `OnlyRevokedIdentityCleared` is proved per action from the part
about refusals.

**The vector store (`VectorIndexProofs`).** `VectorInv`: a call that is past a check of Milvus relies on
it without the lock of the other stores, which works because other stores only ever add what is
missing: each step of `initialize` carries the part it has seen (`CallOK`). Only the call the handler
waits for writes (`WriterOK`), and vectors come in the order of the texts (`RunOK`). The heart of the
second theorem is `CompleteIsOrdered`: an answer with as many rows as texts, all indexes in range and
none twice, sorted by index, is the vectors of the texts in their order.

**Retrieval (`HybridRetrievalProofs`).** The fusion is proved about as a pure algorithm first: ranks in a
finite set under a strict total order are all taken, once each (`EveryRank`); what a filter keeps has
the places its ranks say (`KeptPosition`); `Before` is a strict total order on records of different
chunks (`BeforeIsOrder`, by products of the fractions); `Sorted` lists every record in that order
(`SortedInOrder`); a permutation of the candidates cut at `topK` repeats no chunk (`CutPermutation`).
`RetrievalInv` then needs only three facts beyond the properties: what a branch found is in scope before
it is fused, both branches are at rest once anything was sent to rerank, and the candidates are the
first records of the fusion of exactly those hits.

**Intake and splitting (`DocumentIntakeProofs`).** `IntakeInv`: nothing is stored before the answer; what
is stored has a visible character and settings that normalise to themselves (`AcceptedAgain`); and a
splitting that is not finished still has something in front of it (`SplitOK`): a window starts before the
end, a visible character is never lost to a separator (`VisibleIsNotLost`, because separators are white),
a heading's chunk holds its own line. `ExactInv` says for each strategy what has been cut so far: the
windows up to here cover the text and share the overlap, the chunks are the paragraphs that end before the
cursor, the sections and their paths are those of the lines read. `Agree` says that indexing and preview
have cut the same as far as both have come. The fences of Markdown are told by a recursive function of the
line; what it is at each line follows by the first line at which it could be anything else, since the
library's induction cannot be used. Together they give `ChunksAlwaysExact` over texts of any length, where TLC
sees nine characters.

**The event stream (`SseStreamProofs`).** What the text says of a place does not change when more text
follows (`PlacesStay`, `FrameStays`, `LineStays`), so a frame that has ended keeps its data and a broken
text stays broken (`DataStays`, `BrokenStays`). The parser `Follows` a text if its fields are what the text
says of two places: where the last frame ended and where the open line begins; the size is then the number
of characters since the one, the data are the lines between the two. `Consumed` goes through the kinds of
token (the LF of a CR LF, one too many, part of a line, the end of a line, a blank line): the parser follows
the longer text and has appended the event it is owed, or it fails and the text is broken. `Pushed` carries
this over the characters of one piece by the first at which it could go wrong, and `SseInv` over the pieces.
With `Delivered`, which says which event each frame has got, `ParserAlwaysExact` follows for streams of any
length and any limit.

**The WIKI (`WikiSyncProofs`).** The gate first, as a fact about the sources alone. `HistoryInv`: a
requirement that an archived change only modifies is in the main specs unless somebody removed it later
(`Standing`), nobody adds it again without removing it first (`Between`), nor does the text of a single delta
(`Texts`). An archive keeps these because its delta applied, one operation after the other, to the main
specs of its moment (`FittingDelta`, from `OneMoreApplied` by the first operation at which it could fail).
From them `NotOriginal`: where a modification was archived before an addition on the same dates, something
was removed as well, so the fold does not move the addition to the front. With `SameOrder` the sort key and
the order of archiving then agree on any two operations, and `LastIsThere` says that there is a last one.
For the docs, `WikiInv` adds that no page stands beside files that are apart (`ApartOK`), that every page that
stands belongs to a change which has been in its group and which the run at work has collected, unless the
change was archived before (`PlacesOK`, `RunOK`), and that a removal half done is one of an archived change's
active page (`BusyOK`): the second call of a removal no longer looks at the marker. `OwnFilesAlwaysKept` needs
all four, for any number of kills, moves and files put by hand and for any names. That a run collects every
change there is (`StartCollects`) takes that `Pages` lists them all (`PagesAre`), from `EveryRank` once for
each of its orders.

Only model-checked:

* Liveness (`worker`, `auth_state`, `vectors`, `wiki`): fairness and `ENABLED` are out of the prover's reach.
* `RanksAreTrue` is about exact fractions. That the floating point sums of `_fuse` order the same way is
  neither checked nor proved.

## 5. Not modelled, and the plan

Not modelled because they are stateless conversions, generated, or run once: contract validation and
generation, configuration, migrations, views, the smoke script, `knowledgeClient.ts`, which no page uses
yet, the SQLite set-up, whose transactions are the actions of the other modules. Left out of modelled
parts: register and password hashing, chat and readiness of the provider, the health probe of the store,
tokenizer and scores of the keyword branch (floating point; a branch may return any order), envelopes and
request ids. The owner cursor of `_next` is abstracted to any order of owners: its rhythm matters only for
starvation between owners under endless new jobs, which a bounded instance cannot show.

What is left:

`VectorIndex` as a refinement of the step that `DocumentIndexing` takes for it, and `JobLeases` below its
checkpoints.
