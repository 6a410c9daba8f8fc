# A formal model of the project memory backend

The backend (`src/backend/app`) keeps, per project, a *belief state*: a JSON document an LLM
synthesizes from the summaries of the project's uploaded documents (the "CAG" half), beside a
Qdrant collection of chunk embeddings (the "RAG" half). `src/eval` measures what the first adds
to the second. This directory models in TLA+ what writes those two, the requests that read them
and change who may, and the evaluation; it checks the models with TLC and proves the central
properties with TLAPS.

## The system

| Component | State it keeps | Operations | Hard because |
|---|---|---|---|
| Upload, ingestion jobs (`services/document.py`, `workers/ingest.py`) | rows `documents`, `ingestion_jobs` (PENDING, RUNNING, COMPLETE, FAILED), `document_summaries` | `upload`, `ingest_document`, `sweep_pending_jobs` | commit and enqueue are two steps; arq re-runs interrupted jobs, drops duplicate ids, cancels at the timeout |
| Vector store (`ingestion/vector_store.py`) | one Qdrant collection per project | `ensure_collection`, `upsert`, `delete_collection`, searches | check-then-act over HTTP by several workers |
| Reindex (`workers/maintenance.py`) | a list of documents in memory | `reindex_project` | deletes what ingests are filling |
| Belief states (`services/cag.py`) | rows `belief_states`, numbered versions, never changed | `synthesize_and_insert`, `rebuild` (compaction, genesis), `insert_version`, `count_pending`, reads | the LLM is awaited between reading and inserting; timestamps are transaction starts; advisory lock |
| CAG jobs (`workers/cag.py`, `workers/ingest.py`, `api/cag.py`) | arq job ids `cag-update-P`, `cag-rebuild-P` | threshold check, `cag_update`, `cag_rebuild`, `cag_weekly_rebuild`, `POST cag/rebuild` | triggers are deduplicated and can be lost |
| Map-reduce, prompts (`workers/cag.py`, `services/cag_prompts.py`) | none | `_hierarchical_reduce`, `_synthesize_prompt`, drift report | loop bounds, budgets |
| Projects (`services/project.py`) | rows `projects`, cascading | create, list, look up, update, delete | check-then-act; the collection is not part of the transaction |
| Accounts, teams, access (`services/auth.py`, `services/team.py`, `core/access.py`) | rows `users`, `teams`, `team_members` | register, login, members, accessible projects | check-then-insert; the scope goes stale |
| Query path (`api/query.py`, `services/query.py`, `retrieval/`) | none | query one project, query all | scope, belief state and collection are read at three moments |
| Rate limiter (`core/ratelimit.py`) | a sorted set per user in Redis | `is_allowed` | check and record are two pipelines |
| Chunker (`ingestion/chunker.py`) | none | `chunk_text` | step = size - overlap |
| HTTP layer, schemas, configuration | none | routing, validation | - |
| Evaluation (`eval/`) | a throwaway project, a retrieval cache, result files | `run_eval`, judge, calibration, report | fails at any step; shares the deployment with its cron; unblinding |
| `frontend/`, `alembic/` | none at run time | - | - |

They interact in one pipeline. A request stores a document and enqueues its job; the job indexes
the document into Qdrant, summarizes it, appends the summary to the event log
(`document_summaries`), checks the threshold against the watermark of the latest belief state
and enqueues `cag_update`; that job, the weekly cron and the admin's request write versions. What
makes each component correct:

* event log: a summary, once there, is never replaced; a COMPLETE job has its summary and points;
* ingestion jobs: none is stuck, none runs twice without a crash;
* belief states: versions are numbered 1..n, nothing is forgotten by a later version, counts and
  watermarks are those of what was folded in, and what is not covered yet is found by the
  watermark;
* CAG jobs: a backlog is worked off, concurrent jobs do not undo each other;
* collection: a reindex leaves every document in it;
* requests: an answer is from what the user could see while the request ran, the limiter lets no
  more through than the races explain, and only a race, a fault or data that cannot be stored is an
  internal error;
* chunking and map-reduce: no word and no summary is lost, the order is kept, the loops end;
* evaluation: the arms differ in the belief state only, scores reach the arm they were given to,
  nothing is left behind.

`PROJECT.json` lists the hazards line by line with the properties aimed at each.

## The modules

| Module | Models | Extends |
|---|---|---|
| `Arq` | the job queue, as the code relies on it: what is known of a job id (external: derived from how the code uses arq) | - |
| `BeliefLog` | abstract: an append-only log of versions of which each remembers its predecessor's | Integers, ... |
| `Coverage` | abstract: how much of the event log the belief state covers, as two counters | Integers |
| `JobLifecycle` | abstract: the job table and the event log as a client of the API sees them | - |
| `CAGService` | `belief_states` and `document_summaries` of one project, the sessions calling CAGService, the ingest transactions | - |
| `CAGServiceProofs` | the theorems about `CAGService` | `CAGService` |
| `CagJobs` | when the CAG jobs run: triggers, job ids, advisory lock, cron, requests, faults | `Arq` |
| `IngestPipeline` | documents from upload to collection and event log; sweep, reindex, project deletion, faults | `Arq` |
| `CagJobsProofs` | the theorems about `CagJobs` | `CagJobs` |
| `IngestPipelineProofs` | the theorems about `IngestPipeline` | `IngestPipeline` |
| `HttpRequests` | the places for requests under way | - |
| `RateLimiter` | the sliding window of one user in Redis, between the requests that use it | `HttpRequests` |
| `Accounts` | users, teams, members, projects, and the requests and workers that change them | `HttpRequests` |
| `QueryPath` | the scope of a user, what it lists and looks up, both query routes; composes the two above | `Accounts`, `RateLimiter` |
| `Chunker` | `chunk_text`, a turn of the loop a step | - |
| `MapReduce` | `_hierarchical_reduce` with its prompts, an answer of the LLM a step | - |
| `EvalRun` | one run of the evaluation with the weekly cron beside it; composes the two above | `Chunker`, `MapReduce` |
| `RateLimiterProofs`, `QueryPathProofs`, `ChunkerProofs`, `MapReduceProofs`, `EvalRunProofs` | the theorems about these | |
| `MCCAGService`, `MCCagJobs`, `MCIngestPipeline`, `MCQueryPath`, `MCEvalRun` | finite instances | |

### CAGService

One step is one SQL statement or one await. `clock` is Postgres' `now()`; `ingest[d]` the start
time of d's open ingest transaction, which becomes `created_at` of its summary (the column's
default is `now()`, which in Postgres is the start of the transaction, and that transaction has
been open since `ingest_document` selected the document). `summaries` and `beliefs` are the
committed rows. A session goes idle -> locked (`AcquireLock`) -> based (`ReadBase`: `get_latest`,
`get_latest_full`) -> drafted (`ReadWindow`: the window, and the LLM's answer) -> numbered
(`NumberVersion`: `max(version) + 1`) -> idle (`CommitVersion`), and may fail at every point
(`FailCall`), which rolls back and frees the lock. The LLM's answer is abstracted to what it was
given: `state` is the set of summaries folded in. Where `ORDER BY created_at` leaves ties, every
cut of a batch is possible. `insert_version` (no worker calls it; a public method with tests)
brings a row of its own. `MaxClock` and `MaxVersions` bound the clock and the versions.

### CagJobs

The event log is a number: summary i is the i-th usable one, versions are the number of the
last summary they cover. The threshold check is three steps (read the watermark, count, enqueue).
A job is queued, taken, waits for the advisory lock, reads its window, commits, returns. Faults
(`IngestFault`, `JobFault`) are an exception, a timeout (the job is over) or a crash (arq queues it
again), at most `MaxFaults` of them; `MaxRequests` bounds the admin's requests. `retries[j]` counts
the crashes, for arq ends a job as failed that it has started `MaxTries` times (arq's `max_tries`,
5 where the code does not set it).

This module assumes creation order is commit order, which `CAGService` shows to be false when
ingests overlap (below): the two modules separate "what a job covers" from "when a job runs".
`Coverage` is what joins them. `CAGService` implements it with `count_pending` and the rows,
`CagJobs` with its counters, so that as long as ingests do not overlap the counters are what the
rows amount to.

### IngestPipeline

`pc[d]` is where the worker is in `ingest_document` of d, `pc[Reindexer]` where `reindex_project`
is, `pc[Deleter]` the deletion request after its commit. `ensure_collection`, `upsert` and
`delete_collection` are the same actions for all of them, each as its check and its act. The points
of a document are written in one call and their ids are a function of document and chunk, so the
collection is a set of documents. `upload[d]` separates the commit of the rows from the enqueue.
Faults, at most `MaxFaults` of them:

* a lost request or sweep;
* an exception of parsing, embedding, Qdrant or Redis: `_mark_job_failed` writes FAILED;
* an error of Postgres (`DatabaseError`), with the commit in hand done or not: `_mark_job_failed`
  (`ingest.py:89-98,197-201`) uses the session of the failed transaction without a rollback, so
  that its own SELECT raises and the row keeps the status it had. The same action covers a
  database that fails in the handler of another exception;
* arq's job timeout, a CancelledError, which `except Exception` does not see;
* a crash or a shutdown of the worker: arq queues the job again, until it has started it `MaxTries`
  times, and then ends it as failed without running it. `retries[d]` counts; those of the reindex
  are not counted: any crash may be its last.

`cutOff` holds the documents whose last run was ended by the database, the timeout or the last of
its tries, so that nobody wrote an end into the row; `crashed` whether a worker ever died. What is
cut off while PENDING the sweep finds again. `keep_result` (an hour) is taken to outlast an upload
request and a sweep: that is the guard of `ForgetResult`.

What all this comes to for the rows is `JobLifecycle`, which knows no queue, worker or sweep:
pending, running, complete or failed, a second start only after a crash, one summary, written while
the job runs, and completion only with it. `IngestPipeline` implements it.

### RateLimiter

`window` is the sorted set of one user: a set of times, since the member is `str(now)` and equal
times are one member. A request takes the time (`CallLimiter`), prunes and counts in one pipeline
(`PruneAndCount`), and records in another (`Record`) or looks up the oldest entry for the header of
its 429 (`ReadOldest`). `clock` may advance between any two of these, so a request may prune with
an old time and `pexpire` counts from a later one. Redis may fail at either pipeline, before or
after its effect: the request is allowed (`FailOpen`). `ExpireKey` is Redis' own. `recorded` is
what was ever recorded, so that what is missing can be told.

### Accounts and QueryPath

A request has a place `at[r]` between two awaits, and a status once it is answered. `Accounts` has
the routes that change something: a first look (`Register`, `AddMember`, ...) and the write, in a
later statement (`InsertUser`, `InsertMember`, ...), where a constraint or a row that is gone can
still refuse it with an exception main.py has no handler for: 500. `data[r]` is what the client
sent: texts the schemas let through and the password hash or Postgres does not, such as a NUL
character in a password, a name or a config, end in a 500 as well (`DataOf`). It also has what the
workers do to collections and belief states meanwhile. Users and teams are never deleted, so that
lookups of them are one step with what follows.

`QueryPath` follows one user, the Asker, of any role (`retired` stands for a role string the enum
refuses): limiter, `get_accessible_project_ids` in its two statements, then the handler: lookup,
list, or a query with belief state, search (`collection_exists`, then `query_points`, for a query
of all projects in any order) and generation. The embedder and Qdrant may fail, which no handler
catches (`SearchFails`); a stored belief state that does not parse is caught on these routes
(`services/query.py:63-71`) and is a query without one. `readable`, `bare` and `since` are
histories kept for the properties: what could be read while the request ran, which collections held
nothing at some time of it, and which versions there were when it began.

The whole is bounded by *scenarios*: a scenario names the kinds of requests, the roles, and how
many requests that read, requests that change and writes of workers there are. Each is explored
from every database the constraints allow.

### Chunker and MapReduce

A text is the number of its words, a chunk the set of positions in it. Size and overlap come from
a project's `config`, which nothing validates: the model takes any of either, negative ones too. A
turn of the loop is a step, so that a loop that never ends is a behaviour that stays in it;
`MaxChunks` bounds how far such a loop is followed.

In `MapReduce` summaries are their positions in the event log, the accumulator is 0, and a digest
is the set of what went into it: the order in the prompt is all that says what is current, so
order is what the model keeps. `tries` counts invalid answers to one prompt.

### EvalRun

`phase` is where `run_eval` is. Its steps are the statements that leave something behind (rows,
collection, points, summaries, the version, the results file) and the calls that can raise;
`Raise` goes where the finally clause goes. The chunking loop and the reduction are the actions of
`Chunker` and `MapReduce`; the latter is shared with the compaction the deployment's cron may run
on the same project (`cron`, one job) under the advisory lock. Documents of `Pinned` have a
`created_at` in the past, as the contradiction pair of the corpus does. Retrieval is
`_deterministic_retrieve` over a Qdrant that may return any non-empty set of what is indexed;
`spy` is `LLMSpy`. The judge sees the two answers in either order; `given` remembers which answer
it gave which score, and `report` is what `aggregate` and `compute_calibration` make of the
results; each of the two undoes the shuffle by itself (`Unblinded`, `JudgeGrades`). One axis of the
three is followed, the constant `Axis`: they differ in what the mock judge says (3 to 3 for
`conflict_handling`). `FinishRebuild` may commit its version and raise, as the commit's answer or
the refresh after it may be lost. `Killed` is a signal to the process.

## What the runs check

All runs are exhaustive. Two or three documents are enough for the races: each is between two
actors (two ingests, an ingest and a job, two jobs), and three summaries with batches of one or
two give a window with a cut, a remainder and a tie.

| Run | Checks | Instance |
|---|---|---|
| `cag_concurrent` | `TypeOK`, `BaseStaysFresh`, `CountIsCovered`, `WatermarkIsNewestCovered`, and that `CAGService` implements `BeliefLog` | 3 documents, 2 sessions, overlapping ingests, equal timestamps, 3 versions |
| `cag_insert` | `VersionsContiguous`, `NoVersionConflict`, with `insert_version` among the callers | 2 documents, 2 sessions |
| `cag_sequential` | `WindowIsUncovered`, `RebuildReadsWholeLog`, and that `CAGService` implements `Coverage`, when ingests do not overlap | 3 documents, 2 sessions |
| `jobs_weekly` | `FirstVersionIsComing`, `EverythingIsCovered`, and that `CagJobs` implements `Coverage` | 3 documents, cron, a request, two faults, two tries |
| `ingest_faults` | `RunningIsInHand`, `FailuresAreCollisions`, `PendingIsRecovered`, `JobsSettle` | 2 documents, two faults of any kind, two tries, no deletion |
| `ingest_reindex` | `CompleteIsRetrievable`, `ReindexRestores`, `ReindexAccountsForLoss`, and that `IngestPipeline` implements `JobLifecycle` | 2 documents, a reindex, a fault of any kind, deletion; the documents are symmetric |
| `requests` | `TypeOK`; of the limiter `OvershootBounded`, `AnyWindowBounded`, `LiveEntriesKept`, `RejectionsAreJustified`; of the writes `OneUserPerEmail`, `InternalErrorsAreExplained`; of the answers `AnswersStayInScope`, `BeliefIsFresh`, `CannedIsTruthful` | 2 places for requests, 3 users, 2 addresses, 2 teams, 2 projects, belief states up to version 2; limit 1, window 5, 7 times; 8 scenarios |
| `eval_run` | `EvalTypeOK`, `NothingLeftBehind`, `OneBeliefState`, `OnlyTheBeliefStateDiffers`, `ScoresReachTheirArm`; of the loops `ChunksCoverText`, `ReductionKeepsOrder`, `ReductionDescends`; and `EveryLoopEnds` | 2 documents (one pinned), 2 questions, the axis `grounding` with scores 2 and 4; texts of 0, 3 and 5 words, sizes -1..3, overlaps -1..3; up to 5 summaries in batches of 2 |

Four properties have no place in a run, since the abstract specification that a run checks says as
much, and fails under the same mutations: that memory never shrinks (`MemoryIsMonotone`) is
`BeliefLog`, that coverage does not (`CoverageNeverShrinks`) is `Coverage`, that summaries stay and
settled jobs are not run again (`SummaryIsImmutable`, `SettledOnce`) is `JobLifecycle`. These four,
and the type invariants of `CagJobs` and `IngestPipeline`, are proved for every value of the
constants (below).

In `requests` two requests at a time are enough for each race, as each is between one look and one
write; three begin in the scenarios of changes, so that a place is used twice.
The scenarios are: queries at the limit while time passes; callers that do nothing but use the
limiter, as often as they like, while time passes; a read among two changes of membership
and a deletion; an administrator's query among the workers; a read of each kind among creations and
deletions, for each role; and three of changes among themselves. Reads and changes are not crossed
more widely, as a read changes nothing another request sees. The bound of `AnyWindowBounded` is 4,
and a window of 5 has five times to hold: the bound can be missed, and is tight, for TLC finds four
entries in a window, twice what `OvershootBounded` allows in the one that ends now.

Two faults and two tries are enough for the ingests: the job can use up its tries, or crash, start
again and then be cut off by the timeout or the database. In `ingest_first` and `ingest_timeout`
`MaxTries` is arq's 5. In `eval_run` a behaviour is of one of three tasks: an evaluation, or a
worker that chunks or reduces with any configuration. Five summaries in batches of two, with an
accumulator, take three levels.

`CHECK_DEADLOCK FALSE` stands where the system really comes to rest: everything ingested, no cron,
every request answered, the evaluation over.

Runs that end in a counterexample, each against a sentence of the docs, comments or tests
(quoted under `findings`):

| Run | What the code does |
|---|---|
| `cag_window_overlap` | of two overlapping ingests the one that started first and commits last is behind the watermark: no update ever covers its summary |
| `jobs_remainder` | `cag_update` re-enqueues its own id while arq still holds it, so the request is dropped |
| `ingest_first` | two first documents race to create the collection and one fails |
| `ingest_timeout` | a timed-out job stays RUNNING |

The models show more of the kind, for which no run is kept. In `cag_window_overlap`'s instance
with compactions, `RebuildReadsWholeLog` fails as well: once a full version is past the stranded
summary, only a genesis rebuild recovers it. In `CagJobs` a threshold crossing that meets a
running update or a kept result is dropped, and without the cron the backlog stays. A rebuild
request is dropped in the same way and answered `queued=True`. In `IngestPipeline` a document
stored and indexed between the reindex's SELECT and its `delete_collection` loses its points,
which is why `CompleteIsRetrievable` makes no claim about points after a reindex;
`ReindexAccountsForLoss` says that this, and what a reindex under way or given up has not reached,
is all that is lost. A FAILED job
is not run again, although `docs/ARCHITECTURE.md:140-142` speaks of marking it FAILED and raising
for an arq retry; and an error of Postgres leaves the job RUNNING, where `RunningIsInHand` and
`JobsSettle` excuse it (`cutOff`) as they do the timeout of `ingest_timeout`.

In the other modules: `OvershootBounded` is not "at most `Limit`", which requests that all count
before any records pass together. A query of a project without a row answers 500 even undisturbed,
since main.py has no handler for the `ProjectNotFoundError` of `services/query.py:60-61`, where
`docs/RULES.md:129` wants a 404; and so does a request with data that cannot be hashed or stored.
`InternalErrorsAreExplained` names these two causes beside the races and the faults, and says that
there is no other. The two statements of the scope see two databases, so that a user can get an
answer from a project that was never in one of his teams at a time he was in it;
`AnswersStayInScope` therefore asks for each half at some time of the request. An overlap as large
as the chunk never ends: no property forbids what the code does there, and `EveryLoopEnds` is about
smaller ones, a negative one leaves words out (`ChunksCoverText` asks for none), and the last chunk
can lie inside the one before. Batches of one would never reduce (the assumption on `BatchSize`).
In an evaluation, an arm answered with the canned sentence reports the tokens of an earlier call; a
genesis rebuild that finds only fallback summaries writes no version, and both arms then answer
without one, unnoticed; the mock judge prefers whatever it is shown first when neither answer is
detailed; a judge that fails twice discards the answers judged before.

Each property of a passing run has a mutant: a changed definition under which the same run fails.
They stand in the modules beside what they mutate, named `<Definition>_<Change>`.

### Fairness

`EvalRun!EvalFairness`: a run goes on by itself, and so does a reduction, as LLM, Qdrant and
Postgres answer or raise; the cron's job finishes what it holds the lock for. Weak fairness is
enough: the cron starts at most once, so the lock stays free once it is. `MCFairness` adds that a
Python loop goes on. `QueryPath` states safety only.

`CagJobs!Fairness`: workers take the two queued jobs and go on with them (nothing is assumed of an
ingest on its way to the threshold check, as its worker may fail); the LLM answers or the job
faults, and faults are bounded; Redis forgets results after `keep_result`; the cron fires every
week. Strong fairness for `ReadWindow`: Postgres grants an advisory lock in the order of the
requests, so a job waiting for it gets it although the other may hold it again and again.
`IngestPipeline!Fairness`: the same, time passes for the sweep's cutoff, the sweep runs every five
minutes, an upload under way enqueues or is lost. Strong fairness for `ForgetResult`: an hour
passes however many sweeps disable it for a moment. Nobody has to upload, request, reindex or
delete: no liveness property rests on a user.

## What is proved

`CAGServiceProofs` proves, for any sets of documents and sessions and any bounds:

* `TypeCorrect`, `VersionsAreContiguous`, `VersionsNeverConflict`, with every caller;
* `MemoryNeverShrinks`, `CountIsExact`, `WatermarkIsExact`, `BaseNeverStale` and `Refinement`
  (the implementation of `BeliefLog`) where only the workers write (`WorkersOnly`: a caller of
  `insert_version` may insert any content, so nothing holds of its rows but their numbers);
* `WindowIsExact` and `RebuildIsWhole` where, in addition, one ingest transaction is open at a time
  and no two start at one time (`SequentialIngest`). Without that premise they are false: run
  `cag_window_overlap`.

The argument is three inductive invariants, stacked. `CoreInv` ties the program counter to the
lock (a session past `idle` is the holder) and a numbered draft to `MaxVersion + 1`; it is needed
because contiguity alone does not say that nobody else inserts between `NumberVersion` and
`CommitVersion`. `MemoryInv` says each row is exact (count, watermark, no fallback), that a draft
remembers all the latest version does, and, for compactions (`CompactionFindsAll`), that what the
versions after the last full one added is newer than that full version's watermark, so that a
window starting there finds it again: this is the clause without which `MemoryIsMonotone` is not
inductive. `OrderInv` says commit order is creation order, from which every version covers all
that was committed up to its watermark. TLC checked each of the three before it was proved. The
assumptions are those of `ServiceAssumption`.

`CoverageRefinement`, under the premise of `WindowIsExact`, maps the rows to the counters of
`Coverage`. By `OrderInv` the window behind the latest watermark is exactly what the latest version
leaves out, so `count_pending` counts it, and `MemoryInv` makes `summary_count_covered` the size of
what is covered. A commit maps to `Update` because between one summary and a batch of them is new
in the draft (`DraftIsABatch`, inductive as nobody else commits under the lock), and to `Rebuild`
since a draft of a rebuild never forgets. Aborted ingests, fallbacks and failing calls stutter.

`CagJobsProofs` proves, for any documents, batch size, threshold and bounds, from
`JobsAssumption`:

* `TypeCorrect` and `CoverageIsMonotone` (`CoverageNeverShrinks`) from `CoverageInv`: arq runs
  what a worker works on (`WorkerIsKnown`), whoever synthesizes holds the lock (`LockIsHeld`), and
  what the holder is about to commit is no less than the latest version (`TargetsAhead`). The last
  is inductive only because the versions are read under the lock: the lemma `WindowEndRange` says
  that a window that is not empty ends no earlier than what is covered at that moment, for a batch
  as for a rebuild, and nobody else commits until the holder does.
* `FirstVersionComes` (`FirstVersionIsComing`) from `TriggerInv` on top of it: an update is never
  asked for before there is something to cover (`TriggersAreDue`), so that before the first version
  it never meets an empty window and only a fault ends it without a version (`UpdatesDeliver`);
  hence a trigger that deduplication drops was dropped in favour of an update still to read;
* `CoverageRefinement`: the jobs implement the `Coverage` that `CAGService` implements. A commit of
  an update is a batch at most and at least one (`UpdateIsABatch`, with `TargetsAhead`).

`IngestPipelineProofs` proves, for any documents, faults and reindexes, from `PipelineAssumption`:

* `TypeCorrect`, which includes that no row outlives its project;
* `CompleteMeansRetrievable` from `CompleteInv`: how far a worker has come shows in the summary and
  the points (`ProgressIsVisible`), and whoever drops the collection does so after a reindex was
  asked for or after the rows are gone (`DropsAreDue`): the order in which `ProjectService.delete`
  does its two steps is what the second half rests on;
* `SummariesAreImmutable`, directly from the steps;
* `ReindexIsWhole` from `ReindexInv`: what the reindex has listed and no longer has to do is in the
  collection, which nobody else empties while the project is there (`CompleteInv`);
* `SettledJobsStay` from `WorkerIsKnown` and `SettledInv`: of a settled job that arq has forgotten
  no request and no sweep is in flight. It rests on the guard of `ForgetResult`, that `keep_result`
  outlasts both;
* `LossIsAccountedFor` (`ReindexAccountsForLoss`) from `LossInv` and `CompleteInv`: what a reindex
  has listed and no longer has to do is in the collection, after it has ended or failed too;
* `StrandedMeansCutOff` (`RunningIsInHand`), its corollary `NoJobIsStranded` (where neither the
  timeout nor an error of the database happens and there are fewer faults than tries, no RUNNING
  job is out of hands) and `LifecycleRefinement`, the implementation of `JobLifecycle`, from
  `LifecycleInv`. Its parts need each other: a worker is at a job only while
  the row says RUNNING (`WorkIsRunning`), a job that was started is not taken, queued or enqueued
  again unless a worker has died (`StartedOnce`, which covers the sweep's stale list), and whatever
  is RUNNING is in arq's hands or was cut off by the end of its last run;
* `OnlyCollisionsFail` (`FailuresAreCollisions`) from `CollisionInv`: without a fault or a reindex
  the collection is there only if some document is in it or about to be, and whoever is about to
  create it has filled nothing. Its corollary `AloneNeverFails` is where the counterexample of
  `ingest_first` ends: a project with one document cannot lose that race.

`RateLimiterProofs` proves, for any limit, window and set of requests, from `LimiterAssumption`:

* `LimiterTypeCorrect`; `OvershootIsBounded`, from `EntriesAndCounted`: the entries of the sorted
  set and the requests that have counted and are yet to record are, together, no more than the
  bound, which alone is not inductive since it does not say what is about to be recorded;
* `LiveEntriesAreKept`, from two facts about time: no entry is from the future, and the key expires
  only when its newest entry has left the window (`KeyOutlivesEntries`), since whoever records sets
  the expiry again from a later clock;
* `RejectionsJustified`, an action property, from the same;
* `EveryWindowIsBounded` (`AnyWindowBounded`) from `LateInv`: a stretch of the past and the requests
  that may still record in it are together within the bound. While the stretch is the window that
  ends now, `OvershootIsBounded` gives the limit and one for each other request; a clock that moves
  on adds to that no more than one for each request whose time lies behind it, and from then on a
  record only moves a request from the one part of the sum to the other.

`QueryPathProofs` proves, for any users, teams, projects, requests and scenarios, from
`AccountsAssumption`, `LimiterAssumption` and `RequestsAssumption`:

* `QueriesUseTheLimiter`: every behaviour of `QueryPath` is one of `RateLimiter`, so that the
  results above hold of the composition (`QueriesOvershootIsBounded` and its three companions);
* `TypeCorrect`, from `TypeInv`, which ties where a request is to what it is about and to its
  status;
* `OneUserPerEmailHolds`, which rests on the unique constraint and not on the look before it;
* `AnswersStayInScopeHolds` from `ScopeInv` (a request holds only projects it could read at some
  time); `BeliefIsFreshHolds` from `FreshInv` (versions only grow while the project is there);
  `CannedIsTruthfulHolds` from `CannedInv` (each project asked about is still to be searched, has
  given a source, or was seen bare);
* `InternalErrorsExplained` from `RaceInv`: as long as nobody disturbed a request, what it looked
  at is still so, and what is left of causes is its own data and a project without a row. The bulk
  of the proof is that each step of another request or a worker is one or the other: it leaves what
  this one looked at, or marks it as disturbed.

`ChunkerProofs` proves `ChunkerTypeCorrect`, `NoWordIsLost` and `ChunkingIsBounded` from
`LoopInvariant`, for any configuration: every word before the window is in a chunk, and with too
large an overlap the window never leaves the beginning, so that the loop does not end and promises
nothing. `MapReduceProofs` proves `ReduceTypeCorrect` and `NothingLostInReduction` for every batch
size above one (`ReduceAssumption`), from `NothingLost` and `PartsInOrder`, which say of the digests
made, of what is left of the level and of the accumulator still to come what the property says of
all three in a row. `ReductionsDescend` (`ReductionDescends`) is the half of termination that a
proof reaches here: each step while the loops go on lowers the digests still to come, shortens the
level, or is the one retry of a prompt, and none ever raises the first of these; with batches of
one it would be false. That the steps are taken is fairness, and stays with TLC (`EveryLoopEnds`).

`EvalRunProofs` proves, for any corpus, questions, scores, human grades and chunking
(`EvalAssumption`), and with the invariants of `Chunker` and `MapReduce` carried along:

* `EvalTypeCorrect`, which includes that there are at most two versions (`VersionInv`);
* `TeardownHolds` from `KnownInv` and `LeftInv`: a run that does not know its project has left
  nothing but rows, and one that knows it ends only by the teardown (`WorkingSteps`);
* `OneBeliefStateHolds` from `LockInv` and `BeliefInv`: the run reduces exactly what is usable
  (`WindowOfDocs`, that a window without repetition is all of its documents), and a version that
  covers all of it leaves the cron nothing behind its watermark (`NothingNew`);
* `EvalReductionsDescend`: the same holds of the reductions inside a run and of the cron's;
* `FairComparison` from `ArmsInv`, and `ScoresHold` from `ScoresInv` and `FileInv`, for every axis:
  shuffling and each of the two ways to undo it are inverse for every result, and a report is only
  made of a whole file.

Only model-checked: every liveness property, as liveness under fairness is out of the prover's
reach: `EverythingIsCovered`, `PendingIsRecovered`, `JobsSettle` and `EveryLoopEnds`. No invariant
and no action property of a passing run is left without a theorem.

## Not modelled, and why

Parsing, embedding, the LLM and the wording of prompts are libraries and services: what matters of
them is whether they answer, fall back, raise or hang. The drift report of a rebuild only logs.
Passwords and tokens are a request that is refused or not; login and `/me` only read (a password
with a NUL character makes login's verification raise, too, which is left out with it). The other
routes, schemas and configuration hold no state; the migrations and the frontend are not part of
the running system (what the migrations leave is where the models begin: empty tables and their
constraints). The advisory lock's key is a 32-bit hash of the project: a collision makes two
projects wait for one another and is left out. So is the number in a 429's `Retry-After`. Of the
evaluation, a second run in the same second (run ids are seconds, and the results file is looked
for before it is written), questions with one text (which would share a cache entry) and the
wording of the report are left out.

## Plan

All components with state of their own are modelled. What would add most next:

1. How far `Coverage` can be kept when ingests do overlap: a bound on what is stranded, with the
   threshold of `CagJobs` in the same model.
2. A second evaluation beside the first, which starts in the same second.
3. The safety half of the other liveness properties, as `ReductionDescends` is of `EveryLoopEnds`.
