# ContextForge in TLA+

TLA+ models of this repository (`context-forge`, the "Akasha" memory service),
the TLC runs that check them on small instances, and TLAPS proofs of what can
be shown for every instance. Every definition is translated from the source;
`PROJECT.json` names the lines each one stands for.

Contents: [the system](#the-system) · [modules](#modules) · [the canonical
index](#the-canonical-index) · [records and reindex](#records-and-reindex) ·
[compaction](#compaction) · [retrieval](#retrieval) · [requests](#requests) · [goal
runs](#goal-runs) · [process lifecycle](#process-lifecycle) · [rate
limiter](#rate-limiter) · [proofs](#proofs) · [disagreements](#where-code-and-documentation-disagree) ·
[not modelled](#not-modelled) · [plan](#plan)

Run from this directory: `tlc -workers 2 -config ingest_serial.cfg
MCCanonicalIndex`, `tlapm CompactionProofs.tla`.

## The system

A service stores "memory records" of AI coding agents in Postgres and indexes
their text in a vector store (Qdrant, or pgvector tables). Postgres is the
truth; the vector store is derived, is written without a transaction that spans
both, and so is where things go wrong. Requests arrive through MCP or HTTP on
any number of replicas; a worker process (or the server itself) runs the
sweepers. Nothing but Postgres is shared between replicas.

| Component | State | Operations | Correct when | Status |
|---|---|---|---|---|
| Canonical write path (`store/canonical-indexing.ts`) | `memory_records`, `memory_chunks`, `ingest_jobs`; vector points | add, update, tag, delete | an acknowledged record's points are its chunks'; what a failure or crash leaves unfinished, a job is scheduled for | `CanonicalIndex` |
| Ingest job repository, ingest sweeper (`jobs/`, `compact/ingest-sweeper.ts`) | `ingest_jobs.qdrant_*` | create, mark, claim, sweep | every scheduled job settles; it is given up at the cap, not before and not after | `CanonicalIndex` |
| Compaction (`compact/apply-compaction.ts`) | `compaction_runs`, `memory_archive` | plan, apply | an archived record is restorable, its points go; a completed run's count is right; no content is lost to a pair of duplicates that archive each other | `Compaction` |
| Outbox sweeper (`compact/outbox-sweeper.ts`) | `memory_archive.qdrant_*` | claim, sweep, mark | listed points are eventually deleted or the row is given up | `Compaction` |
| Unarchive (`compact/unarchive-compaction.ts`) | as above | restore, compensate | a restore is all or nothing; what it made can be found | `Compaction` |
| Vector index (`vector/`) | points | upsert, delete by id, delete by record, search | what the port's two adapters send; the store itself is external: each call takes effect, does nothing and throws, or takes effect and throws | `VectorStore`; calls in the modules above |
| Goal runs (`goal-run/`) | `goal_runs`, `goal_run_iterations`, `memory_records.goal_run_id` | start, record, close, get | indexes consecutive, none after the close; a run's memories are pinned | `GoalRuns` |
| Record repository (`store/memory-repository.ts`) | `sources`, `memory_records`, tags, `entities`, mentions, relationships | add, update, archive, delete, inspect the graph | the graph is that of the text; an update changes what it names; transactions that wait for each other end | `Records`, `Reindex` |
| Reindex (`store/canonical-indexing.ts`) | reads chunks, rewrites points | two passes over pages | no vector of a live record is lost, whatever writes meanwhile | `Reindex` |
| Chunking (`chunk/chunk-text.ts`) | none | `chunkText` | every token of a text is in a chunk | `Chunking` |
| Sweeper loops, worker, server lifecycle (`app/`) | timers, in-flight ticks, memoized promises | start, tick, schedule, stop, close | no tick after stop, services closed once and after the ticks, a signal ends the process | `ProcessLifecycle` |
| Service bootstrap (`mcp/canonical-services.ts`) | a memoized promise | resolve | a failure is not remembered, concurrent first calls share one pool | `ProcessLifecycle` |
| Rate limiter (`app/middleware/rate-limit.ts`) | token buckets | check, sweep | forgetting a bucket is not observable; a refusal tells the wait to the millisecond | `RateLimiter` |
| Operator HTTP server, MCP endpoint, stdio (`app/server.ts`, `app/mcp-http.ts`, `mcp/`) | sessions, response counters, audit records under way | receive, authenticate, read the body, call, settle, close | every request is answered, counted once, audited, and its session closed | `Requests` |
| Authentication, organization resolution (`app/middleware/`) | memoized key sets of issuers | verify, resolve | a call acts for the organization granted, with a scope for what it does; a good credential is refused only for an outage | `Requests` |
| Retrieval, ranking, context packs (`search/`, `context-pack/`) | a search's locals, `context_pack_runs` | query, hydrate, rank, deal out | only rows asked for, as they were committed; a clear order stays one | `Retrieval` with `Ranking`, `ContextPack` |
| Audit log, metrics, health, schemas, prompts | - | observation | the record and the counter of a request | partly, in `Requests` |
| CLI, configuration, project ingest, migrations, embedding providers | - | I/O, pure formatting, external | - | not modelled, or a verdict in the modules above |

How they interact: a request handler writes Postgres, then the vector store,
then Postgres again, one `await` at a time. The ingest sweeper claims jobs that
the handlers left scheduled; handlers and sweepers write the same rows without
a lock that spans a vector call. Compaction deletes records (chunks and jobs
cascade) and leaves an outbox in `memory_archive`, which the outbox sweeper
drains; unarchive copies an archive row back into a new record and indexes it
with the same calls. The hard behaviours are therefore the interleavings of
handlers and sweepers on one record, a claim whose visibility timeout expires
while its holder still works, exceptions and lost replies in the middle of a
sequence, the compensations in the `catch` blocks, and crashes between two
awaits.

## Modules

| Module | What it is |
|---|---|
| `CanonicalIndex` | the canonical store and its vector index under add, update/tag, delete and the ingest sweepers |
| `CanonicalIndexInvariants` | inductive strengthenings of its safety invariants |
| `CanonicalIndexProofs` | theorems about `Spec` and `SerialSpec`, for every value of the constants |
| `Records` | the record repository's transactions, statement by statement, with row locks and the entity graph |
| `Chunking` | `chunkText` as a recursive function over token positions |
| `Reindex`, `ReindexProofs` | `Records` and `Chunking` composed with the index a write, an update, a delete and a reindex keep, and with `inspect_memory_graph`; theorems |
| `Compaction`, `CompactionProofs` | compact, its outbox and sweepers, unarchive, and updates beside them; theorems |
| `VectorStore` | the vector index port: points, filters and what its two adapters send |
| `Sorting` | sequences by the place of their elements in an order |
| `Ranking`, `ContextPack` | the scores and the order of a search, the sections of a context pack: operators, no state |
| `Retrieval`, `RetrievalProofs` | a search as four reads of stores that change in between; theorems |
| `Requests`, `RequestsProofs` | a tool call's way through REST, MCP over HTTP or stdio: authentication, organization, scope, call, audit, answer; theorems |
| `GoalRuns`, `GoalRunsProofs` | the transactions of goal runs under Postgres's row locks, and compaction's pin; theorems |
| `ProcessLifecycle`, `ProcessLifecycleProofs` | a server or worker process with its background workers, sweeper loops and bootstraps; theorems |
| `TokenBucket` | abstract: buckets that refill all the time and are never dropped |
| `RateLimiter`, `RateLimiterProofs` | the limiter as it is coded, an implementation of `TokenBucket`; theorems |
| `MCCanonicalIndex`, `MCCompaction`, `MCGoalRuns`, `MCReindex`, `MCRequests`, `MCRetrieval` | symmetry, workloads, corpora and requests for the `.cfg` files; the other runs need none |

`Reindex` EXTENDS `Records` and `Chunking`, and `Retrieval` EXTENDS `ContextPack`,
`Ranking` and `VectorStore`: each of these is one state machine made of parts, and
both sort with `Sorting`.
Between the others the seams are these. `ProcessLifecycle` and `CanonicalIndex`/`Compaction` meet in the sweeps: what a
sweep does to the stores is in the latter, when one may run and what it may
still use is in the former. `GoalRuns` and `Compaction` meet in the listing of
a scope, which appears in both, in `GoalRuns` with the pin only. `Requests`
treats a handler as a call with an outcome; the other modules are what such calls
do. `Reindex` and `CanonicalIndex` both index a write: `CanonicalIndex` has the
ingest jobs, their sweepers and crashes, `Reindex` the transactions, the pages and
the graph, and there a job left pending is where a retry would start.

Conventions in all of them. Each `await` that reads or changes shared state is
one action, so that other actors may act between any two. A `try` that can
throw at a step is a disjunct of that step which goes to the catch block
(`Throw`, `RestoreThrow`, ...). What may go wrong is the constant `Faults`:

- `embed`: the embedding client throws;
- `vector`: a vector call throws and did nothing;
- `lostAck`: a vector call takes effect and throws;
- `db`: a Postgres statement throws and did nothing (in `Compaction` the
  statements of a restore and of its compensation have kinds of their own,
  `restore` and `undo`, so that a run may let one fail and not the other);
- `crash`: a process stops and loses its locals. Counted, at most `MaxCrashes`.

A statement that took effect and whose reply was lost is modelled for the vector
store only. A call that threw has no effect after the exception. Operators whose
comment begins with "Mutant" are faulty variants of the operator after them;
no specification uses them, each shows which bug a property would notice.

## The canonical index

State. `record` is `memory_records`: whether the row exists, whether its
durability is `archived`, and the version of its content. A *chunk set* is all
the rows one `insertChunks` stores, and the points of those rows: every call
reads, writes or deletes them together (`stored`, `pointIds`, `points` say which
sets have rows, rows with `qdrant_point_id`, and points). `job` is `ingest_jobs`;
`retry` is `qdrant_next_retry_at`: NULL, in the future, reached. `client` and
`sweeper` are the locals of requests and of sweeps.

| Actions | Code |
|---|---|
| `AddMemory`, `CreateJob`, `InsertChunks`, `WriteAhead`, `Embed`, `Upsert`, `UpdatePointIds`, `MarkQdrantCompleted`, `MarkCompleted`, `DeleteOwnPoints`, `EraseRecord` | `writeCanonicalMemory` and its catch block |
| `ReadForUpdate`, `CommitUpdate` | `updateMemoryRecord`: the read without a lock, the write of every column |
| `Embed`, `ReplaceChunks`, `DeleteVectors`, `Upsert` ... `DeleteOwnPoints`, `MarkRetry` | `refreshCanonicalMemoryIndex` and its catch block |
| `ArchiveRecord`, `DeletePoints` | `delete_memory` (`mcp/tool-handlers.ts`) |
| `Claim`, `SweepNext` (with `LoadChunks`), `SweepEmbed`, `SweepDeleteVectors`, `SweepUpsert`, `SweepPointIds`, `SweepMarkCompleted`, `SweepRetry` | `runIngestSweep`, `sweepRow`, `handleRowFailure` |
| `Elapse`, `Crash` | a retry time or a claim's visibility timeout is reached; a process stops |

Abstractions. Content is a version number; a record has at least one chunk
(empty content, for which the write-ahead is skipped, and updates of the title
or importance only are not modelled). A claim takes any non-empty subset of the
due jobs up to `SweepBatch`: the order is not promised to be more than that.
The `durability` column is written back as it was read. The secret scan runs
before any store is touched and is left out.

| Run | Instance | Shows |
|---|---|---|
| `ingest_concurrent` | 2 requests, 1 sweeper, 1 record, 2 chunk sets, versions up to 2, cap 2, 1 crash, all faults, symmetric clients; 1.8 million states | one chunk set per record and none of a record that is gone; points only behind a write-ahead |
| `ingest_serial` | 1 request, 1 sweeper, 3 chunk sets, 3 versions, 2 crashes, all faults, `SerialSpec`; 0.56 million states | an acknowledged, settled record's index is exact; a successful delete leaves no point |
| `ingest_sweepers` | 2 sweepers that share a job, all exceptions, `FairSpec` | exactly `MaxAttempts` counted failures; every scheduled job settles |

Why the bounds suffice. All invariants speak of one record, and actors of
different records share only the claim, whose batch `ingest_serial` lets hold
two jobs. Two requests and a sweeper are the three parties that can meet on a
record (write, refresh, repair); two chunk sets and two versions let one
replace the other, three let a repair follow. A cap of 2 has a retry and a
give-up. `OneChunkSetPerRecord`, `WriteAheadOrder`, `GiveUpBound` and `TypeOK`
do not rest on the bounds at all: they are proved.

`SerialSpec` is `Spec` restricted to steps after which no two operations overlap on
a record (`NoOverlap`). The code does not enforce that; with overlaps the two
properties are false (`drift_refresh_race`), so these two are what crashes and
exceptions alone cannot break. Steps that would overlap are excluded, never
steps of an operation under way: a sweep that is about to claim a job whose
record is being written waits.

Fairness (`ingest_sweepers`): requests and sweepers go on (an await returns or
throws, the loop sets its next timer in `finally`, a stopped process is
restarted by its supervisor) and time passes, weakly. Strong fairness only for
"a mark of a failed attempt that Postgres accepts": `handleRowFailure` swallows
the exception of its own mark, and no sweeper can make progress against a
database that refuses that one statement for ever.

`CHECK_DEADLOCK FALSE` here and in every other run: with no work left the system
rests, and ids, runs, bootstraps and time are bounded.

## Records and reindex

State. `records`, `sources`, `entities` are the committed rows of the repository's
tables; a row carries its tags, mentions and relationships, which nothing reads
without it. What a transaction has read and is about to write is `tx`, the rows it
has locked are `held`. `chunks`, `points`, `jobs` are what `Reindex` adds: the rows
of `memory_chunks` with the interval of tokens each spans, the vectors, and the
ingest jobs that are not completed. `work` is a client's page and cursor, `view`
the answer of `inspect_memory_graph`.

| Actions | Code |
|---|---|
| `AddMemory`, `WriteSource`, `LockEntity`, `Commit` | `addMemory`: the source by its key, the record, its entities, COMMIT |
| `ReadForUpdate`, `UpdateRow`, `LockEntity`, `Commit` | `updateMemoryRecord`: the read without a lock, the UPDATE of every column, the graph rebuilt |
| `ArchiveRow`, `EraseRow` | `archiveMemoryRecord`, `deleteMemoryRecord` |
| `StatementFails`, `BreakDeadlock`, `Abort` | a statement throws, Postgres breaks a ring of waits: ROLLBACK, release |
| `InsertChunks`, `ReplaceChunks`, `ClearOwn`, `SkipRefresh`, `Upsert`, `UpdatePointIds`, `IndexFails`, `InsertRefused` | `writeCanonicalMemory` and `refreshCanonicalMemoryIndex` once the transaction has committed |
| `ArchiveRecord`, `DeletePoints`, `DeleteFails` | `delete_memory` |
| `ListToClear`, `ClearPage`, `ListPage`, `UpsertPage`, `UpdatePageIds`, `ReindexFails` | `reindexCanonicalMemory`: the pass that deletes and the pass that embeds and upserts, page by page |
| `InspectEntities`, `InspectRelationships`, `InspectFails` | `inspectMemoryGraph`: its two statements |
| `ExtractEntityMentions`, `RelationshipsOf`, `chunkText` | pure functions of a text |

Abstractions. A text is a name; `EntitiesOf` says which entities its patterns
find and in which order, `FoundBy` which of the six patterns finds one (two of them
find dates), `TokensOf` how long a text is. Titles, summaries, importance
and the evidence of a relationship are left out, and so are the order within
equally often mentioned entities (any) and which relationships a limit keeps
(any). A client makes one call. READ COMMITTED is modelled by what each statement
sees; a record inserted by a transaction under way is nobody's to lock.

`reindex`: three stored records, one of them restored from the archive, any two of 15
calls and seven choices of three, pages of two chunks for a record of three, every
statement and vector call may throw; 165 thousand states. Two calls meet on a row, an entity, a source or a
page; the third one is there for rings of waits and for a reindex that meets both
an update and another reindex. Six tokens in windows of three that overlap by one
are two full windows and a tail; three tokens are one window and none.

| Property | Says |
|---|---|
| `GraphMatchesRecord` | mentions and relationships are those of the text that stays, whichever updates overlapped; a restored record has none until it is updated |
| `UpdatesOnlyWhatItNames` | an update that commits on the row it read changes what its call names; tags stay in any case |
| `ReindexLosesNothing` | each chunk of a live record is in the index, and each token of its text in one of them, whatever the reindex overlapped |
| `GraphViewHangsTogether` | the answer of two reads is consistent for the records that did not change between them |
| `EveryCallSettles` | no transaction waits for ever |

Fairness: each client's `Step`, weakly: a statement that no lock holds up is run, a
vector call is answered, and `deadlock_timeout` breaks rings. The faults are a
disjunct of `Next` of their own (`Fault`) and never due: a transaction that waits need
not fail, so locks that are not released, or a ring that is not broken, hold it up for ever.

What the properties except is what the code does not give: two refreshes of one
record may lose vectors (`drift_refresh_race` is the case of it), an update that
committed in between may get its old text back, an update that overlaps
`delete_memory` can take the record out of `archived` again, two adds with one new
source key insert two sources, `restoreToCanonical` inserts a row without a graph, which
the next update of it makes up for, and an update of a source's uri is lost to an add
that read it before. A reindex lists the chunks of archived records too, and so
puts their vectors back; a search does not return them.

## Compaction

State. `record` (existence, content as far as `normalizeContent` tells contents
apart, importance, `updated_at`), `index` (none, rows, rows with point ids),
`points`, `archive` (`memory_archive`, a row per archived record), `run`
(`compaction_runs`) and the locals of compactors, sweepers, unarchivers and
updates. `clock` is the instant timestamps are taken from.

| Actions | Code |
|---|---|
| `ListMemory`, `StartCompaction`, `CountRecentApplyRuns`, `CreateCompactionRun`, `ApplyCompactionRecord`, `MarkVacuouslyDeleted`, `CompactDeletePoints`, `MarkDeleted`, `MarkPending`, `CompleteRun` | `compact_memory` with `dryRun: false`, `applyCompaction` |
| `ExactGroups`, `Representatives`, `SemanticGroups`, `Keeper`, `CollectCandidates` | `findExactContentDuplicates`, `findSemanticDuplicates`, `collectArchiveCandidates` |
| `ClaimCleanup`, `SweepDeletePoints`, `SweepMarkDeleted`, `MarkRowFailure` | `runOutboxSweep` |
| `FindArchiveByIds`, `RestoreToCanonical` ... `MarkUnarchived`, `UndoPoints`, `UndoRecord` | `unarchiveMemory`, `restoreOne`, `compensateFailedRestore` |
| `BeginUpdate`, `CommitUpdate` | an update's transaction: `updated_at` is taken at its beginning |
| `RetryTimeReached`, `HourPasses`, `Crash` | time; a process stops |

Abstractions. One organization and scope. Candidates are archived in any order.
Similarity of vectors is the relation `Similar` on contents; an embedding that
fails leaves the run without any group. Which records have decayed is any subset of those listed (the half-life
arithmetic decides it in the code). `retry` says what `qdrant_next_retry_at` and
the 60 s since `archived_at` say together. The clock is logical and strictly
increasing: the skew between the application's clock and the database's, and
milliseconds against microseconds, are not modelled. An update's refresh of the
index is `CanonicalIndex`'s matter. The idempotency key is a fresh UUID for each
call, so its replay branch is unreachable. Records with durability `archived` are
not in `Init`, records come from `Init` and from restores.

| Run | Instance | Shows |
|---|---|---|
| `compaction_outbox` | 2 records, 1 run, 1 sweeper, cap 2, 1 crash, `vector`, `lostAck`, `db`, `crash`, `FairSpec`; 0.24 million states | rows say `deleted` only when the points are gone; given up only at the cap; completed runs count their rows; the outbox drains |
| `compaction_unarchive` | 2 records to begin with and a restore, 2 runs, an update, a request for both rows in the order given, two contents that are similar, `embed`, `restore`, `vector`; 1.8 million states | an unarchived row has a searchable copy; duplicates never consume each other; a row marked `deleted` stays right while its record's copy is restored and archived; a failed restore leaves nothing |

Why the bounds suffice. A run and a sweeper disagree about one row; two rows
make a batch, with a mark that fails on the second. Two duplicates, exact or
similar, an update, a restored copy and two runs are what a chain of kept
records needs to close, and what a run needs to archive a copy whose restore is under
way. Restores have one unarchiver and no sweeper beside them in TLC's run: `DeletedIsTrue`
and `FoundAgain` hold for any number of either, of crashes and of ids given twice,
`NothingLeft` for any number of either and of ids given twice.

What restores do not keep is told by the properties. `DeletedHasNoPoints` speaks of a row
that listed point ids, or whose record is no copy: a copy archived before its restore
wrote the ids is marked `deleted` at once and gets its points later.
`FailedRestoreLeavesNothing` holds where an upsert that throws did nothing and where the
process and the compensation survive, beyond which no document promises anything; the
record and its chunks are gone even when such an upsert had taken effect (`NoCopyLeft`).
A row can have several live copies, of which no property speaks: the rows are read once
and `markUnarchived` is unconditional, so that an id given twice, two overlapping calls,
or a crash before the mark and a second call all restore it twice.

Fairness is that of the ingest sweepers. Compactors, unarchivers and updates
need none: the outbox drains although a run stops half way.

## Retrieval

State. `rows` and `points` are the stores, `projectHits`, `userHits`,
`lexicalRecords` and `hydrated` what a search has read of them, `result` its
answer, `packRuns` the rows of `context_pack_runs`. `current` and `touched` are
history variables: every unarchived row there was since the search began, and the
records written, or whose points were, since then.

| Actions | Code |
|---|---|
| `BeginSearch` | `assertRetrieveMemoryInput`; a search without an organization only where the operator allows it |
| `QueryProject`, `QueryUser`, `QueryLexical` | the `Promise.all` of `retrieveMemory`: the three come back in any order |
| `Hydrate`, `Rank` | `getMemoryRecordsByIds`; `scoreSearchResult`, `rankCandidates` and the cut |
| `CreateContextPackRun` | `buildContextPack`, `createContextPackRun` |
| `EditRow`, `ArchiveRow`, `DeletePoints`, `UpsertPoints` | what other requests may do meanwhile, one statement or call each |
| `Query`, `Upsert`, `Matches`, `Accepts` (`VectorStore`) | `qdrant-index.ts`, `pgvector-index.ts` |
| `LexicalScore`, `FusedScore`, `TotalScore`, `Ranked` (`Ranking`) | `lexical-score.ts`, the fusion of `retrieve-memory.ts`, `rank-results.ts` |
| `BuildContextPack` (`ContextPack`) | `build-context-pack.ts` |

Abstractions. A text is what a query finds in it (terms, occurrences, phrase,
headline, entities, the rank of Postgres's full text search, the similarity of
each chunk). Scores are rationals made integer by `Scale`: rounding errors of
the code's floating point are not modelled. The text of the
markdown is left out but for which row is in which section and in which order.
Where the stores promise no order, the model fixes one.

`retrieval`: 32 corpora of three rows (projects and users, another organization,
good and bad matches by vector, by text or by both, new and old), 8 requests,
two writes anywhere in between, each await may throw, and a vector store that may
ignore the organization filter; 512 thousand states. Two writes are an edit and
its vectors, or an archive and its deletion, in each order against the four
reads. Three rows with a limit of two have an overflow. `RankedByDominance`
compares pairs, and two rows with a third to shift ranks are enough to turn a pair
around. There is no liveness: a search is a sequence of awaits.

## Requests

State. `config` is the configuration of the process, `serving` whether it has come
to listen; `jwks` the issuers whose key set is memoized, `reachable` those that
answer; `bucket` the rate limiter's tokens. For each client: `phase` (between
which awaits it is; "answered" is a response that was written, "finished" one that
was sent), `request`, `auth`, `tried` (the metadata URLs its discovery has fetched),
`acting` (the organization its call acts for), `session` (an MCP server and transport),
`answer`. `counted` is the histogram of requests, `audit` the records under way or
settled, `connected` the clients that have not left. `missed` is history: the clients
of whom a fetch of their issuer's document or keys met an outage.

| Actions | Code |
|---|---|
| `Start` | `assertSafeAuthConfig`, `listen` |
| `Receive` | `createRequestListener` up to the first await: routing, probes, authentication by a static token, rate limit |
| `DiscoverJwks`, `VerifyJwt` | one fetch each: of the next metadata URL (`getJwks`, `discoverJwksUrl`), of the keys (`verify`) |
| `ReadBody`, `CallRoute`, `CallTool`, `ClientAnswers` | the body, the REST route or the MCP session, an elicitation |
| `ToolSettles`, `AuditSettles` | the instrumented handler ends; its audit record is written or lost |
| `Finish`, `Disconnect` | the response's `finish`, on which it is counted, and `close`; the client leaves, `close` without `finish` |
| `IssuerDown`, `IssuerUp`, `Refill` | an issuer goes out of reach; tokens come back |

Abstractions. What a JWT is worth is a verdict (`Claims`), a schema is a verdict on
the input, a handler is an outcome, and a fetch is the moment at which the other side
answers it or does not. A client makes one request. Static pages, wording, CORS and
the content of probes are left out.

`requests`: one client with 88 kinds of request (REST, MCP, stdio and public
pages; tokens bound to an organization, unbound, JWTs with and without scopes; the
organization in header, body or both, with spaces, blank, twice; malformed and
oversized bodies), a second client that competes with it, five configurations, an
issuer with three metadata URLs of which the second holds the document, one outage; 500
thousand states. An outage at the second URL refuses a good JWT, one at the others does
not, and the second client finds the keys memoized, or discovers them as well. Clients
meet only in the issuer's keys, the limiter and the counters, where a second one is
enough.

Fairness: a request's next step, the `finish` of a response whose client stays and the
INSERT of its audit record, weakly. A probe has a timeout of ours, a fetch and an
elicitation one of their library, and a query none: it ends because Postgres answers
(`db/connection.ts` sets a timeout for connections only). Nothing is assumed of clients
leaving, issuers or `GET` streams: a stream is never counted and ends with its client,
and `EveryRequestSettles` excepts a request without a body whose client left during its
authentication: its session stays open.

## Goal runs

State. `goalRun`, `iteration`, `memory` are the committed rows of `goal_runs`,
`goal_run_iterations` and `memory_records.goal_run_id`. What a transaction has
written and not committed is in its recorder's locals, together with the rows it
has locked.

| Actions | Code |
|---|---|
| `Start`, `CloseRun` | `start`; `complete` and `abandon` (one statement each) |
| `RecordIteration`, `Bump`, `InsertIteration`, `LinkMemory`, `Commit`, `RecordFails` | `recordIteration`, statement by statement |
| `RunLocked`, `MemoryLocked`, `DeadlockDetected` | Postgres: row locks of an open transaction, its deadlock detection (external) |
| `GetRun`, `GetIterations` | `get`: two statements without a transaction |
| `ListMemory`, `ApplyCompactionRecord`, `CompactionEnds` | `compact_memory`, as far as the pin goes |

Abstractions. Completed and abandoned runs are both `closed`: nothing tells them
apart. Texts, outcomes and organization checks are left out. The linking UPDATE
visits its rows one at a time, in any order. A statement that throws aborts its
transaction, which frees its locks there and then, so that the ROLLBACK is no
step; a process that stops is a statement that throws. The row locks of updates and
deletes by other tools are not modelled. `linkedBy` and `since` are history
variables. Listing and the goal context pack change nothing.

`goal_runs`: 2 runs, 2 records, any set of memory ids, 2 recorders, a reader, a
compaction, up to 3 iterations, every statement may throw; 471 thousand states.
Two transactions are enough for every conflict and for the shortest cycle of
waits, two records for opposite orders, three iterations for a reader that is
overtaken twice. There is no liveness: who waits for a lock waits for Postgres.

## Process lifecycle

State. `kind` says whose process it is. `opened` and `open` count the Postgres
pools that have been created and those not ended; `boot` and `services` say who
bootstraps with which pool, and who was given which. `workers` is how far
`startBackgroundWorkers` and the handle's `stop` are, `loop` the closures of the
two sweeper loops (`timer`, `inFlight`, `stopped`), `call` the tool calls, `stream`
the open `GET /mcp` event streams,
`cleanup`, `signaled` and `exit` the way out.

| Actions | Code |
|---|---|
| `RunMigrations`, `EnsureCollection` | `bootstrapCanonicalServices`, its two awaits |
| `Request`, `CallEnds` | `withCanonicalServices`: the memoized promise |
| `StreamOpens`, `ClientLeaves` | `handleMcpHttpRequest` of a GET, the response's `close` |
| `StartLoops` (in `EnsureCollection`) | the rest of `startBackgroundWorkers`, which has no await but `close` |
| `Tick`, `SweepEnds` | `tick` and `schedule` of both loops |
| `Listen`, `ListenFails`, `Signal`, `HttpClosed` | `startOperatorServer`, the signal handlers of `server.ts` and `worker.ts`, `closeOperatorServer` |
| `StopWorkers`, `CloseServices`, `CleanupDone`, `Exit` | `stopStartedWorkers`, `cleanup`, `process.exit` |

Abstractions. JavaScript runs to the next await, so an action is everything up to
it. Promises of `stop` and `cleanup` are memoized, which makes each of them one
sequence however often it is asked for. The pool of the probes ends as part of
`CleanupDone`. `pool.end` throws only when called twice, which the memoization
excludes. A server that is closed while its `listen` is under way does not come
to listen (Node). What metrics or loggers might throw inside a tick, a second
signal of the same name, which kills a worker by Node's default, and the stdio
server are not modelled. The tool calls' pool is never ended before
`process.exit`, as in the code.

`lifecycle`: both kinds, both loops, 2 calls, a stream, 3 bootstraps, every start-up step may
fail; 2075 states. Two calls make a first and one that waits for it, two loops
one that is sweeping and one that is not when they are stopped, three bootstraps
one of the workers and a failed and a repeated one of the calls.

Fairness (`FairSpec`): sweeps, calls and bootstraps end, by a result or by an
exception, because their clients have timeouts, and the shutdown goes on. No
timer, call or signal is assumed to come, and no client to leave its event stream: `server.close`
waits for it, nothing on the server ends it, and `closeAllConnections` is not called. With it a
process that was signaled exits once no stream is open (`ShutdownCompletes`); a client
that stays keeps a server from exiting, until whoever sent the signal kills it.

## Rate limiter

`TokenBucket` is the promise made at the head of `rate-limit.ts`: a bucket per key,
full at first, into which tokens flow every millisecond; a request takes one or
is refused. `RateLimiter` is what is coded: a map of buckets which are refilled
when their key asks, and a sweep that drops those untouched for a window. It
implements the promise with `level <- [k \in Keys |-> Level(k)]`, where
`Level(k)` is what the bucket holds and the exact refill it has not been given yet, or
a full bucket for a key the map does not know. A millisecond maps to a millisecond,
`Allow` and `Refuse` to those of the promise, the sweep within them to nothing at all. `check` is
synchronous, and so one action.

Rounding. The code computes with doubles: a rate, a product, a sum, a difference and a
quotient. Each refill is therefore any whole number of units within `Rounding` of
the exact value (`Refill`), each wait the ceiling of a quotient whose numerator is as
far off (`RetryAfter`), and the errors of a key's checks add up, as they do in
the code. A refill in the millisecond of the last one adds 0 and is exact, as is taking a
token. A token is `WindowMs * Grain` units: with `Grain` a large enough power of two
every amount a double holds is a whole number of units, so that the theorems,
which are for every `Grain` and `Rounding`, speak of the code. `LimiterAssumption` asks that a
millisecond's refill is at least two errors; with a window of 60000 ms it
is about ten billion times that. The promise
has the same rounding, once for each check of the key, and none for any other key: a
sweep, the time that passes and other keys' requests change nothing. So a
bucket may not be dropped a millisecond early, but over
some ten billion checks a key's bucket may come to be off by a millisecond's refill.

`now()` does not step back (see the hazards). The header's rounding to
seconds is left out. `readyAt` is a history variable: when a refused key was told
to come back.

`rate_limiter`: 2 keys, capacity 3, window 4, 12 ms, errors of a twelfth of a token; 423 thousand states. 4/3 of
a millisecond per token makes waits that need rounding up; 12 ms hold three
windows, so that a bucket is dropped, renewed and kept; two keys, because a sweep
happens in the check of another key. The proofs do without these bounds.

To the letter, "compute when the next token will be available" (rate-limit.ts:91-92) is
not kept: a key can be refused at the very millisecond it was told. `WaitAsTold` is what
holds instead.

## Proofs

For every value of the constants, from the assumptions the modules name (which
TLC evaluates in each run). A `TypeOK` that is proved is in no `.cfg`: a run spends its
time on what could fail.

| Module | Theorem | States | Along |
|---|---|---|---|
| `CanonicalIndexProofs` | `TypeCorrect` | `Spec => []TypeOK` | `TypeOK` is inductive: it says which locals an actor has at each step |
| | `GivesUpAtBound` | `Spec => []GiveUpBound` | `GiveUpInv` |
| | `OneChunkSet` | `Spec => []OneChunkSetPerRecord` | `StoreInv` |
| | `PointsAfterWriteAhead` | `Spec => []WriteAheadOrder` | `WriteAheadInv` |
| | `AcknowledgedIsIndexed`, `DeletesCompletely` | `SerialSpec => []AcknowledgedIndexed`, `SerialSpec => DeleteLeavesNoPoints` | `SerialInv` |
| `CompactionProofs` | `TypeCorrect` | `[]TypeOK` | `TypeOK`, and that a group of duplicates has one to keep |
| | `GivesUpAtBound` | `[]GivesUpAfterMaxAttempts` | `OutboxInv` |
| | `CountsItsRows` | `[]CompletedRunCountsItsRows` | `CountInv` |
| | `DeletedIsTrue` | `[]DeletedHasNoPoints` | `PointsInv` |
| | `FoundAgain` | `[]UnarchivedHasSearchableCopy` | `CopyInv` |
| | `NothingLeft` | without `crash`, `undo`, `lostAck`: `[]FailedRestoreLeavesNothing` | `FailedInv` |
| | `NoCopyLeft` | without `crash`, `undo`: no record, `lostAck` included | `LeftoverInv` |
| | `KeptChainHolds` | one compactor at a time: `[]KeptChainEnds` | `KeptInv` |
| `RetrievalProofs` | `AnswersInScope`, `AnswersCommitted`, `FindsUntouched`, `RanksFairly`, `PacksInOrder` | `[]ReturnsOnlyAsked`, `[]ReturnsCommittedRows`, `[]FindsIndexed`, `[]RankedByDominance`, `[]PackLosesOnlyOverflow` | `RetrievalInv` |
| `ReindexProofs` | `UpdatesHoldTheirRow`, `UpdatesKeepTheRest` | `[]UpdateInv`, `UpdatesOnlyWhatItNames` | `UpdateInv` |
| | `GraphFollows` | `[]GraphMatchesRecord` | `GraphInv` |
| | `InspectedGraphFits` | `[]GraphViewHangsTogether` | `ViewInv` |
| | `ReindexKeepsAll` | `[]ReindexLosesNothing` | `LosesInv` |
| `RequestsProofs` | `Typed` | `[]TypeOK` | `TypeOK`, by parts |
| | `Authorized`, `Scoped`, `Refusals` | `[]ActsForGrantedOrg`, `[]EffectsNeedScope`, `RefusedOnlyForCause` | `RequestsInv` |
| | `Counted` | `[]CountsResponsesOnce` | `CountInv` |
| `GoalRunsProofs` | `TypeCorrect`, `Consecutive`, `ClosedIsFinal`, `GetConsistent`, `PinKept` | `[]TypeOK`, `[]IterationsConsecutive`, `ClosedRunIsFinal`, `GetSeesItsCount`, `PinHolds` | `GoalRunsInv` |
| `ProcessLifecycleProofs` | `TypeCorrect`, `QuietExit`, `PoolLives`, `NoPoolForgotten`, `StoppedForGood` | `[]TypeOK`, `[]ExitIsQuiet`, `[]PoolOutlivesUsers`, `[]PoolsAccounted`, `StoppedStaysStopped` | `LifecycleInv` |
| `RateLimiterProofs` | `TypeCorrect`, `OnlyRecent`, `WaitCorrect` | `[]TypeOK`, `[]BucketsRecent`, `[]WaitAsTold` | `RecentInv`, `WaitInv` |
| | `Implements` | `Spec => KeepsPromise` | the refinement mapping `Level`, step by step |

Why the strengthenings are needed:

- `GiveUpInv = TypeOK /\ GiveUpBound /\ HeldBelowCap`. A sweeper decides by the
  attempts its claim returned; the bound is kept because a claim takes only
  pending jobs, whose attempts are below the cap, and what is held stays so
  whatever other sweepers write meanwhile.
- `StoreInv = TypeOK /\ References /\ OneChunkSetPerRecord`. That an insert does
  not add a second set follows only if a new record's request is the only one
  that can insert for it, and that none survives an erased record only if jobs,
  chunk sets and requests agree on whose they are.
- `WriteAheadInv` adds that a request past its write-ahead, a sweeper and every
  point belong to jobs that are armed (not pending with a NULL retry time), that
  armed jobs stay armed, and that an existing record with an armed job has
  chunks stored by one: that is what makes the chunks a sweeper loads, which
  need not be those of the job it claimed, safe to index.
- `SerialInv` says what `NoOverlap` makes of a record: between operations it is
  `Clean` (gone, or settled with an exact index, or with a job that will repair
  it), and during one it is as far as the phase of the operation says. A step
  leaves the index of every other record as it is, and nobody else is on its own.
- `GoalRunsInv = TypeOK /\ IterationsConsecutive /\ LocksHeld /\ CountsSeen /\
  PlanUnpinned`. A commit adds the right index only because the row lock taken by
  the bump has kept the run active, its count where it was and other
  transactions out (`LocksHeld`). A reader's count is one its run has passed. A
  plan is unpinned but for records linked since, because a linked record's run was
  started, and so cannot be started again.
- `LifecycleInv` adds `PoolsApart` (whose pool is whose: ending the workers' pool
  never ends the calls'), `LoopsAgree` (a loop's timer, sweep and `stopped` against
  how far its handle is, so that closing services finds no user) and
  `CleanupAwaited` (what the shutdown has seen settled, and that nothing starts
  afterwards).
- A group always has a record to keep because, of the sets of those that outrank
  one of its records, the least under inclusion is empty (`KeeperInGroup`).
- Compaction's `OutboxInv` adds that an archived record is gone, that the row a
  run or a sweeper works on is archived, and that the attempts it remembers are
  at most the row's: a late mark may count too little, never too much.
- Compaction's `CountInv` adds that a run under way is one compactor's alone, is
  pending, and has counted the rows that name it; rows never change their run.
- `PointsInv` adds that a live record without point ids has no points unless it is a
  copy, and that whoever is about to mark a row deleted has seen the points gone which
  the row speaks of. They stay gone because a restore that has yet to upsert has a copy
  whose chunks name no points, nor does its archive row if there is one (`FreshInv`).
- `CopyInv` says that every marked archive row has a copy that is searchable and
  that no restore is still working on; a restore under way owns its record alone,
  and its step says which rows and points it has. `FailedInv` adds what a restore
  that ended without its mark has left: no live record, and no points that the
  compensation did not know of.
- `KeptInv` says that the keeper of a group is neither archived as a duplicate nor in
  the plan as one, so that no step closes a ring: the record archived last as a
  duplicate leads to one that ends the chain.
- `RetrievalInv` says of the stores that a point, however old, agrees with its row on
  the scope a query filters by, because writers change only the text, the date and
  whether a row is archived (`StoresInv`); of the reads, that a row in them was
  live, in the organization and, by its hit or by the query, in scope
  (`ReadsInv`); of a record nobody touched, how far the search must have come with
  it (`FindInv`); of the answer, that it is the top of the ranking of the reads,
  none of which is longer than its limit (`RankInv`); and that a search which has
  not ended has stored no pack (`PackInv`). What a sorted sequence holds is
  proved from the places of its elements: in a finite strict order they are
  different, so every place is taken (`EveryPlaceTaken`). That a better row has a
  greater total is arithmetic: who scores higher has no later rank, its share of
  the score is no smaller, and all that two sources add is less than a
  project's weight. What the recursive deal of a context pack leaves after each row
  (`IsPackOf`) needs an induction, which is made by hand: of the places where it
  failed one would be the first (`NoFirstFailure`).
- `GraphInv` says that the graph of a row is the one extracted from its text and
  from a title and a uri that its source may have, and follows that through the
  transactions under way, which may have read the source before another wrote it.
  `ViewInv` says what the first statement of an inspection has seen, and that the
  rows it saw and nobody wrote since fit what the second one adds. Both rest on
  the lemmas about extraction: each entity once, in a strict order of places, cut at
  the cap.
- `LosesInv` says of every chunk of a record that is not in the index who owes it
  (`OwedInv`): a write or a refresh that has it in hand, or a reindex of its scope
  that is still clearing or has not come so far, by its cursor and its page, unless
  a call that would have put it there gave up. A call that deletes points owes all
  it deletes: a refresh has replaced the record's chunks by those it has in hand, a
  reindex will list them again. `FitsInv` says that the chunks of a record are
  those of its text, or that a call which has committed and not yet inserted them
  will make them so. A step is judged once for all its kinds, by what it may do to
  the rows, the chunks and the points (`KeepsStep`). That a page is the next of
  the scopes' chunks, and that what is not on it comes after a full one, is
  counting (`PageOf`); that the chunks of a text cover it (`ChunksCover`) is an
  induction over its tokens, made by hand like the one above: `ScanIs` shows that
  the recursion of `Scan` has a solution, `TokenHolds` what a token leaves.
- `UpdateInv` adds the row locks: no two transactions hold a row, and what an
  update will commit is made of the row as it is (`NextIsUpdate`), because it
  holds that row's lock since it computed it. What was read without a lock is
  the row or an older version of it (`ReadIsOlder`), because every write to a
  row raises its version.
- `RequestsInv` says for each phase of a request what is known of it
  (`ClientOK`): a token was verified before the request went on, the call is
  made for the organization granted, the audit record names that one; and a server
  that listens without authentication is bound to loopback.
- `DiscoveryInv` says that every metadata URL a discovery has tried is without the
  document, or met an outage: the last one fails only after the one with the document has
  (`MetadataAssumption`: an issuer publishes it at one of them).
- Requests' `CountInv` keeps the histogram equal to the number of clients whose
  response was sent.
- `RecentInv` adds that the next sweep is at most a window away. `WaitInv` says
  that until a refused key asks again its bucket is as the refusal left it, or
  has been swept, which happens at most a millisecond before the wait is over.
- The refinement rests on two facts. The exact level of a bucket untouched for a window
  is full (`ExactBounds`), so what a check finds is the level but for one error, whether or not
  the sweep came first (`RefilledIsNear`). And a millisecond more of elapsed time
  is one millisecond's tokens more (`PassRaises`).

Assumptions. Most are about the types and finiteness of constants. These carry
more:

- `SerialSpec` keeps two operations off one record, as described above, which the
  code does not: `drift_refresh_race` shows what they can do together.
- Three theorems of `CompactionProofs` have a hypothesis, each for a reason in the
  code. No `crash` and no `undo` (`NothingLeft`, `NoCopyLeft`): nobody takes a
  compensation up that did not finish. No `lostAck` (`NothingLeft`): points whose
  upsert threw are not deleted by it. One compactor (`KeptChainHolds`): no apply takes
  the scope lock.
- `OrganizationsAssumption` (`Requests`): configured organizations are trimmed and not
  blank (`parseBearerEntry` sees to it), and what a client asks for has its columns
  (`BoundsAssumption`).
- `RecordsAssumption`, `StoredAssumption` (`Records`): stored rows have their columns
  and were written by this repository, so that their graph is that of their text, or
  were restored from the archive, so that they have none;
  every client has a call (`CallsAssumption`), with a limit it may ask for
  (`InspectAssumption`); the patterns of a text name finitely many entities
  (`GraphAssumption`).
- `IndexAssumption` (`Reindex`): content has a token, because the tools refuse blank
  content (`nonBlankTextInputSchema`), and a page has a chunk.
- `LimiterAssumption` (`RateLimiter`): a millisecond's refill is at least two rounding
  errors. Of the code's it is billions.
- `RetrievalAssumption` (`Retrieval`): the rows of a corpus have their columns and an id
  each, a text has a chunk, and `Scale` is so fine that no rank within the limits
  rounds a score's share to nothing.

Model-checked only: liveness (`ScheduledJobSettles`, `OutboxDrains`,
`ShutdownCompletes`, `EveryRequestSettles`, `EveryCallSettles`), which is out of the
prover's reach.

## Where code and documentation disagree

`drift_refresh_race` must find a violation of what README.md:62-64 says, "Crash-safe
ingest ... No silent index drift": of two overlapping refreshes of one record the
one that committed its chunks first upserts its points last, both jobs are
completed, and points of replaced chunks stay.

The others were met while the modules were written and have no run. Where a
property would be broken by one, its comment or its module names the exception.

The index and its repair:

- An `embedBatch` of a refresh that throws before any job exists
  (`store/canonical-indexing.ts:411`) leaves no retry marker, although
  docs/api-reference.md:447-448 says embedding failures do.
- A sweeper can index a write that has become due; if the write then throws, the
  rollback (`canonical-indexing.ts:631`) erases the record, not knowing the sweeper's
  points. docs/architecture.md:114-115: "no orphan".
- A crash between `insertChunks` and the write-ahead leaves a job no sweep will
  claim, although docs/operations.md has the sweeper finish every write committed
  before a crash.
- The bind-parameter comments of `vector/pgvector-index.ts:29` and `:211` count 8
  parameters a row and 8000 rows; the statement has 14 and batches of 4000, which
  stays below the limit.

Compaction and goal runs:

- An archive id given twice in a call, or in two that overlap, is restored twice
  (`compact/unarchive-compaction.ts:113`), although docs/api-reference.md:580 and the
  comment in line 5 call `already_unarchived` idempotent.
- A run can archive a copy whose restore has not upserted its points yet. The row has
  no point ids and is marked `deleted` at once, "vacuous true"
  (`compact/apply-compaction.ts:233`); the points come later and no row lists them.
- The points of an upsert that took effect and threw are not among the
  `upsertedPointIds` the compensation deletes (`unarchive-compaction.ts:264`), although
  its design (docs/superpowers/specs/2026-06-26-akasha-growth-foundation-design.md:288-290)
  has it delete "any upserted vector points" when any step after the insert fails.
- A record modified between the listing and `startedAt`, or by an update that
  began before and committed after it, is archived, although
  docs/security.md:154-157 has it skipped.
- No apply takes the scope lock whose error message docs/troubleshooting.md:82
  explains.
- A record linked to two active runs is archived once the later one closes
  (`goal-run/goal-run-repository.ts:197`): `goal_run_id` holds one run.
  docs/api-reference.md:658-660 has memories linked to an active run pinned.

Requests:

- With a token bound to an organization, a header that names it wins over a body that
  names another (`app/middleware/organization-resolution.ts:73`), although the comment
  in line 9 and docs/configuration.md:236-238 have a conflicting one refused with 403.
  The call acts for the token's organization, as `ActsForGrantedOrg` has it.
- A refused key can be refused again at the very millisecond it was told
  (`app/middleware/rate-limit.ts:99`), the one "when the next token will be available"
  in lines 91-92. With `RATE_LIMIT_PER_MINUTE=5`, a key that drained its bucket at 0 and
  asks at 3 ms is told 11997 ms; at 12000 ms its bucket holds 0.9999999999999999.
- docs/architecture.md:328 has every tool invocation audited: the context tools
  and refused calls are not. The `metadata` column it mentions is in no INSERT of
  `audit/audit-log-repository.ts:62`. Line 335 has failed audit writes logged at
  error level; `mcp/tool-registry-instrumentation.ts:58` logs a warning.
- `defaultActor: "mcp-http"` (`app/mcp-http.ts:112`) has no effect, as the registry
  was built with an actor before.
- A tool that needs a project answers a call without one with an exception over
  MCP and with 400 over REST.

## Not modelled

`PROJECT.json` lists each component with its reason. In short: page rendering,
CLI, configuration, migrations, file readers and logging are I/O or pure
formatting. Schemas are a verdict on the input, health and metrics are modelled as
far as the counter of requests and the life of the probes' pool. Embedding
providers and the stores' internals are external and appear as calls that return
or throw; the loader of the local model keeps a load that failed
(`embedding/transformers-embedding.ts:42`), which is a hazard without a property.
A failed `ensureCollection` leaves the pool of its attempt open
(`mcp/canonical-services.ts:59`), which `ProcessLifecycle` has as it is. The goal
context pack, the search for repeated attempts and the evaluation metrics are pure
functions of what they are given.

## Plan

Done: the two halves of the index's consistency (`CanonicalIndex`, `Compaction`);
the repository's transactions with chunking and reindex (`Records`, `Reindex`);
reading (`Retrieval`); the way of a request (`Requests`); `GoalRuns`,
`ProcessLifecycle`; `RateLimiter` under `TokenBucket`. Types are proved wherever a
module states them, and with them the safety invariants, the action properties and
one refinement.

Left, in this order:

1. Compaction beside the index: an archive while an ingest or a refresh is under
   way (the job cascades away, points upserted later are nobody's), two compactors
   without a scope lock, deletes reported as pending.
2. Abstract specifications: an `IndexedStore` (a record and its index change
   together, with a repair pending in between) that `CanonicalIndex` implements
   under `SerialSpec`; an `Outbox` that both sweepers implement.
3. The goal context pack and repeated attempts as operators over `GoalRuns`.

Runs: one for each question. As modules are added, runs of known disagreements
give way to them, and the disagreements stay listed above.
