# A verification development for the log analytics platform

TLA+ modules that model the platform under `src/app`, the TLC configurations that
check them on small instances, and TLAPS proofs of the properties that matter most
for instances of every size.

Contents: [inventory](#1-inventory), [modules](#2-modules-and-the-code),
[runs](#3-runs), [fairness](#4-fairness), [proofs](#5-proofs),
[findings](#6-where-code-and-documentation-differ),
[abstractions](#7-abstractions), [not modelled](#8-not-modelled),
[what is left](#9-what-is-left).

Files: `X.tla` models component X, `XMC.tla` gives its constants values for TLC,
`XProofs.tla` holds its theorems, and each run has a `.cfg` of its own name.

    tlc -config stream.cfg StreamConsumerMC
    tlapm StreamConsumerProofs.tla

## 1. Inventory

| Component | State | Operations | Hard behaviour | What makes it correct | Module |
|---|---|---|---|---|---|
| Parquet store (`storage/parquet_store.py`) | open writers, temporary and published files | `write`, `_append`, `flush` | an error in one of several files, a crash between two steps, a run id used again | what a completed write and flush made visible stays visible | ParquetStore, StoreClient |
| Partitioning, query engine (`storage/partitioning.py`, `duckdb_engine.py`) | none | paths, pruning, `query_logs` | calendar boundaries | pruning drops no row of the range | LogDataset |
| Metadata store (`storage/metadata.py`) | rows of runs and of API keys | start and finish a run; create, verify, revoke a key | an outage between two of them | the trail of runs agrees with the dataset | IngestJob, ApiService |
| Streaming (`streaming/`) | position, committed offset, buffer, seen keys, statistics | poll, `process_batch`, `flush`, commit, `stop` | crash before the commit, a flush that fails half way, refused commits, a group without an offset | a committed message is durable; at-least-once delivery | StreamConsumer, AtLeastOnce |
| Job queue (`workers/queue.py`) | registry, futures, pool queue, job status | `submit`, `_run`, `wait`, `cancel`, `_prune`, `shutdown` | threads that write a job's fields without a lock; races of cancel, submit and shutdown | a cancelled job never runs, a final status is final, nothing is left half done | JobQueue |
| Jobs (`workers/jobs.py`, `celery_app.py`) | files, rows, caches | ingest, compact, cleanup | two jobs in one directory, retries and redeliveries of a job that did half its work | no row lost or visible twice; every run on record | IngestJob, Compaction, LogDataset |
| Pipeline (`pipeline/orchestrator.py`) | counters, batch, dead-letter file, store | `run`: lazy stages, threshold check, `_finalise` | failures in the middle of a batch, stop requests, repeated runs | a successful run accounts for every line | PipelineRun |
| Parallel pipeline (`pipeline/parallel.py`) | a future for each file | pool of processes, merge | a worker that dies takes the pool with it, while files are submitted too | no file is dropped quietly | IngestJob |
| Ingestion (`ingestion/`, `core/paths.py`) | position, statistics | files, directories, paginated endpoints, tables | a file that vanishes, a page fetched again, a redirect that loses the parameters | each record once, in order | IngestJob |
| Dead-letter queue, validation (`validation/`) | counts, file | `record`, the rules | the file cap, a failing disk | every rejection is accounted for | PipelineRun, RecordTransform |
| Deduplication (`deduplication/`) | bounded set of keys | `is_duplicate` | eviction | drops no record whose key was not stored | StreamConsumer, PipelineRun |
| View cache (`cache/`, routers, `core/retry.py`) | entries with deadlines, breaker | get, set, clear, ping | a view computed before an ingest is stored after it; outages | staleness is bounded; a dead server is not hammered | ViewCache |
| API (`api/`) | principal cache, singletons, token buckets | authentication, providers, admin handlers, limiter | thread pool beside event loop; stale principals; eviction | revocation takes effect, one instance, rates bounded | ApiService, RateLimiter |
| Search (`search/`) | none | query language, pages | precedence, NULL, ties | a query selects what it says, pages cover it | SearchQuery, LogDataset, KeysetPaging |
| Analytics (`analytics/`) | none | views, security detections | gap filling, filters, correlation | views agree, bursts are reported | AnalyticsViews, SecurityScan |
| Anomaly detection (`anomaly_detection/`) | none | detectors, merge | flat baselines, short histories | a jump is reported, nothing else is | AnomalyScan |
| Parsers (`parsers/`) | none | flatten, map, coerce, detect | names that collide, units | values reach their field, or the metadata | LogParsing |
| Transformation (`transformation/`, `core/masking.py`) | none | clean, normalise, enrich | the order of the stages | no secret is stored | RecordTransform |
| Text stores, CLI, dashboard, synthetic data, configuration, logging | see section 8 | | | | none |

How they interact. An API handler or a Celery worker submits a job to the queue.
`ingest_job` opens a row in the metadata store, runs a pipeline over a source,
which writes through the store and publishes at its end, closes the row and clears
the cached views. The streaming consumer has the same stages and the same store,
and commits an offset to Kafka when its flush has returned. Readers (query engine,
search, analytics, reports) see the published files only. `compact_job` and
`cleanup_job` work on the same directories without any lock that they share with
writers or with each other. A request passes the middleware stack, is
authenticated against a cache in its process or the metadata store, and takes its
collaborators from a dictionary of singletons which an administrator may empty.

`PROJECT.json` lists every component, and under `hazards` the places that tests
hardly reach, each with the properties that would catch it going wrong or the reason
why none does.

## 2. Modules and the code

### State machines

**ParquetStore** (a component; no specification of its own). A row is a pair of
a run id and a record, a file is identified by a run id and a partition. `temp`
and `published` are the rows in temporary and in final files, `writers` the keys
of `_writers`. `WriteBatch`, `AppendPartition`, `AppendFails` and `WriteReturns`
are `write` and `_append`; `FlushStart`, `PublishStep`, `PublishFails` and
`FlushReturns` are the loop of `flush` up to each point where it can raise or be
interrupted; `StoreCrash` loses the instance and keeps the disk.

**StoreClient** drives it with arbitrary calls. **PipelineRun** and
**StreamConsumer** extend it and drive it the way the two programs do.

**StreamConsumer** is `KafkaLogConsumer.run` and `StreamProcessor`: one topic
partition of `N` messages, each a tombstone, malformed, or a record with a
deduplication key. `Start` places the consumer by the group's offset
(`StartOffset`: `auto.offset.reset` is `latest`, so a group without one begins at the end), `PollBatch` and `Handle` are the loop,
`FlushBuffer` to `FlushRaises` are `processor.flush`, with the buffer put back
after an error, `Commit` and `CommitFails` the synchronous commit,
`FinalFlushRaises` and `Close` the `finally` clause, `Crash` the end of the
process at any step. **AtLeastOnce** is the abstract specification: a group
starts somewhere, messages become settled (durable, or counted as rejected or as
duplicates of durable ones), and an offset is acknowledged only when all before
it are settled. `Implements` says that the loop implements it, with the
refinement mapping at the end of the module.

**JobQueue**: `SubmitCheck`, `Track`, `Pool`, `Assign` are the four steps of
`submit` that other threads can come between (flag test, registry under the
lock with `_prune`, `executor.submit`, assignment of the future); `Take` to
`RunReturns` the pool thread and `_run`, with status, attempts and result
written one after the other; `Cancel` and `CancelMarks` the two halves of
`cancel`; `ShutdownFlag`, `ShutdownPool`, `ShutdownReturns` the three of
`shutdown(wait=True)`. `ThreadPoolExecutor` and `Future` are external and
modelled from their use.

**PipelineRun** is `LogPipeline.run`: because the stages are chained generators,
one line goes through all of them, and the batch it fills is written, before the
next is read, so `ReadLine` is one step and the writes of a full batch follow it.
`CheckRate` is the rejection threshold, `WriteRest` the partial last batch,
`Complete` the counters set at the end of `_execute`, `FinaliseFlush` to
`FlushEnds` `_finalise`, which runs after a failure too. `Rerun` starts a second
run with a new run id over the same source, after a success, a failure or a crash.

**IngestJob** is one target on its way in: the attempts of the queue or the
deliveries of Celery (`Start`, `Crash`), the row of `job_runs` (`StartRun`,
`FinishRun`, `Outage`), the source (`BuildSource` with the checks of
`resolve_within`, `Sample`, which fails when the damage of an archive lies within
its first lines, `OpenFile`, `ReadLine`, `CloseFile` for files and
directories, `Fetch`, `FetchFails`, `Redirected`, `ReadItem`, `PageEnds` for
paginated endpoints in each of their modes, `ReadRow` for tables), and the
parallel run over a directory (`TakeFile`, `WorkerPublishes`, `WorkerRaises`,
`WorkerDies`, `Merge`). `_fetch` drops the request's parameters when it follows a
redirect, so `Redirected` chooses whether the Location repeats them (`src.bare`):
the page `Asked` for is then the `Wanted` one or the first, and `src.strayed`
remembers that a page other than the wanted one was read. `Merge` adds what a
worker's run returned, whose errors name no file, while `Note`, the `except` clause,
names the file; `WorkerDies` breaks the pool for every future that is not done, or
makes the next `pool.submit` raise, which leaves the handler. `Vanish` is the file system. What becomes of a record is
PipelineRun's business; here every record is good and a batch is one step.

**Compaction** is `compact_job` in one partition directory: `files` maps the
names in the directory to their rows. `ListFiles`, `ReadTable`, `WriteTable`,
`Unlink`, `Rename` are its steps, `FileNotFound` what happens when another job
took a file away, `Fault` an I/O error or a crash before any step, after which
the queue starts the job again. `Publish` is a writer's rename. The auxiliary
`mishaps` remembers whether two jobs overlapped, and whether one failed once it
had begun to unlink.

**ViewCache** is the cache behind the analytics and report endpoints:
`MemoryCache` (LRU, deadline, one per process) and `RedisCache` (shared, behind
`CircuitBreaker`), `_cached_view` in three steps (`Hit` or `Miss`, `Compute`,
`Store`), the administrator's clear, and the ingest job that lands its data and
then clears the families of views. Time is discrete. The variable `deployment`
is the configuration, so that one run covers both backends.

**ApiService** is a request's way through the API. `authenticate` and the
providers of `api/deps.py` are plain functions, which run in a thread pool; the
handlers are coroutines without an await. So `Lookup`, `Verify` and `Fill` (the
principal cache, the metadata store, the cache again) and `Resolve`, `Acquire`,
`Build` and `Construct` (the double-checked singleton) are steps that anything
may come between, and the admin handlers (`CreateKey`, `RevokeKey`, `Reload`) are
followed by the calls they still have to make (`ResetDependencies`,
`ClearPrincipals`). `RevokeElsewhere` is an administrator of another process.
The auxiliary `req.excuse` remembers whether a refusal would be right;
`revokedAt`, `epoch` and `built` are history.

**KeysetPaging** is a client that reads a result with `search_after`, cursor by
cursor, while rows of one timestamp come in any order.

### Algorithms

Functions of their inputs, written as operators and composed by **Algorithms**,
whose states are calls: the input first, the result after one step.

* **SearchQuery**: tokens, the recursive-descent parser with its limits, the SQL
  predicate as a flat sequence of tokens with its parameters, an evaluator of
  that SQL with its precedence and three-valued logic, and as the reference the
  meaning of a tree (`Meaning`), written out by `Write`.
* **LogDataset**: partition paths, their start and end on a calendar of constants,
  pruning, `query_logs`, `count_logs`, `SearchService.search` and its pages, and
  `cleanup_job`.
* **AnalyticsViews**: `_scope`, the endpoints of the dashboard, and gap-filled
  series over aligned windows.
* **SecurityScan**: the detections with their thresholds and windows, scores in
  thousandths of a point, `_correlate`, and the isolation of a failing detection.
* **AnomalyScan**: moving average, Tukey fences and z-score with exact fractions
  instead of floating point, and `scan_metric`'s merge.
* **RateLimiter**: `TokenBucketLimiter.check` with refill, eviction and Retry-After.
* **LogParsing**: `flatten`, the field mapping, coercion of numbers and durations,
  the text formats, the levels, and the detector.
* **RecordTransform**: cleaning, normalisation, masking and enrichment in the
  order of `TransformationChain`, then the validation rules. The limits that cut
  names, path segments, texts and maskable values are constants; endpoints are
  templated first and masked with the other fields.

## 3. Runs

| Run | Instance | Shows |
|---|---|---|
| `store` | 3 records, 2 partitions, 2 run ids, 2 faults | `AckedVisible`: rows whose write and flush returned are visible until their run id is used again, through failed appends that leave their writer open, failed publications of other files, and crashes. |
| `stream` | 5 messages of every kind, batches of 2, one key remembered, 2 faults | `CommittedIsDurable`: nothing before the committed offset is lost. `Implements`: at-least-once delivery. `StatsAddUp`, `PublishedGrows`; `PolledSettles`: a message that was polled is settled in the end, or the process ends. |
| `queue` | 3 jobs (one with a retry), 1 worker, history of 1 | `CancelledNeverRuns`, `TerminalIsFinal`, `FinishedIsRecorded`: the order in which unlocked fields are written is safe. `LiveJobsTracked`: pruning keeps what is not finished. `JoinedMeansDone`: the races of submit and shutdown. `WaitMeansFinished`: `wait` returns early only while a `cancel` is about to set the status. `EverySubmittedSettles`: nothing hangs. |
| `pipeline` | every source of 4 lines over two keys, every option, batches of 2, 2 faults, 2 runs | `NothingDropped`: every line a successful run read is rejected or visible under its run. `CountsAddUp`, `DlqAccountsForAll`: the result tells the truth. `AbortsAtSample`: no run succeeds past a sample with too many rejections, and none is aborted at another place, or at a rate equal to the threshold. |
| `compact` | 4 writes, 2 compact jobs, 2 faults | `NoRowTwice`, `RowsKept`: what holds while jobs come one after the other, and, for the second, none fails while it unlinks. `JobEnds`: no job hangs when another takes its files. |
| `cache` | memory: 2 views with lifetimes 1 and 4, a cache of 1 entry, 2 ingests; redis: 2 replicas, up to symmetry, 1 ingest, 1 outage | `StalenessBounded`: no answer misses an ingest older than the lifetime of its view plus the time a request takes. `NotHammered`: during an outage a replica's calls reach the server at most threshold times and once more for each reset timeout. |
| `api` | 1 process beside others, 2 requests at a time, 1 key, so that no principal is ever evicted, 1 reload, 1 outage | `RevocationBounded`: a revoked key is useless once the TTL has passed. `ActiveKeyAccepted`: no refusal without a reason. `OneInstance`: one engine between two resets. `RequestEnds`: every request is answered and every reload done. |
| `ingest` | directories of up to 3 files of 9 kinds, the empty one included, 4 endpoints, 2 tables, 3 attempts, 1 or 2 workers, 3 faults | `ReadsInOrder`: a source yields what it holds, once and in order, unless a redirect strayed. `CursorSkipsNothing`: nor is a record skipped then, where the server names the next page. `FilesAccounted`: no file is dropped quietly, in a directory or a pool. `AuditTrail`: `job_runs` agrees with the dataset. `IngestEnds`. |
| `algorithms` | every input of the sets in `AlgorithmsMC` (84 607 calls) | `SearchMeansQuery`, `PagesCoverRange`, `CleanupBounded`, `RateBounded`, `ViewsAgree`, `FindingsSound`, `AnomaliesFound`, `ParsedFaithfully`, `StoredTextClean`: each result against its reference. |
| `compact_crash` | one compact job, one fault | `MergeKeepsRows` is violated: rows are lost, see section 6. |
| `search_after` | rows that share a timestamp at a page's end | `NoneSkippedOrRepeated` is violated. |
| `status_classes` | the calls of `algorithms` | `ClassesAreHundreds` is violated. |

Why these bounds are enough. Every instance has a full batch and a partial one,
two partitions (so that one file of a flush can fail and another succeed), a
duplicate inside and outside the range the bounded key set remembers, and the
limits (history, cache entries, dead-letter cap, tracked keys, pages, buckets,
metadata keys, names, path segments, masked values) set below the number of things that compete for them. Two
faults reach every pair of a failure and a failure of the recovery from it; an
ingest has three, since each attempt may fail. The inputs of the algorithms have
expressions two operators deep with every kind of leaf, months of different
length, ranges that are reversed, empty or cross a partition, series longer than
the trailing window, records that nest one level more than is flattened, and texts
in which a secret is broken up by what cleaning removes. Larger instances are the
proofs' business. Constants that the code fixes are scaled down: the sample of
10 000 lines is `CheckEvery`, the batch size of at least 100 is `BatchSize`, the
history of at least 10 jobs is `MaxHistory`, the cache of at least 16 entries is
`MaxEntries`.

Deadlock is not checked where the system may really stop: a store without
callers, a queue after its shutdown, a run that is over, a partition in which
nothing is written any more, a function that has returned.

Every property has a mutant, listed in `PROJECT.json`: a definition with a
plausible bug (`Def_variant`, next to `Def`) under which TLC reports the property
violated.

## 4. Fairness

* **stream**: weak fairness of `Progress`, the next step of a consumer that runs:
  the loop never waits for anything but the broker. A restart (`Start`) is not
  fair, since nothing in the repository starts the consumer again, and neither
  are faults.
* **queue**: weak fairness of a worker taking a job, of every job's next step, of
  the second half of `cancel`, of the rest of a `submit` that has begun, and of
  the rest of a shutdown. These are threads that are runnable; the assumption is
  that handlers return or raise. Nobody is obliged to submit, cancel or shut down.
* **compact**: weak fairness of each job's next step: it runs in a thread of its
  own. **pipeline** has safety properties only and assumes no fairness.
* **ingest**: weak fairness of `Progress`, the steps of the job, its worker
  processes and the queue's or the broker's next attempt. Faults are not fair.
* **api**: weak fairness of each request's next step and of the calls an admin
  handler has begun: threads of the pool and the event loop are scheduled. It is
  enough for the lock of the singletons, although it is not a fair lock, because
  a process takes it only while it has no engine. Requests need not come, and the
  metadata store need not return.

## 5. Proofs

Checked by TLAPS for every value of the constants that the named assumptions
allow; no step is left out. Each invariant below was model-checked before it was
proved; it is stated at the end of the component's module.

**StreamConsumerProofs**. `NoLoss` (`CommittedIsDurable`), `PublishedGrowsHolds`,
`CommitMonotoneHolds`, `StatsAddUpHolds` and `Refinement` (`Implements`), for any number of messages,
any batch size, key set, partitions and number of faults. `CommittedIsDurable` is
not inductive: the commit relies on what the flush did before it. `IInv` adds

* `ControlInv`: what each control location says of the buffer, the batch under
  way and the store's call;
* `CoverInv`: every message between the group's start and the position is
  settled, or in the buffer, in flight, or still to be handled; a remembered key
  belongs to a row that is published or in memory, so that dropping a duplicate
  loses nothing (a restart forgets keys and buffer together);
* `FlushInv`: during a flush every row in flight is published or staged in a
  temporary file whose writer is open;
* `FreshInv`: the next run id has no published file, so a flush replaces none.

The refinement follows from `IInv`: steps that publish or count a message map to
`Persist`, a commit to `Acknowledge`, the first poll to `Subscribe`. `StatsAddUp`
is about cardinalities: it needs that a message which is still to be handled is
not in the buffer (`BufferedOnce`), so that handling it adds one to one count only.

**JobQueueProofs**. `CancelledNeverRunsHolds`, `FinishedIsRecordedHolds`,
`TerminalIsFinalHolds`, `LiveJobsTrackedHolds`, `WaitMeansFinishedHolds` and
`QueueSafety` (`RetriesExhausted`, `JoinedMeansDone`), for any finite set of jobs,
pool size, history and retry counts. `IInv` ties a job's status, attempts and
record to its future (`FutureInv`), to the place of its worker in `_run`
(`WorkerInv`) and of its caller in `submit` (`SubmitInv`), and a pending future to
the pool's queue (`QueueInv`); the last is what makes "the queue is empty and
nobody works" mean that nothing is left. `CancelInv` adds, for `wait`, that a
cancelled future whose job is not marked has a cancel call under way.

**CompactionProofs**. `NoRowTwiceHolds`, for any number of writes, jobs and
faults, as long as jobs come one after the other; `RowsKeptHolds` and
`RowsOnDiskHolds`, until two jobs overlap or one fails while it unlinks. `IInv`
says, without an overlap, that at most one job is at work, its inputs are where
it listed them, a merged file is among them, the hidden file is the table it
read, and nothing outside its inputs holds a row of that table. `RowsInv` adds
where each row is.

**StoreClientProofs**. `AckedVisibleHolds`, for any records, partitions, run ids
and number of faults. The invariant says where the rows of completed writes are:
staged in a temporary file whose writer is open (`WroteInv`, and `WriteInv` for
the write under way), or published by the flush under way, unless it has noted an
error; and that no open writer has the run id of an acknowledged row (`AckedInv`).

**ApiServiceProofs**. `OneInstanceHolds`, `RevocationBoundedHolds` and
`ActiveKeyAcceptedHolds`, for any number of processes, threads, keys, reloads and
outages, any TTL and cache size.

* `EngineInv`: whoever builds holds the lock of its process and finds no engine
  (`LockInv`, `ConstructInv`), and an engine of the present epoch is in use
  (`BuiltInv`); so the one that is built is the first of its epoch.
* `KeyInv`: what is cached of a key expires a TTL after a moment at which the key
  was not yet revoked (`CacheInv`), and so does what a request is about to cache
  (`CallerOK`), which is why a cache that was cleared too early does no harm in
  the long run; a request that may still be refused has an excuse, or its key is
  active and the store up.

**PipelineRunProofs**. `NothingDroppedHolds`, `CountsAddUpHolds`,
`DlqAccountsForAllHolds` and `HopelessRunAbortsHolds` (the case of `AbortsAtSample`
in which nothing of the first sample parses), for any source, batch size,
threshold, key set, dead-letter cap, number of runs and faults. A run that goes
well (`Healthy`: nothing was raised that its result does not show yet) is told
apart from one that does not, for which nothing is promised of the dataset.

* `ControlInv` and `FreshInv`: what each location says of the store's call, and
  that the files of a run are its own, since its run id is new;
* `StageInv`: the records of a run that are in no published file are staged in a
  file whose writer is open, or are still to come in the batch being written;
* `KeptInv`: every line read is rejected, a duplicate, or kept once, and a
  remembered key belongs to a line that is kept: dropping a duplicate loses
  nothing. `NothingDropped` and `CountsAddUp` follow at the end, when no writer
  is open and no batch is left, so that what is kept is visible (`StoredIsVisible`);
* `ResultInv`: the counters of the result, before and after they are copied;
* `DlqInv`: below its cap the dead-letter file has every rejection;
* `HopelessInv`: a run all of whose lines were unparseable so far has rejected
  them all and is at the check when it reaches the end of the sample, where
  the rate is one. It assumes `Num < Den`: the configuration allows a threshold of 1
  (`core/config.py:89`), which no rate exceeds, and such a run does not abort.

**ViewCacheProofs**. `StalenessBoundedHolds` and `NotHammeredHolds`, for any
replicas, views, lifetimes, cache size, threshold, reset timeout and number of
ingests and outages, with either backend.

* `InTime`: an entry dies, a computed value is stored and an answer was given in
  time after their version of the data was superseded. Hit, eviction, expiry and
  clear only take entries away (`KeepContent`, `HitContent`), so only the store of
  what a request computed needs the bound on the time that takes.
* `Guarded`: a breaker is open just when it has failed often enough, what was
  wasted in this outage is among its failures, and since it opened it let through
  at most one call for each reset timeout (`Timeouts` has the division).

**IngestJobProofs**. `AuditTrailHolds`, `FilesAccountedHolds` and
`ReadsInOrderHolds`, for any directory, endpoint or table, any limits, number of
workers, attempts and faults.

* `RowInv`: at each location, whether the row of the run in progress exists and is
  still open, that the dataset has nothing of this run before its end, and that a
  job has a second successful row only if Celery delivered it again;
* `SourceInv`: a directory source has counted the records of the files behind it,
  and the open file's own are what is missing; a skipped file lies behind the
  position, so it is skipped, and counted, once;
* `PoolInv`: what each future of a parallel run has published, and what of it the
  combined result counts: a file whose worker raised or died is published or not,
  but is named in the errors, and one whose run failed has an error of its own,
  which names nothing, so the errors beside the named files bound the files of
  which something is missing (`NumbersFinite`, `Erred`);
* `YieldInv`: what a source holds is a sequence of parts (a file's records, a
  page's, a row), and what was yielded is the parts gone through (`UpTo`) followed
  by what was read of the part that is open (`OpenPart`); a read that has ended
  left nothing but empty parts. A file that cannot be opened becomes an empty part
  when it is skipped, and one that disappears keeps its part until then. It holds
  until a page other than the wanted one was read (`src.strayed`), which never
  becomes false again (`StaysStrayed`);
* `PositionInv`: what makes the next part the right one. The files ahead are
  distinct and not skipped; the page asked for next, by cursor or by number, is
  the one after those read, and none of those was empty. A file or a table is read
  without requests, so it never strays.

`ReadsInOrder` follows because an open part is a beginning of the next part
(`OpenPartBegins`) and the first parts joined are a beginning of all of them
(`UpToBeginning`). It assumes of `Servers` and `Tables` only that they are made of
pages of items and of timestamps.

Induction over numbers and sequences is stated for the set of those that a claim
holds for (`NumberInduction`, `SequenceInduction`) and follows from the
well-foundedness of the natural numbers, by a least counterexample. So what
`Keep` and `Only`, the filters of the two modules above, and `UpTo`, which joins
the parts of a source, do to a sequence of any length is proved too: they are
recursive functions.

All these modules but StoreClientProofs also prove `TypeCorrect`.

Model-checked only:

* liveness under fairness, which is out of the prover's reach (`PolledSettles`,
  `EverySubmittedSettles`, `JobEnds`, `RequestEnds`, `IngestEnds`);
* `AbortsAtSample` and `CursorSkipsNothing`;
* the properties of **Algorithms**: what recursive operators compute for every
  input. No module with a theorem uses the modules that declare them.

## 6. Where code and documentation differ

Three runs show a line of the code's own documentation violated:

* `compact_crash`: a failure between the first unlink and the rename leaves rows
  in the hidden file only; the retried job overwrites it (`workers/jobs.py:255`);
* `search_after`: rows are ordered by timestamp alone, so two rows of one
  timestamp may come in the order opposite to the cursor's, and the next page
  skips one of them, which `search/service.py:177-179` rules out;
* `status_classes`: the class split of the status view divides exactly and rounds
  (`analytics/engine.py:257`), so a 451 counts as a server error.

Differences seen while modelling, which no run is about. The models do what the code
does in these places, and the properties leave them out or allow for them.

Storage and jobs:

* `flush` unlinks an existing file before it renames the new one
  (`parquet_store.py:147-149`), so replacing a file is not atomic; the platform's
  own callers never repeat a run id;
* a replayed stream batch is stored again: keys are remembered in memory only, so
  "effectively-once storage" (`streaming/kafka_consumer.py:12-13`) is
  at-least-once; and after a crash, or a flush that failed twice, before the
  group's first commit a restart begins at the end of the log, so that what was
  polled is never read again, where `streaming/processor.py:301-302` has a restart
  replay it;
* between the registry and the assignment of the future (`workers/queue.py:166-168`)
  `cancel` refuses a job that has not started, which `api/routers/jobs.py:107` calls
  running or finished, and `wait` returns at once;
* two compact jobs in one partition share the hidden file and lose rows without any
  failure: `RowsKept` and `NoRowTwice` therefore assume that jobs do not overlap;
* a job that is retried after it published has a new run id and stores its records
  again, where `workers/jobs.py:7-8` and `docs/ARCHITECTURE.md:57-58` say that it
  overwrites; `AuditTrail` has the second copy on record, and permits it;
* `run_many` raises before its first source: `PipelineOptions` has slots and no
  `__dict__`;
* `ingest_directory_job` leaves no row in the metadata store;
* files outside the partition layout are never searched.

Ingestion:

* a directory is abandoned when a file raises something other than an
  `IngestionError`, or raises in the constructor, in spite of the comment "One
  unreadable file must not abort a directory-wide job";
* items of a JSON array that are not objects leave no trace in the counters; text
  files end silently at `max_file_bytes`, endpoints at `max_pages`;
* a worker process that dies takes every future of the pool that is not done with it,
  where `pipeline/parallel.py:20` speaks of one file (`FilesAccounted` has them named);
* `process_parallel` with one worker isolates no failure, and with several a broken
  pool that `pool.submit` finds ends the whole job (`parallel.py:97-102`); the errors
  of a file that failed are merged without its name (`results.py:151`);
* `_fetch` drops the parameters when it follows a redirect (`http_api.py:235`): unless
  the Location repeats them, an endpoint paged by number answers with its first page
  again and the wanted one is skipped, and one paged by cursor repeats pages;
* a record that fails validation counts as parsed and as rejected, so a source
  of invalid records has a rejection rate of one half and never exceeds the
  default threshold.

API and cache:

* a request that verified its key before a revocation caches the principal after
  the cache was cleared: a revocation takes the TTL, where the comment in
  `routers/admin.py` has it take effect at once;
* with the memory backend `ingest_job` clears a cache it has just built, and the redis
  pattern `<namespace>:<family>:*` matches none of the dotted prefixes views are
  stored under, so an ingest clears nothing that is served, against
  `cache/__init__.py:16-19`: what bounds staleness is the lifetime of an entry;
* `/admin/reload` drops the collaborators and does not read the configuration again;
* a client whose bucket is evicted comes back with a full one: `RateBounded` is about
  clients whose bucket stays;
* offset pages are unstable when rows share a timestamp, and cursors are cut to
  whole seconds.

Search, analytics and records:

* a wildcard replaces the operator of its comparison; a series of an empty range
  has no points; percentages are shares of the entries shown;
* correlation of exactly two signals can lower a score by less than a point;
  a z-score of ten points cannot reach the default threshold of 3;
* metadata beyond 64 keys is dropped;
  a response time or status out of range refuses the whole record;
* the validation rules for address, status, response time and presence of a
  timestamp cannot fire, since the event model refuses such values first;
* an encoding repaired after cleaning can bring line separators back, and masking
  can lengthen a message beyond the limit; `raw_message` is masked and not cleaned;
* of a value longer than 512 characters after a sensitive name the rest is stored;
* an endpoint that was masked, or had a segment cut at 64 characters, is templated
  differently when it is stored and read again;
* of two nested values whose names end alike, the alias made for one takes the other's
  name and the other's value is dropped (`parsers/structured.py:47-50`), where
  `parsers/base.py:363` has unmapped keys preserved;
* sensitive names with a dash never match metadata keys, which are normalised.

## 7. Abstractions

* A message, a line or a record is what becomes of it: kind, key, partition. In
  the parsers and the transformation it is a sequence of the pieces their rules
  tell apart; regular expressions and date formats are inputs.
* `SeenKeys`: which key a full set forgets is left open, so that the properties
  hold for every eviction order, the code's least recently used one included.
* Run ids are unique, which is an assumption: `uuid4` is taken to give a new one, and
  the stream's id, made of process id, second and sequence, not to come again when
  a process id does. `PublishedGrows` rests on it. One topic partition
  and one consumer in the group; rebalancing is not modelled.
* `_prune` is one step although workers change statuses while it runs: it only
  drops jobs that it finds finished, and finished is final.
* A handler that raises something other than `Exception` is not modelled.
* `compact_job`'s size test is not modelled: every partition with two files or
  more is merged. Two jobs write the hidden file one after the other.
* The redis `SCAN` and delete of a clear are one step; hit and error counters are
  left out; a view has no parameters in its key.
* The engine stands for all the singletons of the API. Statuses other than 401 and
  403 are not told apart. Time passes only up to a bound, which `revokedAt` uses
  as its value for "never".
* Averages and approximate quantiles are left out of the views; the detectors
  compare squares and fractions, so that rounding plays no part; logarithms are a
  table. DuckDB is modelled from the SQL sent to it.
* Delays of retries take no time, and a redirect is followed or refused. An endpoint
  that is asked without parameters answers with its first page.

## 8. Not modelled

* Text stores: the same protocol of temporary files, event by event, and used only
  when the format is asked for by name.
* Command line, dashboard, synthetic data: they call the parts above, print, or
  make test data.
* Configuration, logging, metrics, hashing, registry: no behaviour that the
  properties tell apart.
* Report layout and the exponentially weighted detector: text and real numbers.
* Security headers, CORS, the translation of exceptions to HTTP answers,
  decompression, decoding, address checks of the HTTP source: each a function of
  one input, with tests of its own.
* `StreamProcessor.run` over a plain iterable and `LiveWindow`.

`PROJECT.json` has the details for each component.

## 9. What is left

In this order: `RateBounded` of the token bucket as a theorem, for which its
filters become recursive functions as in `ViewCache`; and the text stores as a
second instance of the store.
