# Verification of Langfuse's core

TLA+ models of the parts of Langfuse whose correctness rests on what happens in
between: on the order of callbacks and jobs, on retries, crashes and clocks.
The models are translated from the source in `packages/shared/src` and
`worker/src` (with the routers of `web/src` that write the same rows), checked
with TLC on small instances; what the ClickHouse writer, the background
migrations, the ingestion pipeline, monitors, the retention cleaner, batch and
trace deletion, metering, the prompt cache and the periodic runner promise is proved
with TLAPS for instances of every size.

Contents: [the system](#1-the-system), [plan](#2-plan),
[modules and code](#3-modules-and-code), [runs](#4-runs),
[bounds](#5-bounds), [fairness](#6-fairness), [proofs](#7-proofs),
[divergences](#8-where-code-and-documentation-part),
[what is not modelled](#9-what-is-not-modelled),
[how to run it](#10-running-the-checks).

## 1. The system

Langfuse is an observability platform for LLM applications. Two kinds of
process share Postgres, ClickHouse, Redis (BullMQ queues, locks, caches) and
blob storage: `web` (Next.js: public API, tRPC, UI) and `worker` (queue
processors and periodic runners). `packages/shared` holds what both use. Any
number of processes of either kind run, and nothing coordinates them but those
stores.

    client --HTTP--> web: processEventBatch --files--> blob storage
                          |                                  |
                          +--one job per file--> Redis       | list, download
                                                   |         v
                                                   +--> worker: ingestion job --merge--> ClickhouseWriter
                                                                    ^                        |
                                                                    | read the row           | batched inserts
                                                                    +------- ClickHouse <----+

    user --tRPC--> monitors table <--claim, complete-- processors <--events-- scheduler (periodic)
                                                           +--alerts--> webhook queue

    web: retry --> background_migrations table <--lease, state-- workers: run(), heartbeat, close()

    web: delete --rows--> pending_deletions --+--> delete job ----+--> Postgres, ClickHouse, media
               \--job--> Redis ---------------+--> cleaner -------+
    web: delete by query --> batch_actions <--pages-- runner under a Redis lock
    workers: retention cleaner under a Redis lock --DELETE--> ClickHouse
    workers: metering --claim, hour--> cron_jobs, --usage--> Stripe
    web: prompts --epoch, entry--> Redis

### Components, their state, and what makes them correct

| Component | State it keeps | Operations | What is hard | Correct when |
|---|---|---|---|---|
| **ClickHouse writer** (`worker/src/services/ClickhouseWriter`) | an in-memory queue per table, flushes in flight, a busy flag | `addToQueue`, interval flush, `flush` with retries, splitting and truncation, `shutdown` | flushes of one table overlap; a failed flush requeues into a queue that moved on | a row is in one place, leaves it acknowledged or after its own last attempt, and is settled eventually |
| **Background migrations** (`worker/src/backgroundMigrations`, the router in `web`) | rows with lease, state, finishedAt, failedAt; in each worker the active migration | `run`, `heartBeat`, `close`, the router's `retry` | leases that lapse, `close()` beside the run loop, errors in every statement | one worker runs a migration at a time, in order, and a finished one is complete |
| **Event ingestion** (`shared/src/server/ingestion`, `worker/src/queues/ingestionQueue.ts`, `IngestionService`) | files, jobs, the seen cache, the slowdown flag, rows buffered and shown | a request's uploads and adds; a job's check, redirection, listing, merge, write; retries | partial failure of a request, jobs of one entity in parallel, out of order inserts, crashes | an accepted event is written or a job answers for it, and what ClickHouse shows converges |
| **Monitors** (`shared/src/features/monitors`, `monitor-runner`, `monitorQueue.ts`) | the monitors table: status, severity and five timestamps per row | schedule, publish, claim, evaluate, alert, complete; create, update, delete | no lock: each guard compares timestamps; lost and late jobs; edits in flight | no breach unannounced, alerts rarely repeated, lost runs rescued, no stale outcome |
| **Redis lock and periodic runners** (`worker/src/utils`) | a key with TTL and owner; per runner a timer, the active run, the last renewal | acquire, extend, check, release, modes `fail` and `proceed`; start, stop, run | the TTL lapses under a slow holder, a holder dies, Redis errs after it acted; start and stop in a run | a holder never removes another's lock, keeps its own while it works, a dead one's lapses; one chain of runs |
| **Trace deletion** (`traceDelete.ts`, `batch-trace-deletion-cleaner`, `features/traces`) | pending_deletions rows, ClickHouse rows, media links and files | the delete job, the cleaner, media removal | both take the same rows; shared media; ingestion meanwhile | what is marked deleted is deleted, shared media neither orphaned nor removed in use |
| **Worker start and shutdown** (`app.ts`, `utils/shutdown.ts`) | the registered workers | ordered closing | each step may throw | nothing accepted is lost by a clean stop |
| **OTel ingestion** | none of its own | spans to events, direct write | what follows is ingestion | as ingestion |
| **Evaluations** | job configurations and executions | creation, deduplication, delayed retries | a trace updated while its job waits | one execution per configuration and target |
| **Experiments** | dataset runs, a propagation cursor in Redis | run items, propagate events | a cursor shared by runs | every item once |
| **Webhooks and automations** | automation executions, consecutive failures | deliver, count, disable | a counter read and written by parallel jobs | disabled after so many failures in a row |
| **Prompts and the prompt cache** | versions and labels in Postgres, an epoch and entries in Redis | create, label, delete, get | readers that straddle a change, lost epochs, failed invalidation | no stale prompt after an announced change |
| **Batch actions and exports** (`trace-delete-batch-action-runner`, `features/batchAction`) | a row per action: status, next page, counts | request, pick, delete a page, advance, fail | a check and a write that are two steps, restarts, requests anew | every page once, a finished action stays, none is passed over |
| **Blob storage, PostHog and Mixpanel integrations** | lastSyncAt per project | export a window | partial export | no window skipped |
| **Retention and project cleaners** (`batch-data-retention-cleaner`) | a run: chunks, queries, the renewal they share | search, enrich, DELETE | queries that renew one lock together, a DELETE as long as the lock | one DELETE of a table at a time |
| **Cloud metering, thresholds and alerts** (`ee/cloudUsageMetering`) | the cron_jobs row: state, claim, last hour | claim, report, move on, reset | many jobs, takeovers, resets of another's claim, Stripe failing half-way | no hour skipped, and each reported once unless a job fails or is overtaken |
| **Dead letter retries** | failed jobs | re-add | a job that runs again | no job lost |
| **Tokenisation** | a pool of threads | count tokens | timeouts | a result or an error |
| **Public API and authentication** | API keys and their cache | request handlers | stale cache of keys | only valid keys |
| **Annotation queues** | item locks of five minutes | lock, complete | two annotators | one at a time |
| **In-app agent** | conversations | run an agent | streaming | persisted as shown |
| **Oxelia51 extensions** | their own tables | CRUD, calls to a Go service | external | — |
| **Web user interface** | browser state | — | — | — |

`PROJECT.json` lists the same components with their sources and what is
modelled of each, and every hazard at its line with the properties that would
notice it.

## 2. Plan

The order follows what an installation depends on most.

1. `AtLeastOnceBuffer`, `ClickhouseWriter` and its refinement; proofs. **Done.**
2. `BackgroundMigrations`; proofs. **Done.**
3. `IngestionPipeline`, composed with `AtLeastOnceBuffer`; proofs. **Done.**
4. `Monitors`; proofs. **Done.**
5. `RedisLock` and `PeriodicRunner`, and what runs under them: `RetentionCleaner`,
   `TraceDeleteBatchAction`; `TraceDeletion` with shared media; `UsageMetering`;
   `PromptCache`. **Done** (checked together in `jobs`).
6. Proofs of what these promise: `PeriodicRunner`, `PromptCache`, `UsageMetering`,
   `TraceDeletion`, `RetentionCleaner`, `TraceDeleteBatchAction`. **Done** (section 7).
7. `WorkerJobs`, these side by side, and proofs that they keep what they promise.
   **Done.** With that every safety property of a passing run is a theorem.
8. Further candidates: the failure counter of webhooks, item locks of annotation
   queues, evaluations and their delayed retries, the ClickHouse read that may be
   skipped and the order of `firstS3WriteTime` (`ingestionQueue.ts:168`, `:228`).

Which module uses which:

    AtLeastOnceBuffer <--refines-- ClickhouseWriter <-- ClickhouseWriterProofs
                                                    <-- MCClickhouseWriter
                      +--INSTANCE-- IngestionPipeline <-- IngestionPipelineProofs
                                                      <-- MCIngestionPipeline
    BackgroundMigrations <-- BackgroundMigrationsProofs
                         <-- MCBackgroundMigrations
    Monitors <-- MonitorsProofs
             <-- MCMonitors
    RedisLock <-- RetentionCleaner       <--+
              <-- TraceDeleteBatchAction <--+
                  TraceDeletion          <--+-- WorkerJobs <-- MCWorkerJobs
                  UsageMetering          <--+
                  PeriodicRunner         <--+
                  PromptCache            <--+

    RetentionCleaner <-- MCRetentionCleaner
    UsageMetering    <-- MCUsageMetering

    TraceDeletion <-- TraceDeletionProofs <--+
    UsageMetering <-- UsageMeteringProofs <--+-- WorkerJobsProofs
    PromptCache   <-- PromptCacheProofs   <--+
    MCWorkerJobs                          <--+

`ClickhouseWriter` is proved to implement `AtLeastOnceBuffer`, and
`IngestionPipeline` is built on `AtLeastOnceBuffer` alone: what it shows of the
pipeline does not depend on how the writer batches, splits and retries.

## 3. Modules and code

A step of every model ends where the code awaits, so that the models interleave
as the event loop does. `map` in `PROJECT.json` gives the lines of each
definition. Definitions called `Fault...` are deliberate errors that no
definition uses; each is a plausible slip in the definition after it, and shows
that some property would notice the slip.

### AtLeastOnceBuffer

What `addToQueue` promises its callers: the buffer holds a row until an insert
of it is acknowledged or `MaxAttempts` flushes of it have failed, and lets go of
it in no other way. Three actions: `Accept`, `Acknowledge` and `FailFlush`.

### ClickhouseWriter (`worker/src/services/ClickhouseWriter/index.ts`)

| Code | Model |
|---|---|
| `this.queue`, its items with `attempts` | `queue`, items `[rec, attempts, cut]`; `cut` says that the record was truncated in place |
| a call of `flush` between its splice and its end | a record of `flights`: items left, tries made, `hasBeenTruncated`, who started it |
| `isIntervalFlushInProgress` | `intervalBusy` |
| `addToQueue`, with the flush at `batchSize` | `AddToQueue` |
| the interval callback, and its `finally` | `IntervalTick`, `IntervalDone` |
| `shutdown` with `flushAll(true)` | `Shutdown`, `ShutdownDone` |
| `backOff` with its `retry` callback | `Retries`, `FlushFails`, `RetriesOrFails`: the callback runs after the last attempt too, so the half it puts back counts in both |
| `handleStringLengthError`, `truncateOversizedRecord` | `SplitsBatch`, `TruncatesRow`, `TruncatesBatch` |
| the final `catch` | `FlushFails`: rows with attempts left go to the end of the queue, the others are dropped |

An insert succeeds or fails in five ways (`Resolve`). Whether a string length
error occurs is not a choice: it does exactly if the rows do not fit into one
string (`TooLong`, by `MaxJoined` and `Huge`). Rows are numbered in the order of
their `addToQueue`; their contents, metrics and logging are left out.

### BackgroundMigrations (`worker/src/backgroundMigrations`)

| Code | Model |
|---|---|
| the table's `finished_at`, `failed_at`, `locked_at`, `worker_id`, `state` | `finished`, `failed`, `lease`, `owner`, `progress` |
| `activeMigration`, and the local variable `run()` works with | `active`, `job`; `close()` and the heartbeat use the first, `run()` the second |
| `isAborted`, the cursor of the migration | `aborted`, `cursor` |
| the loop of `run()` | `pc`: `pick`, `beat`, `validate`, `running`, `saving`, `finishing`, and `threw`, `invalid`, `rejected`, `mute` for the ways it goes wrong |
| the loop of the script's `run()` | `ProcessBatch` (the batch is updated), then `SaveCursor` (the row's `state` is): two awaits, so a worker killed, or overtaken, between them leaves a batch done whose cursor is not saved |
| the serializable transaction | `Acquire`, `NothingToRun`, `AcquireFails` |
| `heartBeat()`, first awaited and then by timer | `FirstBeat`, `FirstBeatFails`, `HeartBeat` |
| `close()` | `Close`, `CloseUnlocks`, `CloseEnds`, between whose awaits the loop goes on |
| `retry` of the web router | `Retry`: no condition on the row, the lock left alone |

The clock is abstracted to the moment at which a lease lapses. What goes wrong
are nine kinds of incident, each at the statement it belongs to, recorded in
`incidents`; the properties say after which kinds they hold. A retry of a
migration that some worker is running (`retryBusy`) is a kind of its own. The
migration is `backfillValidToForDatasetItems.ts`: a loop over batches with a cursor saved in
the row. The other scripts differ in the batches, not in this control.

### IngestionPipeline

| Code | Model |
|---|---|
| `processEventBatch`: uploads with `Promise.allSettled`, adds with `Promise.all` | `Send`, `UploadSucceeds`, `UploadFails`, `UploadsSettle`, `AddSucceeds`, `AddFails`; adds go on after one has failed the request |
| jobs of `IngestionQueue` and `SecondaryIngestionQueue` | `job`: where it is, its file, queue, attempt, what it listed and read |
| `ingestionQueueProcessorBuilder` | `Begin` (seen cache), `Redirect`, `List`, `MarkSeen`, `Complete` |
| `IngestionService.mergeAndWrite` | `ReadRow`, `WriteRow` |
| BullMQ's retries, and jobs of a dead worker | `JobFails`, `WorkerDies` |
| `ClickhouseWriter` | `AtLeastOnceBuffer` with one attempt: `WriterInserts`, `WriterFails`; `WorkerDies` loses what it holds |
| ReplacingMergeTree with `event_ts` | rows are numbered by the time of their merge; `Shown` is the acknowledged row with the latest |

A row is abstracted to `has`, the events whose own fields it has, and `top`, the
event that decides the fields all of them set. `hollow` and `orphaned` are
history: files that an attempt marked as seen and then failed to write, and files
whose row was in the buffer of a worker that died when no job would write it
again. `slow` stands for the S3 slowdown
flag and for the environment variable that redirects projects.

### Monitors (`shared/src/features/monitors`)

| Code | Model |
|---|---|
| the `monitors` table | `row`: query shape, its fingerprint `batch`, status, severity, the five timestamps and `alertedAt`; `Null` is 0 |
| `MonitorScheduler.schedule`: one statement, then `publish` for each event | `WakeUp` (the tick's `new Date()`), `Schedule`, `PublishEvent`, `PublishEventFails` |
| `MonitorProcessor.process` | `StartJob`, `Claim`, `PublishAlert`, `Complete`, `JobFails` |
| `computeSeverity`, `applyStateMachine`, `shouldEmit` | `ComputeSeverity`, `Decide`, `ShouldEmit` |
| the guards of `buildCompleteQuery` | `Lands` |
| `MonitorService.create`, `update` (read, then write), `delete` | `Create`, `UpdateReads`, `UpdateWrites`, `Delete` |
| `updateStatusAndSeverity`, `updateSchedulerProperties` | the same, as the row they leave; `Updated` applies both |

Time is a bounded clock of moments, half a minute and more apart. Of the ticks
that several schedulers take in one moment the model keeps the first: the others
find due only what was created or cleared in between. The schedule and the claim are
single statements of Postgres
and single actions; `FOR UPDATE SKIP LOCKED` only orders them. An evaluation reads
the claimed rows and ClickHouse, so it is part of `Claim`. Thresholds are
abstracted to the severity a value compares to. An event carries the shape of
any one of its rows, as `array_agg(...)[1]` does. A job starts at most once
(`attempts: 1`, `maxStalledCount: 0`). The runner takes its lock in mode
`proceed`, so several schedulers may run at once; `Schedulers` is a set, and a
tick may run after a later one. `overtaken` records the monitors that such a tick
has planned.
`Tick` lets time pass a moment only after a scheduler ran at it, except at
`MaxLate` moments.

An update that sets the status to ACTIVE, overtaken by the completion of a bad
query, leaves a row ACTIVE with severity PAUSED, on which the state machine is
a no-op until the monitor is paused and resumed. `PublishedInTime` is stated
for the other rows.

### RedisLock (`worker/src/utils/RedisLock.ts`)

A key is its owner and its remaining time to live. `Acquired`, `Extended`,
`Released` are the next values of the keys to which `SET NX EX` and the two
scripts lead; `Owns` is `isHeldByCurrentProcess` and the comparison in the
scripts. `Elapsed` is a tick of Redis' clock. A process that dies leaves its key
to a value no living instance has (`Orphaned`; each instance draws a
`randomUUID`). The module has no actions: tasks make these operators parts of
theirs.

### PeriodicRunner (`worker/src/utils/PeriodicRunner.ts`)

`Start`, `Stop`, `TimerFires`, `RunEnds` over `isRunning`, `activeRun` and
`timeoutId`, with runs and timers counted, since nothing but the code keeps
either from being two.

### RetentionCleaner (`batch-data-retention-cleaner`, `PeriodicExclusiveRunner.ts`)

| Code | Model |
|---|---|
| `withLock` in mode `fail` | `Begin`, `BeginErrs` (the lock may have been set), `Release`, `ReleaseErrs` |
| `pLimit` and `leaseLost` | `StartQuery`, `MayStart`, `leaseLost` |
| `findExpiredProjectCandidates` | `RowArrives`, `CandidatesEnd` |
| `enrichProjectCandidates` | `EnrichmentEnds`, `EnrichmentFails`, the stages `failed` and `retrying` |
| `extendLockOnProgress`: throttle, shared renewal, forced | `Progressed`, `RedisEvaluates`, `RenewalErrs`, `RenewalAnswered` |
| `executeBatchDelete` | phases `renewing`, `deleting`; `DeleteEnds`; `DeleteBreaksOff`: its request fails in the client |
| a DELETE in ClickHouse that no worker awaits | `strayDelete` of a worker that died, `brokenOff` of one whose request failed |

Time is counted in ticks: `Tick` is enabled when no query, DELETE or renewal is
overdue. `Stalls` is the fault that a query or the process takes longer than its
timeout. ClickHouse gives a DELETE the client's timeout and a grace
(`client.ts:129`), so one that nobody awaits any more goes on for up to what is
left of both. When a worker dies in its DELETE its lock lapses in time; when the
request fails in the client, the lock is released at once.

### TraceDeleteBatchAction (runner, `processTraceDeleteBatchAction.ts`,
`createBatchActionJob.ts`)

| Code | Model |
|---|---|
| the `batch_actions` row; `updatedAt` | `batchAction`; `older`: the rows written before it, which `Touches` keeps with every write |
| `createBatchActionJob`: create or reset | `Request`, which gives the row a new `request` number and a query of some number of pages |
| `getActiveWorkload` | `Pick` |
| the loop of `processTraceDeleteBatchAction` | `Read`, `Skip`, `DeletePage`, `Extend`, `SelectNext` |
| `commitTraceDeleteBatchActionState` | `Check`, then `Write` |
| `catch`, `recordTraceDeleteBatchActionFailure` | `Throws`, `RecordFailure`, `RecordErrs` |

`gonePages` and `overtaken` are history: which pages of the present request are
deleted, and whether a run that had lost its lock between check and write wrote
the row. An error of `getActiveWorkload` ends the run as an empty table does.

### WorkerJobs (`worker/src/app.ts`)

The periodic tasks, queues and caches above, as `app.ts` starts them in every
worker: a step of `JobsNext` is a step of one of them, in any interleaving. They
share Redis, where the two tasks under a lock have different keys
(`KeysAssumption`), and nothing else. Each component counts its own faults; a
process that dies takes all of its jobs with it, which is a death in each, one
after the other. `MCWorkerJobs` restricts this to behaviours about one component
(`part`), for TLC; section 7 says what that leaves to the proofs.

### TraceDeletion

| Code | Model |
|---|---|
| `pending_deletions`, nothing of which is unique | `pending`: rows per trace not marked; `everDeleted`: traces some row of which is |
| `traceDeletionProcessor` | `RequestDeletion`; the job may not be added |
| `traceDeleteProcessor` | `StartJob`, the steps below, `Mark`; `jobs` with attempts |
| `BatchTraceDeletionCleaner` | `StartCleaner`, the steps below, `Mark`; `CleanerEnabled`, by default `FALSE` (`env.ts:474`, `app.ts:718`) |
| `deleteMediaItemsForTraces` | `FindLinks`, `CheckOrphans`, `DeleteFile`, `Unlink` |
| the rest of `processClickhouseTraceDelete` | `DeleteData` |
| `Promise.all`, `Promise.allSettled` with Postgres failing | `PostgresFails`: the job fails at once and the other half goes on (`stray`); the cleaner waits |
| other failures, deaths | `ClickhouseFails`, `DeleterDies` |
| `uploadMediaForTrace` | `Lookup`, `Send`, `Confirm`, `Link` |

`data` says of a trace whether what is there was asked to be deleted. `unlucky`,
`raced` and `outrun` record the three races the properties except. `leftBehind`
holds the traces that no job will come back for: their job was not added, failed
for good (`attempts: 2`), or took a full batch of others. A job of any trace takes
what is pending of its project, so the next one may pick them up. Of the Postgres
part only its failure matters.

### UsageMetering

| Code | Model |
|---|---|
| the `cron_jobs` row | `cron`; `jobStartedAt` is the number of the claim |
| the repeated, the bootstrap, the catch-up and the retried jobs | `HourPasses`, `ReplicaStarts`, `FinishHour`, `ResetAfterError`: jobs are counted |
| `handleCloudUsageMeteringJob` | `StartMetering`, `ClaimHour`, `ClaimErrs`, `Report`, `StripeErrs`, `FinishHour` |
| the processor's `catch` | `MeteringThrows`, `ResetAfterError` |
| a claim older than 20 minutes | `TwentyMinutesPass`, `staleClaim` |

`billed` counts how often each meter of each hour reached Stripe. The limiter of
the queue (one start in 30 seconds) makes overlaps rarer and excludes none: a job
may take longer.

### PromptCache

| Code | Model |
|---|---|
| Postgres | `prompts`: a number for each state, not in one transaction for a reader |
| `prompt_cache_epoch`, entries | `epoch`, `cached` by token |
| the writers in `web/src/features/prompts/server`, then `invalidateCache` | `Change`, then `Announce` or `AnnounceFails` |
| `getOrCreateEpoch` | `GetEpoch`, `CreateEpoch`, `GetEpochAgain` |
| `getPrompt` | these, `GetEntry`, `Find` for each row, these again, `Store` |
| errors, `EX` | `ReaderMeetsError`, `EpochExpires`, `EntryExpires` |

## 4. Runs

Passing runs:

| Run | Question | Shows |
|---|---|---|
| `writer` | do overlapping flushes with every kind of error keep each row in one place, count its attempts, implement the buffer, and settle? | `HeldOnce`, `AttemptsAccounted`, `BufferSpec`, `Settles`, `ShutdownReturns` |
| `migrations` | which incidents, kills between a batch and its cursor among them, can make two workers run, break the order, or finish a migration early? | `OnlyOneRuns`, `RunsInOrder`, `FinishedMeansComplete`, `StatusUnambiguous`, each but for the incidents it names; `Completes`: a failing, invalid or dormant migration holds up no other |
| `ingestion` | with the seen cache and parallel jobs, or with attempts used up and jobs in any order: which accepted events can be lost, can what ClickHouse shows go backwards, does every job end? | `AcceptedIsAnsweredFor`: only those lost in one of three recorded ways; `Converges`, `NothingUnshown`, each saying which races it excludes; `SerialJobsEnd` |
| `jobs` | with deaths, errors, lost answers, lapses and jobs that overlap: is a table deleted from by one at a time, a deletion by query complete, a mark true, a shared file kept and never left over, an hour neither skipped nor reported twice, the chain of timers one, the cache fresh, and does all of it end? | `DeletesExclude`, `LeaseKept`, `LostLockFreed`; `NothingSkipped`, `FinishedStays`, `Finishes`; `MarkedWasDeleted`, `FilesKept`, `NoOrphans`, `RequestsDone`; `NoHourUnbilled`, `BilledOnce`, `MeteringProceeds`; `OneChain`; `NoStaleCache` |
| `monitors` | with two schedulers that may be late and overtake each other, lost events and jobs, edits and deletions: are breaches announced, alerts spaced, lost runs rescued in time, outdated outcomes kept out? | `BreachAlerted`, `AlertsSpaced`, `PublishedInTime`, `LandsOnItsOwn` |

The conditions in the properties of `migrations` and `ingestion` are results:
each excepted incident, or race, does break the property. With `close()` or a
stall beyond the lease two workers run one migration; with a retry of a running
one a finished migration misses batches, and so it may when a worker was asked to
close while it was at that migration (other migrations are not affected); two jobs
of an entity between listing and write leave the row of the earlier listing on
top. An accepted event is lost in three ways: an attempt fails after
marking its file as seen (`hollow`), the writer gives up its row (`dropped`), or
the worker dies with the row in its buffer when the job that put it there has
ended (`orphaned`), for a job is done when its row is in the buffer. The property
says that there is no fourth. A tick that runs after a later one (`overtaken`)
plans monitors for a moment already gone by, so that they are late, and alerted
twice. So are those of `jobs`: a DELETE whose request failed in the client goes
on beside the next (`brokenOff`); a run that
lost the lock between check and write does spoil a later request (`overtaken`);
a trace that is ingested again and asked for again between a deletion and its
mark does stay (`unlucky`); an upload that meets the end of a deletion does refer
to a missing file, and so does one for a trace which came back while its deletion
goes on, when another job for that trace removes the file and dies (`raced`); two
deletions that see each other's reference do
leave the file (`outrun`); a claim of an hour already reported does report it
again (`incident`); a reader that straddles a change does store what it replaced
(`late`).

Runs that show a statement of the repository violated (section 8):
`writer_shutdown`, `migrations_abort`, `migrations_pickup`, `ingestion_seen`,
 `monitors_updates`, `retention_overlap`, `metering_duplicates`.

## 5. Bounds

- **writer**: two tables, four rows, batches of two, two attempts, one row too
  long alone and no two rows fitting into one string. Three rows of one table
  give a full batch, a rest and a requeue behind a later row; two attempts give
  rows of different attempts in one flush. The proofs cover all other sizes.
- **migrations**: two workers, three migrations of two batches, the first
  dormant; `MaxIncidents` = 2 incidents of nine kinds, anywhere. Two workers are
  needed for a take-over, two live migrations for the order, two batches for a
  finished one that is incomplete, two incidents for a failure in the handling
  of another.
- **ingestion**: a behaviour has one of two `part`s. *Parallel*: two requests and
  three files of two entities, two jobs at a time, the seen cache on, `MaxJobs` 3,
  `MaxRows` 5, one error or crash. *Serial*: two requests about one trace, jobs one
  at a time, the cache off, two errors or crashes, so that both attempts of a job
  are used up; here jobs are shown to end. A client repeats a request once its
  earlier adds have settled. An expiring seen key counts as a fault. 579,000 states.
- **monitors**: one monitor just created, over five moments with a TTL of one and a
  cadence of three: room for a run, its loss, its rescue and the next run; or with
  an update or a deletion over four, or paused and resumed; or, over the last three
  moments, two monitors, one of them created meanwhile in either shape, which run
  in one batch or in two. One late moment, one failed job or publication, two
  schedulers and two processors (both symmetric). 1.9 million states.
  `monitors_updates` has two updates and one scheduler.

- **jobs**: one part in each behaviour, since they share nothing but keys of their
  own: that each keeps its properties beside the others is proved
  (`JobsAreSafe`). Two workers everywhere. *Retention*: two
  chunks, both at a time, queries and a DELETE of two ticks, a grace of one, three on
  top, a renewal of at most one, one fault: the lock lasts five ticks and is renewed
  after one, so that it can lapse within a run if renewals were wrong. *Batch*: one
  action that is requested twice, or two, each requested once, that meet one error;
  queries without pages or with three, two pages
  a run, two failures allowed; a throw costs one, a death, a lapse or an error of
  Redis two, of two faults. *Deletion*: two traces, two requests, batches of two,
  two attempts, one upload; with two requests no uploads, and faults (for one
  trace) or a trace that comes back, with one request all of these; two faults, so
  that a job can use up its attempts, without media (`DeletionBound`). *Metering*: two
  hours, two meters, two waiting jobs, one fault. *Prompts*: a prompt that includes
  another, two readers and one change, or one reader, or one after the other, with
  two changes or errors. 430,000 states.
- **retention_overlap**: one chunk, two workers, one fault, the request that breaks off.
  **metering_duplicates**: two jobs, two hours, no faults, and no claim that grows old.

## 6. Fairness

- *Writer*: the interval timer fires, promise callbacks run, and the ClickHouse
  client settles every insert, since it has a request timeout. Per row: some
  flush that contains it is resolved. No fairness on `addToQueue`, on
  `Shutdown`, or on the outcome of an insert.
- *Migrations*: each worker process is started, its run loop goes on (the
  database answers), its timers fire, and sixty seconds pass. No fairness on
  incidents or on `close()`.
- *Ingestion*: what a job awaits settles (weak fairness of each job's steps); a
  waiting job is taken again and again when slots become free (strong fairness
  of `Begin`, BullMQ being first in, first out). None on clients or the writer.
- *Monitors*: no liveness is stated. That lost runs are rescued is a bound on
  the clock (`PublishedInTime`), from ticks that come at every moment but
  `MaxLate`.
- *Jobs*: each worker goes on with what it has begun, periodic runs come again,
  clocks advance, locks lapse. No fairness on requests, on metering jobs but the
  hourly ones, or on faults. Requests and hours are bounded, so "everything asked
  for is done in
  the end" is stated as `[]<>(nothing is left to do)`.
- *Deletion jobs and the cleaner*: some job starts as long as there are any. The
  cleaner is off by default (`LANGFUSE_BATCH_TRACE_DELETION_CLEANER_ENABLED`), so
  there is no fairness on it: it may run or not. A job has two attempts; when both
  fail, what it leaves waits for the next deletion in the project, for ever if none
  comes, and the same goes for a job that could not be added. The first part of
  `RequestsDone` says that this is all that stays undone. The second says that
  nothing does if the cleaner is enabled: it has the fairness of the cleaner's
  periodic runs (`CleanerRuns`) as its hypothesis.

Assumptions on time that the retention cleaner relies on, and that the model
makes: a renewal is answered in less time than the lock has on top of the longest
operation, less the grace that ClickHouse gives a DELETE (`Latency + Grace <
Buffer`, where `Buffer` is five minutes in the code); a DELETE that nobody awaits ends in
ClickHouse within its timeout and that grace; and a process does not stand still
between the answer to the renewal and the DELETE (`Stalls` is anywhere before).
Without them no lock of this kind excludes two DELETEs; with them it still does not exclude
the one whose request broke off in the client (`retention_overlap`).

## 7. Proofs

`ClickhouseWriterProofs` holds, for all values of the constants that satisfy
`WriterAssumption` (positive batch size, attempts and joined rows; any tables,
rows and sizes):

- `TypeCorrect`: `Spec => []TypeOK`.
- `RowsHeldOnce`: `Spec => []HeldOnce`. A row is in exactly one place.
- `DropsAccounted`: `Spec => []AttemptsAccounted`. The attempts an item carries
  are the failed flushes of its row, and only the last of them drops it.
- `ImplementsBuffer`: `Spec => BufferSpec`. Initial states map to initial states
  and every step to a step of `AtLeastOnceBuffer` or a stutter, with `held`
  mapped to the rows in queues and flights.

- `EnoughHalvings`: if `MaxAttempts - 1` halvings bring a full batch down to
  `MaxJoined` rows and no row is too long alone, a healthy ClickHouse never makes
  the writer drop a row: `StringLengthSpec => []SplitAvoidsError`. This is
  how far the comment at `index.ts:171` holds (section 8). With
  the defaults, a batch of 1000 and 3 attempts, it holds if any 250 rows fit into
  one string. `SplitInv` says that a flight at its n-th try has at most what is
  left of a full batch after n halvings (`Share`).

The inductive invariant of the first four is `IInv == TypeOK /\ HeldOnce /\
AttemptsAccounted`; none
of the three is inductive alone. A requeue keeps a row in one place only because
the items of the flight are typed sequences (an enumeration of those with
attempts left exists) and because the rows it drops are no longer held; it drops
the rows the buffer may drop because `attempts` equals `fails + 1`; and `fails`
stays in its range because an item carries at most `MaxAttempts`.

The argument: lemmas on sequences of items say that cutting, joining, truncating
and requeueing lose and repeat no row and keep attempts in step (`CutItems`,
`JoinItems`, `JoinTallies`, `TruncateItems`, `RequeueItems`); `FlightApart` takes
one flight out of the state; each way a step changes the state has a lemma that
shows `IInv'` and the buffer's step together (`RetriesStep`, `FlushFailsStep`,
`InsertSucceedsStep`, `PullStep` for the three ways a flush takes rows,
`AddToQueueStep`, `FlushAllStep`, `ResolveStep`); `InitInv` and `NextStep` join
them, and `Invariance` follows with temporal reasoning.

`BackgroundMigrationsProofs` holds, from `MigrationsAssumption` and for any
workers, migrations, batches and number of incidents, every safety property of
the run `migrations`: `MigrationsTyped` (`TypeOK`), `OneWorkerRuns`
(`OnlyOneRuns`), `MigrationsRunInOrder` (`RunsInOrder`), `FinishedIsComplete`
(`FinishedMeansComplete`), `StatusIsUnambiguous` (`StatusUnambiguous`). They share
the inductive invariant `MigrationsInv`, whose parts hold until an incident of
the kinds they name:

- `Ordered`: whatever a worker has taken, even if it is not running it yet, is
  behind migrations that are all marked. Marks are cleared by a retry only.
- `SavedIsDone`: what is before the row's saved cursor is done, and so is what is
  before the cursor of a worker that runs, and the batch whose cursor it is saving.
  So a worker that resumes another's migration skips nothing, even beside one that
  lost its lease; at worst it repeats the batch after which the other was killed.
- `AbortsAreCloses`: an abort is only ever noticed at the migration that the worker
  was at when it was asked to close. So every other migration is marked after its
  last batch, and `FinishedMeansComplete` excepts that one alone.
- `UnmarkedWhileOwned`: only its owner marks a row, and the owner's next iteration
  begins with `activeMigration` cleared; so what a worker owns is not marked yet,
  and it does not set a second mark.
- `HoldsLease`: a worker from the heartbeat on owns the live lease of the
  migration it is at. Two workers at two migrations would each be at the first
  unmarked one (`Ordered`, `UnmarkedWhileOwned`), so it is the same one, and a
  row has one owner. That `active` and `job` agree is what `close()` breaks.

`IngestionPipelineProofs` holds, from `PipelineAssumption`, for any requests,
files, entities, jobs, attempts and faults: `PipelineTyped` (`TypeOK`),
`AcceptedEventsAreAnsweredFor` (`AcceptedIsAnsweredFor`), `ClickhouseConverges`
(`Converges`) and `NothingIsUnshown` (`NothingUnshown`, an action property). The
inductive invariant `PipelineInv` says:

- `AnswersInv`: a file that is marked as seen, or whose add has settled, is kept
  (written, given up, hollow, orphaned, or listed by a job that has marked it) or has
  a job of its own. When a worker dies with a row, its files either have a job that
  will write them or are `orphaned`; every other step keeps them. A job may skip a
  seen file because of the first half; the second is what
  `AcceptedIsAnsweredFor` needs once all adds have settled.
- `JobsInv`: a job's own file is among those it lists, since files are uploaded
  before their job is added and never deleted.
- `RowsInv`, `WriterInv`: rows are numbered in the order of their merges, made of
  files of one entity, and given up once.
- `AloneInv`: for an entity whose jobs did not overlap, a listing contains every
  event of every earlier row, whether inserted yet or not; so each row has the
  events of those before it, and out of order inserts only ever add.

The lemmas `JobsMove` and those after it classify what the steps do to jobs, and
each part of the invariant is shown for each class rather than for each action.
The greatest row handed over exists by well-founded induction on the naturals
(`GreatestExists`).

`MonitorsProofs` holds, from `MonitorsAssumption` and for any monitors, shapes,
values, processors and bounds, every safety property of the run `monitors`:

| Theorem | States | Schedulers | Updates |
|---|---|---|---|
| `MonitorsTyped` | `[]TypeOK` | any | any |
| `BreachesAreAlerted` | `[]BreachAlerted` | any | any |
| `OutcomesLandOnTheirOwn` | `[]LandsOnItsOwn` | any | one at a time (`OneUser`) |
| `FingerprintFitsOneUser` | `[]FingerprintFits` | any | one at a time |
| `RunsArePublishedInTime` | `[]PublishedInTime`, but for overtaken monitors | any | one at a time |
| `AlertsAreSpaced` | `[]AlertsSpaced`, but for overtaken monitors | any | one at a time |

The hypothesis `OneUser` is that of the run `monitors`, and it is needed. The run
`monitors_updates` has two updates that overlap and breaks the fingerprint; an
update that has read a row before another one wrote it may also set a status
without clearing the timestamps. There is no hypothesis on schedulers: several
may run at once (the lock's mode is `proceed`), and both properties hold for every
monitor that no tick has planned out of order. That exception is needed. A tick
delayed past the run of a later one publishes a row that was created or cleared in
between with a moment already gone by. That breaks `PublishedInTime`; and the later
tick's event for that row, if it
is still queued, can claim the row beside the older one's when both claims fall
into one moment of the model (`lastClaimedAt` is compared with `lte`), so that one
crossing is alerted twice, which breaks `AlertsSpaced`.

Each invariant rests on the one before:

- `TypeInv`: types, no timestamp ahead of the clock, and each outcome decided
  from the row as the job claimed it. `BreachInv`: what a job is about to write
  has been alerted or is on its list, and the list is empty when it writes.
- `TicksInv`, `ApartInv`: a tick that has not run has a moment of its own; an
  event is in one place; two events of one tick share no monitor. So one job at
  most holds the event of a row's last publication.
- `EditInv`, `FreshInv`, `OwnInv`: an update finds the status and the fingerprint
  it has read (but for a query rejected meanwhile), so that it clears the
  timestamps whenever it changes the shape or unpauses; a row that has the publication
  of an event therefore has the shape of that event, and one that a job may land
  on is as the job claimed it. With these, `LandInv`.
- `InTimeInv`: a watched row that no tick has planned out of order has its next run
  within a TTL and a cadence of its
  publication, the tick of a moment runs what is due, and time passes before the
  latest tick runs only as `late`.
- `AlertsInv`, on `LandInv` alone, about alerts published *or about to be*
  (`Candidates`). The row of
  an alert has either moved on from the alert's crossing for good, or will
  repeat it only for a publication more than a TTL later (`Settled`): until the
  job completes, the run is pending, and after it has, the row has the alert's
  moments. `HeldInv` adds that the alert of a live event belongs to the job that
  holds it, `StartedInv` that a job which may land has seen all that was written to the row.

The other modules prove the properties of one component each, or of a few
that share the lock, for all values of the constants that satisfy the assumptions
of the modules they extend. Each property has an inductive invariant of its own, one
case per action and, where
many actions change the same thing in the same way, a lemma for that way.

- `RunnerHasOneChain: RunnerSpec => []OneChain` (in `WorkerJobsProofs`, with
  the other periodic jobs), without assumptions. `ChainInv`
  adds what `activeRun` and `timeoutId` say: there is a run exactly if the first
  is set, a timer exactly if the second is armed. That is why `start()` may look
  at the first and `stop()` clear the second.
- `CacheIsNotStale: PromptSpec => []NoStaleCache`. The cache is fresh because of
  what the readers carry: `CacheInv` says that a result in a reader is up to date
  or the reader is `late`, that a result about to be stored is complete, and that
  a token which may yet become the epoch has no entry and no second owner
  (`Unused`). Without the last, `SET NX` could put an old entry in force.
- `NoHourIsSkipped: MeteringSpec => []NoHourUnbilled`. `HoursInv`: the hours
  before the one a job has read, and the meters it has done of that, are billed;
  nothing undoes a bill, so what held when the job read the row holds when it
  moves the row on, whatever other jobs did to it in between.
- `NothingIsBilledTwice: MeteringSpec => []BilledOnce`. `OnceInv`: until there is
  an incident, one job reports, at the hour of the row, whose remaining meters
  are not billed, nor is anything after it (`Ahead`).
- `NothingMarkedUndeleted: DeletionSpec => []MarkedWasDeleted`. `DeletionInv`: who
  is about to mark has deleted all of its traces' data but what was asked for
  since.
- `SharedFilesAreKept: DeletionSpec => []FilesKept` and `NoFileIsOrphaned:
  DeletionSpec => []NoOrphans`, from `DeletionAssumption`. `MediaInv`, on top of
  `DeletionInv`: until something is `raced`, an upload under way has its row and
  what it has sent, and no deletion removes the file meanwhile; who removes the
  file has all that refer to it, and who does not leaves another reference unless
  it was beaten to it; and who deletes data or marks has removed its traces'
  references before (`DeleterLinks`). So what is marked refers to nothing, and a
  reference that a deletion leaves behind when it dies is of a trace still pending.
  The last part is false if a reference is made for a trace that is
  being deleted: that is why `raced` covers it, and `DeletionBound` admits it.
- `OneDeleteAtATime: RetentionSpec => []DeletesExclude`, from
  `RetentionAssumption`, of which `Latency + Grace < Buffer` is what matters. `LeaseInv`:
  the lock of a worker that deletes lives longer than its DELETE; once the
  renewal before the DELETE is granted, the lock has all of its time to live but
  the way of the answer; and the DELETE of a dead worker ends before the lock it
  left, which no one else can take meanwhile, the grace included. So it is the forced
  renewal that excludes a second DELETE, as long as somebody awaits it or its worker
  has died: a DELETE whose request broke off is not counted, since the lock is released
  under it (`retention_overlap`).
- `LeaseIsKept: ASSUME ShortQueries PROVE RetentionSpec => []LeaseKept`: what the
  throttled renewals of the search are for. `Healthy` says of a run without faults
  that the lock is its own; that a renewal under way, or the next one, will reach
  Redis before the lock lapses; and that no query has so much of its timeout left
  that the lock would not outlive it. `ShortQueries` is what
  this takes at the worst: a renewal is answered after `Latency`, a query begins just
  before the next is due, takes `QueryTime`, and the renewal at its end takes
  `Latency` again; all of that must be shorter than the time to live. Nothing in
  the code checks it, but its defaults are far from the limit (a query 180 s, the
  interval between renewals 1300 s, the time to live 3900 s). A query timeout
  beyond two thirds of the time to live would violate it, and then TLC finds a run
  that loses its lock.

- `NothingIsSkipped: BatchSpec => []NothingSkipped` and `FinishedActionsStay:
  BatchSpec => FinishedStays`, from `BatchAssumption`. `BatchInv`: a run that
  carries a state of its row's present request carries a complete one (all pages
  before its page are deleted and counted), and its page is deleted once it
  counts it, though others may have advanced the row meanwhile: an older state
  repeats pages but skips none. States of an earlier request never match, since
  requests only grow. What the lock is good for is in `OwnerInv`: the owner's
  state is of the present request and its action is active, unless an overtaken
  run wrote the row. From this the second theorem follows: a finished row is
  written only by a run that is no longer the owner. `BatchSpec` is the
  component with its lock to itself.
- The types of each: `RunnerIsTyped`, `RetentionIsTyped`, `BatchIsTyped`,
  `DeletionIsTyped`, `MeteringIsTyped`, `CacheIsTyped`. They say more than that a
  variable has a shape: no clock shows more than it was set to (`RetentionBounds`);
  a deletion never counts more pages than its query has, nor more failures than
  allowed, and every two rows of `batch_actions` are in one order (`BatchBounds`);
  no deletion job refers to a request that was not made, or has attempts left
  after its last (`DeletionBounds`); nobody has read a claim that was not made
  (`MeteringBounds`) or cached a prompt that there never was (`VersionsInv`). None of
  them is inductive without the invariants above: that a run cannot count a page
  too many, for one, takes `BatchInv`.

Side by side (`WorkerJobs`), from `KeysAssumption` on top of these:

- `JobsTyped`, `JobsAreSafe`: `JobsSpec` keeps all the types and invariants above;
  `JobsLeaveTheLease` and `JobsLeaveFinishedAlone` add `LeaseKept` (with
  `ShortQueries`) and `FinishedStays`. Four of the components simply are parts of
  the whole (`PartsOfTheWhole`). The two with a lock are not, since each sees the
  lock variable change under the other's steps. `CleanerHasItsKey` and
  `RunnerHasItsKey` say that these change another key, and `CleanerStandsStill` and
  `RunnerStandsStill` that the invariants rest on one's own; so `LockInv`, all of
  them together, is inductive.
- `RunIsOfTheJobs: Spec => JobsSpec`: what holds of the jobs side by side holds
  of the run `jobs`, whose behaviours are about one of them. So its liveness is
  checked for each component alone.

What the proofs add to the runs: the ghost variables that name the exceptions
(`late`, `incident`, `unlucky`, `raced`, `outrun`, `hollow`, `orphaned`, `brokenOff`,
and `overtaken` of batch actions and of monitors) are enough for any number of
readers, jobs, schedulers and deleters, not just for the two of each in the instance.

Only model-checked, on the instances of section 5: liveness (`Settles`,
`ShutdownReturns`, `Completes`, `SerialJobsEnd`, `LostLockFreed`, `Finishes`,
`RequestsDone`, `MeteringProceeds`), which is out of reach of TLAPS, as is
ENABLED.

## 8. Where code and documentation part

- **`writer_shutdown`**: `shutdown()` awaits only the flushes it starts; one that
  `addToQueue` or the timer started is still in flight when it returns, although
  `utils/shutdown.ts:79` speaks of all pending writes.
- **`migrations_abort`**: a migration that notices the abort before `close()` has
  cleared `activeMigration` is marked as finished.
- **`migrations_pickup`**: a worker that finds the lock taken leaves `run()` for
  good, so nobody up picks the migration up when the lock lapses.
- **`ingestion_seen`**: the seen keys are set before the merge; the retry of a
  job that fails in between is skipped as processed.
- **`monitors_updates`**: two overlapping updates leave the filters of one beside
  the fingerprint of the other, and the monitor is then evaluated in the batch of
  a different query.

- **`retention_overlap`**: a DELETE whose request fails in the client (a reset
  socket, a timeout) goes on in ClickHouse while its lock is released at once, so
  that another worker's DELETE of the table joins it, although the class says that
  only one worker deletes from a table at a time. Both delete expired rows: the
  load is doubled, no data is harmed.
- **`metering_duplicates`**: the metering queue calls the handler idempotent and
  additional jobs harmless. The claim compares the row's state, which is the same
  again once another job has reported the hour and left the row queued, and not
  `lastRun`: a job that read the row before that claims it after, and reports the
  hour again, without anything having failed. It has to stall for as long as the
  queue's limiter holds back the other job, 30 seconds.

Each quotes its line in `findings` of `PROJECT.json`. Without a run of their own,
visible as the hypothesis of `EnoughHalvings` (the first) or as exceptions in the
properties of `jobs`:

- the comment of `handleStringLengthError` (`ClickhouseWriter/index.ts:171`) says that
  halving should eventually avoid the error. Halving ends with `numOfAttempts`; a
  batch that needs more halvings spends the attempts of its rows and drops rows that
  fit alone.
- the `catch` of the metering processor gives up whatever claim there is, which
  may be another job's.
- a deletion that ends between the file and its row leaves a row that says
  "uploaded" without a file, and later uploads of the same content refer to it
  instead of storing it, until a deletion of those traces is retried.
- a reader that read a prompt before a change and takes the epoch for storing it
  after the change was announced puts the replaced text under the new epoch,
  where it stays for its time to live (`LANGFUSE_CACHE_PROMPT_TTL_SECONDS`).

## 9. What is not modelled

- Components: those of section 1 without a module, for the reasons `PROJECT.json`
  gives with each.
- *Writer*: metrics, logging, the shape of rows.
- *Migrations*: the other migration scripts; arguments and environment gates
  other than their outcome.
- *Ingestion*: how fields are merged, sessions' rows, sampling, masking,
  authorisation, the direct insert of dataset run items, `maxStalledCount`, ties
  of `event_ts` within a millisecond, the lower bound of the ClickHouse read, the
  read that may be skipped for new projects.
- *Monitors*: the window a query covers and its text, `SUBSTITUTE_ZERO` (it turns a
  missing value into a compared one), edits of the metric alone, clocks that
  differ between hosts, more than one automation, the rest of the events of a tick
  after a failed `Promise.all` beyond being published or not.

- *Lock*: mode `proceed` as steps of its own (in `Monitors` it is what lets several
  schedulers run); the jitter before `SET`; an instance without Redis.
- *Cleaners*: the lock of the trace deletion cleaner, which it does not renew and
  which may lapse (its model has none); the other cleaners; metrics of backlogs.
- *Batch deletion*: which traces a page has, traces that arrive after
  `cutoffCreatedAt`; two rows for one query.
- *Deletion*: `shouldSkipDeletion` of requests and jobs (the work is then left to
  the cleaner), media of dataset items, uploads by presigned URL, several
  contents, files of ingested events.
- *Metering*: which organisations there are, spend alerts.
- *Prompts*: versions, labels, dependencies and their resolution, readers that do
  not resolve, the page of the UI.

## 10. Running the checks

    tlc -config MCClickhouseWriter.cfg MCClickhouseWriter
    tlapm ClickhouseWriterProofs.tla

and likewise for the other modules and configurations in `runs` of
`PROJECT.json`. The longest run, `jobs`, takes less than three minutes, the longest proofs,
`WorkerJobsProofs`, ten. Deadlock is not
checked where the system may stop: when the process has ended, all jobs are
done, or the modelled time is over.
