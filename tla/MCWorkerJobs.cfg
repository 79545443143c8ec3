SPECIFICATION Spec
CONSTANTS
  Workers = {w1, w2}
  Keys = {retention, batch}
  RetentionKey = retention
  RunnerKey = batch
  TTL <- MCTTL
  NoOwner = NoOwner
  Gone = Gone
  Chunks = {c1, c2}
  QueryConcurrency = 2
  QueryTime = 2
  DeleteTime = 2
  Grace = 1
  Buffer = 3
  Latency = 1
  MaxRetentionFaults = 1
  Actions = {a1, a2}
  MaxBatches = 2
  MaxFailures = 2
  PageCounts = {0, 3}
  MaxRequests = 2
  MaxBatchFaults = 2
  Traces = {t1, t2}
  Deleters = {w1, w2}
  BatchSize = 2
  MaxAttempts = 2
  CleanerEnabled = TRUE
  MaxDeletionRequests = 2
  MaxIngests = 1
  MaxUploads = 1
  MaxDeletionFaults = 2
  Meterers = {w1, w2}
  Meters = 2
  StripeAttempts = 2
  MaxHours = 2
  MaxMeteringJobs = 2
  MaxMeteringFaults = 1
  MaxChains = 3
  Prompts = {p, q}
  Root = p
  PromptReaders = {r1, r2}
  MaxWrites = 2
  MaxPromptFaults = 1
INVARIANTS
  TypeOK
  DeletesExclude
  LeaseKept
  NothingSkipped
  MarkedWasDeleted
  FilesKept
  NoOrphans
  NoHourUnbilled
  BilledOnce
  OneChain
  NoStaleCache
PROPERTIES
  FinishedStays
  LostLockFreed
  Finishes
  RequestsDone
  MeteringProceeds
