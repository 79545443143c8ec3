SPECIFICATION RetentionSpec
CONSTANTS
  Workers = {w1, w2}
  Keys = {retention}
  RetentionKey = retention
  TTL <- MCTTL
  NoOwner = NoOwner
  Gone = Gone
  Chunks = {c1}
  QueryConcurrency = 1
  QueryTime = 2
  DeleteTime = 3
  Grace = 1
  Buffer = 3
  Latency = 1
  MaxRetentionFaults = 1
INVARIANT
  OneWorkerDeletes
