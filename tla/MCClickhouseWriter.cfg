SPECIFICATION FairSpec
CONSTANTS
  traces = traces
  scores = scores
  Tables = {traces, scores}
  Rows = 4
  TableOf <- MCTableOf
  BatchSize = 2
  MaxAttempts = 2
  MaxJoined = 1
  Huge = {1}
INVARIANTS
  TypeOK
  HeldOnce
  AttemptsAccounted
PROPERTIES
  BufferSpec
  Settles
  ShutdownReturns
\* the process exits once the writer has stopped and no flush is in flight
CHECK_DEADLOCK FALSE
