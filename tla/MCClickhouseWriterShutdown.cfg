SPECIFICATION Spec
CONSTANTS
  traces = traces
  scores = scores
  Tables = {traces, scores}
  Rows = 2
  TableOf <- MCOneTable
  BatchSize = 2
  MaxAttempts = 2
  MaxJoined = 1
  Huge = {}
INVARIANT
  ShutdownFlushesAll
CHECK_DEADLOCK FALSE
