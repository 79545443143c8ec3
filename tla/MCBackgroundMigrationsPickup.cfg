SPECIFICATION FairSpec
CONSTANTS
  w1 = w1
  w2 = w2
  Workers = {w1, w2}
  Count = 3
  Dormant = {1}
  Batches = 2
  Incidents = {"kill"}
  MaxIncidents = 1
  None = None
PROPERTY
  AnotherPicksUp
\* the run loops end, and the processes may be gone
CHECK_DEADLOCK FALSE
