SPECIFICATION MCSpec
CONSTANTS
  r1 = r1
  r2 = r2
  r3 = r3
  t = t
  o = o
  Requests = {r1, r2, r3}
  Entities = {t, o}
  Count = 4
  RequestOf <- MCRequestOf
  EntityOf <- MCEntityOf
  SkipList = {o}
  SeenCache = TRUE
  Slots = 2
  Attempts = 2
  MaxJobs = 3
  MaxRows = 5
  MaxFaults = 2
INVARIANTS
  TypeOK
  AcceptedIsAnsweredFor
  Converges
PROPERTIES
  NothingUnshown
  SerialJobsEnd
\* the system is idle when every request is accepted and every job has ended
CHECK_DEADLOCK FALSE
