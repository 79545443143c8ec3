SPECIFICATION MCSpec
CONSTANTS
  m1 = m1
  m2 = m2
  s1 = s1
  s2 = s2
  k1 = k1
  k2 = k2
  p1 = p1
  p2 = p2
  MonitorIds = {m1, m2}
  Shapes = {s1, s2}
  Schedulers = {k1, k2}
  Processors = {p1, p2}
  Users = {1}
  NoDataModes <- MCNoDataModes
  Renotify <- MCRenotify
  NoDataDelay = 1
  Values = {"OK", "ALERT", "null", "ErrorBadQuery"}
  TTL = 1
  Cadence = 3
  MaxClock = 5
  MaxLate = 1
  MaxFailures = 1
  MaxUpdates = 1
SYMMETRY ProcessSymmetry
INVARIANTS
  TypeOK
  BreachAlerted
  AlertsSpaced
  PublishedInTime
  LandsOnItsOwn
\* time ends at MaxClock
CHECK_DEADLOCK FALSE
