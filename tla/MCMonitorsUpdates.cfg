SPECIFICATION Spec
CONSTANTS
  m1 = m1
  m2 = m2
  s1 = s1
  s2 = s2
  k1 = k1
  k2 = k2
  p1 = p1
  p2 = p2
  MonitorIds = {m1}
  Shapes = {s1, s2}
  Schedulers = {k1}
  Processors = {p1, p2}
  Users = {1, 2}
  NoDataModes <- MCOneMode
  Renotify <- MCOneRenotify
  NoDataDelay = 1
  Values = {"OK", "ALERT", "null", "ErrorBadQuery"}
  TTL = 1
  Cadence = 3
  MaxClock = 3
  MaxLate = 0
  MaxFailures = 0
  MaxUpdates = 2
SYMMETRY ProcessSymmetry
INVARIANT
  FingerprintFits
\* time ends at MaxClock
CHECK_DEADLOCK FALSE
