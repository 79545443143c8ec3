SPECIFICATION Spec
CONSTANTS
  Meterers = {w1, w2}
  Meters = 2
  StripeAttempts = 2
  MaxHours = 2
  MaxMeteringJobs = 2
  MaxMeteringFaults = 0
INVARIANT
  DuplicatesAreHarmless
