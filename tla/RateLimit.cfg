\* One source, two requests at a time, a bucket of two tokens.
CONSTANTS
  Requests = {r1, r2}
  Users = {}
  a1 = a1
  Origins <- OneOrigin
  TrustProxy = FALSE
  Burst = 2
  Interval = 2
  Second = 3
  IdleTTL = 2
  MaxPause = 2
  MaxTime = 7
  MaxDebt = 2
  None = None
SPECIFICATION Spec
SYMMETRY Symmetry
INVARIANTS
  RateHolds
  RefusedForAReason
  RetryAfterIsEnough
CHECK_DEADLOCK FALSE
