SPECIFICATION FairSpec
CONSTANTS
  Entries = {e1, e2}
  Workers = {w1, w2}
  Posts = {p1}
  NoPost = NoPost
  NoEntry = NoEntry
  EntryMaxAttempts = 2
  BackoffSchedule <- OneUnit
  TenantInCtx = TRUE
  StuckThreshold = 2
  MaxHold = 1
  MaxOverdue = 1
  MaxFaults = 1
  MaxManualRetries = 0
  MaxUserOps = 0
INVARIANTS
  ExclusiveClaim
  AttemptsAreCounted
PROPERTIES
  KeepsPromiseEventually
