SPECIFICATION Spec
CONSTANTS
  Entries = {e1}
  Workers = {w1}
  Posts = {p1}
  NoPost = NoPost
  NoEntry = NoEntry
  EntryMaxAttempts = 2
  BackoffSchedule <- OneUnit
  TenantInCtx = FALSE
  StuckThreshold = 1
  MaxHold = 1
  MaxOverdue = 1
  MaxFaults = 0
  MaxManualRetries = 0
  MaxUserOps = 0
INVARIANTS UntriedMeansDeleted
