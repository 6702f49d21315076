SPECIFICATION Spec
CONSTANTS
  Entries = {e1}
  Workers = {w1, w2}
  Posts = {p1}
  NoPost = NoPost
  NoEntry = NoEntry
  EntryMaxAttempts = 2
  BackoffSchedule <- OneUnit
  TenantInCtx = TRUE
  StuckThreshold = 0
  MaxHold = 1
  MaxOverdue = 1
  MaxFaults = 1
  MaxManualRetries = 1
  MaxUserOps = 1
SYMMETRY Symmetry
CONSTRAINT FewCalls
INVARIANTS NeverFailsEarly DoneWasSent
PROPERTIES DoneForGood PublishesWhatIsStored
