SPECIFICATION Spec
CONSTANTS
  Emails <- ThreeEmails
  Readings <- OnlyLegs
  NoRow = NoRow
  Limit = 3
  PageSize = 3
  Concurrency = 2
  MaxRetries = 1
  FailFast = TRUE
  MaxDeletes = 0
  MaxFaults = 1
  MaxKills = 1
INVARIANT NothingDropped
CHECK_DEADLOCK FALSE
