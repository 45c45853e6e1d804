SPECIFICATION FairSpec
CONSTANTS
  Emails <- ThreeEmails
  Readings <- LegsAndMore
  NoRow = NoRow
  Limit = 3
  PageSize = 3
  Concurrency = 2
  MaxRetries = 1
  FailFast = TRUE
  MaxDeletes = 1
  MaxFaults = 1
  MaxKills = 1
INVARIANT TypeOK
INVARIANT OncePerRun
INVARIANT SummaryAddsUp
INVARIANT CountedProcessed
INVARIANT BookedOnce
INVARIANT CountedOnce
INVARIANT NothingLost
PROPERTY RunEnds
CHECK_DEADLOCK FALSE
