SPECIFICATION FairSpec
CONSTANTS
  Docs <- TwoDocs
  Missing = Missing
  MaxVersion = 2
  BatchSize = 2
  MaxSends = 3
  MaxRequeues = 1
  MaxRebuilds = 1
  MaxFaults = 1
  MaxStops = 1
INVARIANT IndexedSearchable
INVARIANT IndexRecoverable
PROPERTY PendingSettled
CHECK_DEADLOCK FALSE
