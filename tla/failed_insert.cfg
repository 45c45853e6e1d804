SPECIFICATION FairSpec
CONSTANTS
  m1 = m1
  m2 = m2
  None = None
  Torn = Torn
  Messages = {m1, m2}
  Dated = {}
  SinceFilter = FALSE
  Cap = 2
  FetchBatch = 2
  MaxUid = 2
  MaxEpochs = 1
  MaxFaults = 1
  MaxStops = 0
PROPERTY FailedInsertsRetried
