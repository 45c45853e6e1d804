SPECIFICATION FairSpec
CONSTANTS
  m1 = m1
  m2 = m2
  None = None
  Torn = Torn
  Messages = {m1, m2}
  Dated = {}
  SinceFilter = FALSE
  Cap = 2
  FetchBatch = 2
  MaxUid = 2
  MaxEpochs = 2
  MaxFaults = 0
  MaxStops = 0
PROPERTY RenumberedIngested
