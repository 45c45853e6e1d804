SPECIFICATION FairSpec
CONSTANTS
  m1 = m1
  m2 = m2
  m3 = m3
  None = None
  Torn = Torn
  Messages = {m1, m2, m3}
  Dated = {m1}
  SinceFilter = TRUE
  Cap = 1
  FetchBatch = 1
  MaxUid = 3
  MaxEpochs = 2
  MaxFaults = 1
  MaxStops = 1
INVARIANT CheckpointCovers
INVARIANT CheckpointedIntact
INVARIANT AnnouncedOnce
INVARIANT CheckpointBelowNext
PROPERTY CheckpointForward
PROPERTY DeliveredHandled
