SPECIFICATION FairSpec
CONSTANTS
  MaxUid = 4
  Batch = 2
  Orders <- BothOrders
  IdleAnswers <- BothAnswers
  SinceFilter = TRUE
  Dated <- SecondDated
  Cap = 2
  MaxTroubles = 1
PROPERTY MailStored
CHECK_DEADLOCK FALSE
INVARIANT InStep
INVARIANT NoneSkipped
INVARIANT IdleNotices
