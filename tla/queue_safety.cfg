SPECIFICATION Spec
CONSTANTS
  logger = logger
  webhook = webhook
  r1 = r1
  Events = {1}
  Processors = {logger, webhook}
  MaxRetries <- MCMaxRetries
  Configs <- MCAllOrNone
  BatchSize = 2
  SweepLimit = 2
  ChannelCap = 1
  Replayers = {r1}
  MaxFaults = 1
  MaxStops = 1
  MaxReplays = 1
INVARIANT QueueInv
INVARIANT ClaimHeld
INVARIANT OneExecutor
INVARIANT AttemptsBounded
INVARIANT OwedWorkKept
PROPERTY FinishedJobsStay
PROPERTY RoutedOnce
PROPERTY ImplementsLifecycle
CHECK_DEADLOCK FALSE
