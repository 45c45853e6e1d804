SPECIFICATION FairSpec
CONSTANTS
  logger = logger
  webhook = webhook
  Events = {1, 2}
  Processors = {webhook}
  MaxRetries <- MCWebhookRetries
  Configs <- MCAllOrNone
  BatchSize = 1
  SweepLimit = 2
  ChannelCap = 1
  Replayers = {}
  MaxFaults = 1
  MaxStops = 2
  MaxReplays = 0
PROPERTY EventsDispatched
PROPERTY QueuedJobsTaken
CHECK_DEADLOCK FALSE
