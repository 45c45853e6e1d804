SPECIFICATION FairSpec
CONSTANTS
  logger = logger
  webhook = webhook
  Events = {1}
  Processors = {logger, webhook}
  MaxRetries <- MCMaxRetries
  Configs <- MCAll
  BatchSize = 2
  SweepLimit = 2
  ChannelCap = 1
  Replayers = {}
  MaxFaults = 0
  MaxStops = 1
  MaxReplays = 0
PROPERTY InterruptedJobsResume
CHECK_DEADLOCK FALSE
