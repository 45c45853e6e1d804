SPECIFICATION FairSpec
CONSTANTS
  inbox = inbox
  sent = sent
  archive = archive
  Mailboxes = {inbox, sent, archive}
  Failures = 3
INVARIANT TypeOK
INVARIANT OneWatcher
INVARIANT CrashLoopThrottled
PROPERTY AllDownRestarted
PROPERTY ShutdownEnds
CHECK_DEADLOCK FALSE
