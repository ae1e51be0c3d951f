SPECIFICATION FairSpec
CONSTANTS
  resumer = resumer
  fresh = fresh
  t1 = t1
  t2 = t2
  t3 = t3
  s1 = s1
  s2 = s2
  Sessions = {s1, s2}
  Clients = {resumer, fresh}
  Tasks = {t1, t2}
  SessionOf <- MCSessionOf
  Resuming = {resumer}
  Sizes = {1}
  MaxEventBytes = 1
  BacklogEvents = 1
  BacklogBytes = 1
  MaxSessions = 1
  PerSession = 2
  Total = 2
  Expiry = FALSE
  MaxCaptures = 2
  MaxProgress = 1
  MaxConns = 2
  MaxRestarts = 0
CHECK_DEADLOCK FALSE
INVARIANT ProgressIsFresh
PROPERTIES QueuedEventArrives DroppedReaderIsReleased
