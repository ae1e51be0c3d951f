SPECIFICATION Spec
CONSTANTS
  resumer = resumer
  fresh = fresh
  t1 = t1
  t2 = t2
  t3 = t3
  s1 = s1
  s2 = s2
  Sessions = {s1, s2}
  Clients = {resumer}
  Tasks = {t1, t3}
  SessionOf <- MCSessionOf
  Resuming = {resumer}
  Sizes = {2, 4}
  MaxEventBytes = 4
  BacklogEvents = 2
  BacklogBytes = 3
  MaxSessions = 1
  PerSession = 1
  Total = 1
  Expiry = TRUE
  MaxCaptures = 4
  MaxProgress = 0
  MaxConns = 2
  MaxRestarts = 1
CHECK_DEADLOCK FALSE
INVARIANTS ReceivedOnceInOrder NoRetainedEventSkipped CountersAccurate
PROPERTY CaptureIsRetained
