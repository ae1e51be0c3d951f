SPECIFICATION Spec
CONSTANTS
  streamed = streamed
  plain = plain
  Requests = {streamed, plain}
  Streamed = {streamed}
  MaxPings = 2
CHECK_DEADLOCK FALSE
INVARIANTS NoOrphanCall OffUntilPing
PROPERTIES AbandonedCallStops PatientClientIsTold
