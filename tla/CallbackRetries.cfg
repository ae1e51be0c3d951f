SPECIFICATION Spec
CONSTANTS
  reply = reply
  typing = typing
  Deliveries = {reply, typing}
  Progress = {typing}
  MaxAttempts = 4
  Statuses <- MCStatuses
  MaxSessions = 2
CHECK_DEADLOCK FALSE
INVARIANT BoundedCopies
PROPERTY ImplementsDelivery
