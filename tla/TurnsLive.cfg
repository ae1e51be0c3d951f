SPECIFICATION FairSpec
CONSTANTS
  t1 = t1
  t2 = t2
  t3 = t3
  chat = chat
  reasoning = reasoning
  session = session
  Tasks = {t1, t3}
  Chats = {chat, reasoning}
  Sessions = {session}
  ChatOf <- MCChatOf
  SessionOf <- MCSessionOf
  ReasoningChats = {reasoning}
  CallbackTasks = {t3}
  MaxConcurrent = 1
  DedupCap = 2
  PreludeSessions = {session}
  ClientRetries = FALSE
  SendKinds <- Replies
  MaxHandles = 2
  MaxSends = 1
  MaxReconnects = 0
CHECK_DEADLOCK FALSE
INVARIANTS InflightAccurate ReasoningHeldBack
PROPERTIES EveryTurnFinishes InflightDrains
