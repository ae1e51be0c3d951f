SPECIFICATION Spec
CONSTANTS
  t1 = t1
  t2 = t2
  t3 = t3
  chat = chat
  reasoning = reasoning
  session = session
  Tasks = {t1, t2}
  Chats = {chat, reasoning}
  Sessions = {session}
  ChatOf <- MCOneChat
  SessionOf <- MCSessionOf
  ReasoningChats = {reasoning}
  CallbackTasks = {t1}
  MaxConcurrent = 1
  DedupCap = 2
  PreludeSessions = {}
  ClientRetries = TRUE
  SendKinds <- Replies
  MaxHandles = 3
  MaxSends = 0
  MaxReconnects = 0
CHECK_DEADLOCK FALSE
INVARIANT InflightAccurate
