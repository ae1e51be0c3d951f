SPECIFICATION Spec
CONSTANTS
  t1 = t1
  t2 = t2
  t3 = t3
  chat = chat
  reasoning = reasoning
  session = session
  Tasks = {t1, t2}
  Chats = {chat, reasoning}
  Sessions = {session}
  ChatOf <- MCOneChat
  SessionOf <- MCSessionOf
  ReasoningChats = {reasoning}
  CallbackTasks = {t2}
  MaxConcurrent = 2
  DedupCap = 2
  PreludeSessions = {session}
  ClientRetries = TRUE
  SendKinds <- RepliesAndNotices
  MaxHandles = 2
  MaxSends = 1
  MaxReconnects = 1
CHECK_DEADLOCK FALSE
INVARIANTS ChatSerialized OneTerminal QuietAfterTerminal InterruptHitsRunningTurn
