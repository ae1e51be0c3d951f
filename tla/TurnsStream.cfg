SPECIFICATION Spec
CONSTANTS
  t1 = t1
  t2 = t2
  t3 = t3
  chat = chat
  reasoning = reasoning
  session = session
  Tasks = {t1, t2, t3}
  Chats = {chat, reasoning}
  Sessions = {session}
  ChatOf <- MCChatOf
  SessionOf <- MCSessionOf
  ReasoningChats = {reasoning}
  CallbackTasks = {}
  MaxConcurrent = 1
  DedupCap = 3
  PreludeSessions = {}
  ClientRetries = TRUE
  SendKinds <- RepliesAndChunks
  MaxHandles = 3
  MaxSends = 2
  MaxReconnects = 0
SYMMETRY ChatTasks
CHECK_DEADLOCK FALSE
INVARIANTS TypeOK TaskRunsOnce CacheAgreesWithStream ReplyFindsItsTurn NoReasoningLeak
