SPECIFICATION AdapterFairSpec
CONSTANTS
  t1 = t1
  t2 = t2
  chat = chat
  reasoning = reasoning
  session = session
  resumer = resumer
  Tasks = {t1}
  Chats = {chat, reasoning}
  Sessions = {session}
  ChatOf <- MCChatOf
  SessionOf <- MCSessionOf
  ReasoningChats = {reasoning}
  CallbackTasks = {}
  MaxConcurrent = 1
  DedupCap = 2
  PreludeSessions = {}
  ClientRetries = TRUE
  SendKinds = {"message"}
  MaxHandles = 1
  MaxSends = 1
  MaxReconnects = 1
  Clients = {resumer}
  ClientSession <- MCClientSession
  Resuming = {resumer}
  Sizes = {1, 2}
  MaxEventBytes = 1
  BacklogEvents = 1
  BacklogBytes = 1
  MaxSessions = 1
  PerSession = 1
  Total = 1
  Expiry = FALSE
  MaxConns = 2
  MaxTyping = 1
CHECK_DEADLOCK FALSE
INVARIANTS NotBusyAfterEnd EndedIsDuplicate
PROPERTY EndReachesReader
