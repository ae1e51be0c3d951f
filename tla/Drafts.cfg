SPECIFICATION Spec
CONSTANTS
  streamed = streamed
  posted = posted
  Tasks = {streamed, posted}
  CallbackTasks = {posted}
  ReasoningTasks = {streamed}
  Texts <- MCTexts
  MaxFlushed = 1
  MaxEdits = 3
CHECK_DEADLOCK FALSE
INVARIANTS EveryChunkHasItsPlace FinalTextShown NoRepeatedMessage
PROPERTY ImplementsDisplay
