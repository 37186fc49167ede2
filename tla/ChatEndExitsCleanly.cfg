\* A full queue when a chat_end is handled.
SPECIFICATION FairSpec
CONSTANTS
  Conversations = {c1}
  MaxQueueSize = 1
  MaxConcurrentConvs = 1
  MaxMessages = 2
  MaxTasks = 1
CHECK_DEADLOCK FALSE
PROPERTY
  ChatEndExitsCleanly
