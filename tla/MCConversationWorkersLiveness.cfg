\* One permit: the second conversation waits for the semaphore, also during shutdown.
SPECIFICATION FairSpec
CONSTANTS
  Conversations = {c1, c2}
  MaxQueueSize = 2
  MaxConcurrentConvs = 1
  MaxMessages = 3
  MaxTasks = 3
\* The system stops: a stopped consumer, or a worker blocked on its own queue.
CHECK_DEADLOCK FALSE
PROPERTIES
  Served
  StarvesBehindHolders
  StopCompletes
