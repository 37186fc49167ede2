\* Two conversations served in parallel, three tasks and four events each at most,
\* queues of two: sentinels and events meet full queues.
SPECIFICATION Spec
CONSTANTS
  Conversations = {c1, c2}
  MaxQueueSize = 2
  MaxConcurrentConvs = 2
  MaxMessages = 4
  MaxTasks = 3
\* The system stops: a stopped consumer, or a worker blocked on its own queue.
CHECK_DEADLOCK FALSE
INVARIANTS
  TypeOK
  NeverParallel
  NothingSkipped
  LostOnlyBehindChatEnd
PROPERTIES
  OrderedService
