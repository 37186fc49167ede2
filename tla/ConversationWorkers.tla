------------------------ MODULE ConversationWorkers ------------------------
(***************************************************************************)
(* The dispatcher of the real-time consumer, consumer/kafka_consumer.py:   *)
(* one bounded queue and one worker task per conversation, a semaphore     *)
(* that caps the workers that run, a sentinel (Python's None) that ends a  *)
(* worker, and the shutdown sequence of stop_consumer.                     *)
(*                                                                         *)
(* Everything runs on one asyncio event loop: a task runs without          *)
(* interruption until it awaits something that is not ready.  An action    *)
(* is such a run, from one suspension to the next.  In particular, a       *)
(* worker that returns from a handler, puts the sentinel in a queue with   *)
(* room and finds an item in its queue does all that in one step.          *)
(*                                                                         *)
(* A task and the queue made with it share one identity, a number; tasks   *)
(* are numbered in the order of their creation, which is also the order    *)
(* of the keys in the dictionaries _conv_queues and _conv_workers and the  *)
(* order in which tasks ask for the semaphore.  The queue of a finished    *)
(* task keeps what was left in it: nobody will read it again.              *)
(***************************************************************************)
EXTENDS Naturals, Sequences, FiniteSets

CONSTANTS
  Conversations,       \* conversation ids (the Kafka message keys)
  MaxQueueSize,        \* _MAX_QUEUE_SIZE
  MaxConcurrentConvs,  \* _MAX_CONCURRENT_CONVS
  MaxMessages,         \* bound: events Kafka delivers per conversation
  MaxTasks             \* bound: worker tasks created in one run of the process

ASSUME Assumptions ==
  /\ Conversations # {}
  /\ MaxQueueSize \in Nat \ {0}
  /\ MaxConcurrentConvs \in Nat \ {0}
  /\ MaxMessages \in Nat
  /\ MaxTasks \in Nat

VARIABLES
  convQueues,  \* _conv_queues and _conv_workers: conversation -> its task, or NoTask
  created,     \* number of tasks created so far
  owner,       \* task -> the conversation it was created for
  state,       \* task -> where it is suspended
  queue,       \* task -> contents of its asyncio.Queue
  current,     \* task -> the payload being handled
  permits,     \* value of _worker_semaphore
  loop,        \* what _consume_loop is blocked on in put(), or Ready
  phase,       \* "running", or how far stop_consumer got
  pending,     \* tasks whose queue stop_consumer has not put a sentinel into yet
  received,    \* history: number of events of a conversation taken from Kafka
  started,     \* history: number of the last event of a conversation given to a handler
  ended        \* history: task -> number of the last chat_end it handled, 0 if none

vars == <<convQueues, created, owner, state, queue, current, permits, loop,
          phase, pending, received, started, ended>>

Tasks   == 1 .. MaxTasks
NoTask  == 0
Kinds   == {"event", "chat_end"}  \* "event": any payload other than a chat_end
Message == [id : 1 .. MaxMessages, kind : Kinds]
None    == [id |-> 0, kind |-> "none"]  \* the sentinel; also "no payload at hand"
Ready   == [task |-> NoTask, msg |-> None]

\* A task holds a permit of the semaphore from its first step to its last.
\* "waiting": not yet past `async with _worker_semaphore`
\* "idle":    in queue.get() on an empty queue (or woken from it, not yet run)
\* "handling": inside the handler of current
\* "ending":  in q.put(None) on its own full queue
HoldsPermit(t) == state[t] \in {"idle", "handling", "ending"}
Live(t)        == state[t] = "waiting" \/ HoldsPermit(t)

\* asyncio.Queue.full
FullPastLimit(t) == Len(queue[t]) > MaxQueueSize
Full(t)          == Len(queue[t]) >= MaxQueueSize

\* asyncio.Queue.put on a queue that has room
PutInFront(q, x) == <<x>> \o q
Put(q, x)        == Append(q, x)

Init == /\ convQueues = [c \in Conversations |-> NoTask]
        /\ created = 0
        /\ owner \in [Tasks -> {CHOOSE c \in Conversations : TRUE}]
        /\ state = [t \in Tasks |-> "unborn"]
        /\ queue = [t \in Tasks |-> <<>>]
        /\ current = [t \in Tasks |-> None]
        /\ permits = MaxConcurrentConvs
        /\ loop = Ready
        /\ phase = "running"
        /\ pending = {}
        /\ received = [c \in Conversations |-> 0]
        /\ started = [c \in Conversations |-> 0]
        /\ ended = [t \in Tasks |-> 0]

-----------------------------------------------------------------------------
(* _consume_loop *)

\* `conversation_id in _conv_queues`; the variant takes a queue whose chat_end was
\* handled for a dead one
HasOpenQueue(c) == convQueues[c] # NoTask /\ ended[convQueues[c]] = 0
HasQueue(c)     == convQueues[c] # NoTask

\* A message of conversation c leaves Kafka.  Without a queue for c, a queue and
\* a task are created; then the payload is put, or the loop blocks in put().
Spawn(c, m) ==
  LET t == created + 1
  IN  /\ t \in Tasks
      /\ created' = t
      /\ convQueues' = [convQueues EXCEPT ![c] = t]
      /\ owner' = [owner EXCEPT ![t] = c]
      /\ state' = [state EXCEPT ![t] = "waiting"]
      /\ queue' = [queue EXCEPT ![t] = <<m>>]
      /\ UNCHANGED loop

\* (A variant: put_nowait, the exception of a full queue logged and forgotten.)
EnqueueNoWait(t, m) ==
  /\ queue' = IF Full(t) THEN queue ELSE [queue EXCEPT ![t] = Put(@, m)]
  /\ UNCHANGED <<loop, created, convQueues, owner, state>>

Enqueue(t, m) ==
  /\ \/ /\ ~Full(t)
        /\ queue' = [queue EXCEPT ![t] = Put(@, m)]
        /\ UNCHANGED loop
     \/ /\ Full(t)
        /\ loop' = [task |-> t, msg |-> m]
        /\ UNCHANGED queue
  /\ UNCHANGED <<created, convQueues, owner, state>>

Receive(c, kind) ==
  LET m == [id |-> received[c] + 1, kind |-> kind]
  IN  /\ phase = "running"
      /\ loop = Ready
      /\ received[c] < MaxMessages
      /\ received' = [received EXCEPT ![c] = @ + 1]
      /\ \/ ~HasQueue(c) /\ Spawn(c, m)
         \/ HasQueue(c) /\ Enqueue(convQueues[c], m)
      /\ UNCHANGED <<current, permits, phase, pending, started, ended>>

\* The blocked put() goes on: it holds the queue object, whether or not the
\* task that read from it is still there.
LoopResumes ==
  /\ loop # Ready
  /\ ~Full(loop.task)
  /\ queue' = [queue EXCEPT ![loop.task] = Put(@, loop.msg)]
  /\ loop' = Ready
  /\ UNCHANGED <<convQueues, created, owner, state, current, permits, phase,
                 pending, received, started, ended>>

-----------------------------------------------------------------------------
(* _conversation_worker, _guarded_worker, _dispatch *)

\* Task t calls queue.get(): it is suspended on an empty queue, finishes on a
\* sentinel (leaving both dictionaries and the semaphore), or enters a handler.
\* q are the contents of the queues and p the permits at that moment.
Park(t, q, p) ==
  /\ q[t] = <<>>
  /\ state' = [state EXCEPT ![t] = "idle"]
  /\ current' = [current EXCEPT ![t] = None]
  /\ queue' = q
  /\ permits' = p
  /\ UNCHANGED <<convQueues, started>>

\* (A variant: the permit is not given back.)
RetireWithPermit(t, q, p) ==
  /\ q[t] # <<>>
  /\ Head(q[t]) = None
  /\ state' = [state EXCEPT ![t] = "dead"]
  /\ current' = [current EXCEPT ![t] = None]
  /\ queue' = [q EXCEPT ![t] = Tail(@)]
  /\ permits' = p
  /\ convQueues' = [convQueues EXCEPT ![owner[t]] = NoTask]
  /\ UNCHANGED started

Retire(t, q, p) ==
  /\ q[t] # <<>>
  /\ Head(q[t]) = None
  /\ state' = [state EXCEPT ![t] = "dead"]
  /\ current' = [current EXCEPT ![t] = None]
  /\ queue' = [q EXCEPT ![t] = Tail(@)]
  /\ permits' = p + 1
  /\ convQueues' = [convQueues EXCEPT ![owner[t]] = NoTask]
  /\ UNCHANGED started

Handle(t, q, p) ==
  /\ q[t] # <<>>
  /\ Head(q[t]) # None
  /\ state' = [state EXCEPT ![t] = "handling"]
  /\ current' = [current EXCEPT ![t] = Head(q[t])]
  /\ queue' = [q EXCEPT ![t] = Tail(@)]
  /\ permits' = p
  /\ started' = [started EXCEPT ![owner[t]] = Head(q[t]).id]
  /\ UNCHANGED convQueues

GetNext(t, q, p) ==
  /\ Park(t, q, p) \/ Retire(t, q, p) \/ Handle(t, q, p)
  /\ UNCHANGED <<created, owner, loop, phase, pending, received>>

\* The semaphore serves tasks first come, first served.
AcquireSemaphore(t) ==
  /\ state[t] = "waiting"
  /\ permits > 0
  /\ \A u \in Tasks : u < t => state[u] # "waiting"
  /\ GetNext(t, queue, permits - 1)
  /\ UNCHANGED ended

\* A task suspended in queue.get() runs again after a put().
WakeUp(t) ==
  /\ state[t] = "idle"
  /\ queue[t] # <<>>
  /\ GetNext(t, queue, permits)
  /\ UNCHANGED ended

\* The handler of an ordinary event returned, or the handler of any event raised
\* (the exception is logged): the worker goes on with its queue.
\* (Variants: an exception puts the event back; an exception ends the task.)
HandlerRetries(t) ==
  /\ state[t] = "handling"
  /\ GetNext(t, [queue EXCEPT ![t] = Put(@, current[t])], permits)
  /\ UNCHANGED ended

HandlerKillsWorker(t) ==
  /\ state[t] = "handling"
  /\ state' = [state EXCEPT ![t] = "dead"]
  /\ permits' = permits + 1
  /\ convQueues' = [convQueues EXCEPT ![owner[t]] = NoTask]
  /\ UNCHANGED <<created, owner, queue, current, loop, phase, pending, received,
                 started, ended>>

HandlerSettles(t) ==
  /\ state[t] = "handling"
  /\ GetNext(t, queue, permits)
  /\ UNCHANGED ended

\* The handler of a chat_end returned: _dispatch puts the sentinel into the
\* queue the dictionary holds for the conversation.
ChatEndReturns(t) ==
  LET q == convQueues[owner[t]]
  IN  /\ state[t] = "handling"
      /\ current[t].kind = "chat_end"
      /\ ended' = [ended EXCEPT ![t] = current[t].id]
      /\ \/ /\ q # NoTask => ~Full(q)
            /\ GetNext(t, [queue EXCEPT ![q] = Put(@, None)], permits)
         \/ /\ q # NoTask /\ Full(q)
            /\ state' = [state EXCEPT ![t] = "ending"]
            /\ UNCHANGED <<convQueues, created, owner, queue, current, permits,
                           loop, phase, pending, received, started>>

-----------------------------------------------------------------------------
(* stop_consumer *)

\* The consume loop is cancelled wherever it is: a payload it was blocked on is gone.
Stop ==
  /\ phase = "running"
  /\ phase' = "stopping"
  /\ loop' = Ready
  /\ pending' = {convQueues[c] : c \in Conversations} \ {NoTask}
  /\ UNCHANGED <<convQueues, created, owner, state, queue, current, permits,
                 received, started, ended>>

\* One sentinel per queue, in dictionary order; put() blocks on a full queue.
\* (Variants: newest queue first; the sentinel ahead of what is in the queue.)
StopPutsNewestFirst(t) ==
  /\ t \in pending
  /\ \A u \in pending : u <= t
  /\ ~Full(t)
  /\ queue' = [queue EXCEPT ![t] = Put(@, None)]
  /\ pending' = pending \ {t}
  /\ UNCHANGED <<convQueues, created, owner, state, current, permits, loop,
                 phase, received, started, ended>>

StopPutsAhead(t) ==
  /\ t \in pending
  /\ \A u \in pending : t <= u
  /\ ~Full(t)
  /\ queue' = [queue EXCEPT ![t] = PutInFront(@, None)]
  /\ pending' = pending \ {t}
  /\ UNCHANGED <<convQueues, created, owner, state, current, permits, loop,
                 phase, received, started, ended>>

StopPuts(t) ==
  /\ t \in pending
  /\ \A u \in pending : t <= u
  /\ ~Full(t)
  /\ queue' = [queue EXCEPT ![t] = Put(@, None)]
  /\ pending' = pending \ {t}
  /\ UNCHANGED <<convQueues, created, owner, state, current, permits, loop,
                 phase, received, started, ended>>

\* gather() over the workers returns, the Kafka consumer is stopped.
Stopped ==
  /\ phase = "stopping"
  /\ pending = {}
  /\ \A c \in Conversations : convQueues[c] = NoTask
  /\ phase' = "stopped"
  /\ UNCHANGED <<convQueues, created, owner, state, queue, current, permits,
                 loop, pending, received, started, ended>>

-----------------------------------------------------------------------------
Next == \/ \E c \in Conversations, kind \in Kinds : Receive(c, kind)
        \/ LoopResumes
        \/ \E t \in Tasks : \/ AcquireSemaphore(t)
                            \/ WakeUp(t)
                            \/ HandlerSettles(t)
                            \/ ChatEndReturns(t)
                            \/ StopPuts(t)
        \/ Stop
        \/ Stopped

Spec == Init /\ [][Next]_vars

\* The event loop runs every task that is ready, and every handler settles: each
\* network call it awaits has a timeout.  Kafka need not deliver, nobody need stop.
Fairness ==
  /\ WF_vars(LoopResumes)
  /\ WF_vars(Stopped)
  /\ \A t \in Tasks : /\ WF_vars(AcquireSemaphore(t))
                      /\ WF_vars(WakeUp(t))
                      /\ WF_vars(HandlerSettles(t) \/ ChatEndReturns(t))
                      /\ WF_vars(StopPuts(t))

FairSpec == Spec /\ Fairness

-----------------------------------------------------------------------------
(* Properties *)

\* What is on its way to task t: its queue, then a payload the loop is blocked on.
Upcoming(t) == IF loop.task = t THEN Append(queue[t], loop.msg) ELSE queue[t]

TypeOK ==
  /\ convQueues \in [Conversations -> Tasks \cup {NoTask}]
  /\ created \in 0 .. MaxTasks
  /\ owner \in [Tasks -> Conversations]
  /\ state \in [Tasks -> {"unborn", "waiting", "idle", "handling", "ending", "dead"}]
  /\ queue \in [Tasks -> Seq(Message \cup {None})]
  /\ \A t \in Tasks : Len(queue[t]) <= MaxQueueSize
  /\ current \in [Tasks -> Message \cup {None}]
  /\ permits \in 0 .. MaxConcurrentConvs
  /\ loop \in [task : Tasks, msg : Message] \cup {Ready}
  /\ phase \in {"running", "stopping", "stopped"}
  /\ pending \in SUBSET Tasks
  /\ received \in [Conversations -> 0 .. MaxMessages]
  /\ started \in [Conversations -> 0 .. MaxMessages]
  /\ ended \in [Tasks -> 0 .. MaxMessages]

\* "Different conversations run in parallel; this conversation never will": a worker
\* that has not finished is the one the dictionaries hold for its conversation,
\* through every interleaving of chat_end, sentinel, late message and shutdown.
NeverParallel == \A t \in Tasks : Live(t) => convQueues[owner[t]] = t

\* While the consumer runs, a worker that runs has before it exactly the events of its
\* conversation received after the one it handles or last handled, each once and in
\* order; a worker still waiting for the semaphore has all of the most recent ones.
\* Backpressure (a full queue, a blocked loop) loses and reorders nothing.
NothingSkipped ==
  phase = "running" =>
    \A t \in Tasks : Live(t) =>
      LET u   == Upcoming(t)
          c   == owner[t]
          ids == {u[i].id : i \in DOMAIN u} \ {None.id}
      IN  /\ \A i, j \in DOMAIN u :
               i < j /\ u[i] # None /\ u[j] # None => u[i].id < u[j].id
          /\ HoldsPermit(t) => ids = started[c] + 1 .. received[c]
          /\ ~HoldsPermit(t) => received[c] \in ids /\ \A n \in ids : n .. received[c] \subseteq ids

\* A finished worker leaves behind only events that came after a chat_end it had
\* already handled.  In particular the shutdown's sentinels drain every queue.
LostOnlyBehindChatEnd ==
  \A t \in Tasks : state[t] = "dead" =>
    \A i \in DOMAIN queue[t] :
      queue[t][i] # None => ended[t] \in 1 .. queue[t][i].id - 1

\* The dispatcher implements its contract: at most one event of a conversation in
\* service, events entering service in the order of their reception.
InService == [c \in Conversations |->
                IF HasQueue(c) /\ state[convQueues[c]] = "handling"
                THEN current[convQueues[c]].id ELSE 0]

Contract == INSTANCE OrderedDispatch WITH begun <- started, inService <- InService

OrderedService == Contract!AbsSpec

\* An event in the queue of a running worker gets handled, unless the worker blocks on
\* its own full queue after a chat_end, or the event came behind a chat_end.
Served ==
  \A t \in Tasks, n \in 1 .. MaxMessages :
    (HoldsPermit(t) /\ \E i \in DOMAIN queue[t] : queue[t][i].id = n)
      ~> \/ started[owner[t]] >= n
         \/ state[t] = "ending"
         \/ state[t] = "dead" /\ ended[t] \in 1 .. n - 1

\* A worker waits for the semaphore for ever only behind as many workers as there are
\* permits, which keep theirs for ever: idle conversations nobody ended, or workers blocked
\* on their own queues.  No chat_end, failure, late event or shutdown loses a permit.
StarvesBehindHolders ==
  \A t \in Tasks :
    <>[](state[t] = "waiting") =>
      <>[](Cardinality({u \in Tasks : HoldsPermit(u)}) = MaxConcurrentConvs)

\* stop_consumer returns, whatever is queued and whoever waits for the semaphore,
\* unless a worker is blocked on its own full queue.
StopCompletes ==
  phase = "stopping" ~> phase = "stopped" \/ \E t \in Tasks : state[t] = "ending"

\* _dispatch: "After chat_end completes, send the sentinel to this conversation's
\* queue so the worker exits cleanly."  (It does not: see the README.)
ChatEndExitsCleanly ==
  \A t \in Tasks : ended[t] # 0 ~> state[t] = "dead"
=============================================================================
