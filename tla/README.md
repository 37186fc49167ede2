# TitanChat: models, checks and proofs

This directory holds TLA+ models of the TitanChat backend (`src/`), TLC
configurations that check them on small instances, and TLAPS proofs of their
main properties for all instances. Paths below are relative to `src/`.

## 1. The system

Clients hold a WebSocket per conversation to a *gateway*. The gateway publishes
what they send to Kafka. A *consumer* process reads Kafka, handles the events of
a conversation one after another, keeps routing and tracking state in Redis,
pushes answers back through the gateway that owns the socket and publishes
records to a second topic, which a *persistence worker* in the same process
writes to Cassandra. An API serves administration and agents.

| Part | State it keeps | Operations | Hard behaviour | What makes it correct |
|---|---|---|---|---|
| Dispatcher `consumer/kafka_consumer.py` | `_conv_queues`, `_conv_workers`, the semaphore, queue contents | consume loop, workers, `_dispatch`, `stop_consumer` | tasks interleave at every await; queues full; a worker ends while events arrive; shutdown | one worker per conversation, order, nothing skipped, every event served, shutdown ends and drains |
| Agent router `shared/cache/agent_router.py` | Redis: `agent:available`, `agent:status:*`, `agent:chats:*`, `chat:active:*` | online, heartbeat, offline, route (Lua), release (read, then pipeline) | two-step release; keys expire; pipelines executed twice; a second transfer | no agent over capacity, records of an assignment agree, slots come back |
| Online tracker `shared/cache/online_chat_tracker.py` | Redis: `online:chats`, its index by time, sets per user and agent, a hash per chat | online, assigned, message, offline | offline reads, then writes; gateways and workers call it at once | sets and hashes agree, an ended chat is gone |
| Gateway `gateway/main.py`, `gateway/websocket_manager.py` | `connections`, `last_seen`, `send_locks`; Redis `ws:conn:*` | connect (superseding), receive, send, ping, evict, disconnect | several sockets of a conversation, on one gateway or two | the newest socket stays registered and reachable |
| Gateway client `consumer/gateway_client.py` | Redis `gateway:registry` | resolve, push | stale registrations | a push reaches the owner or reports failure |
| Handlers `consumer/handlers/*` | none of their own | one per event type, effects on router, tracker, socket, Cassandra, Kafka in order | one effect of several fails; gateways and the persistence worker change the same stores | router, tracker and row agree between events; a slot can always be released; what is left after a failure is repaired by chat_end |
| Persistence worker `consumer/persistence_worker.py` | Cassandra rows and counters, Kafka offsets | handlers of several statements, three attempts, dead letters, stop | retried counters, auto-commit, cancelled retries | each record written or dead-lettered, none blocks the others, a restart loses at most the record in hand, counts and preview right |
| Rate limiter `shared/cache/rate_limiter.py` | `rate:*` counters | check | window edges, commands sent twice, failing open | at most twice the limit in any stretch of a window; a refusal ends |
| Bots `api/routers/bots.py`, `shared/cache/bot_registry.py`, `shared/cache/admin_feed.py` | rows in PostgreSQL; Redis `bot:*:admin_id` | create, update, delete, regenerate key, resolve, publish | requests overlap; the cache changes before the commit; either fails | an active bot's admin hears of its events, a deleted bot's does not, an old key is refused |
| Agents API, conversation reads, dashboard, authentication | rows in PostgreSQL | CRUD, reads | none shared | not modelled |

Handlers run inside workers, so the dispatcher decides which operations of a
conversation can overlap: none. Different conversations, agents, the gateways
and the API share Redis and interleave freely.

## 2. Modules

### ConversationWorkers (the dispatcher)

Everything runs on one asyncio event loop: a task runs undisturbed until it
awaits something that is not ready. One action is one such run. `Receive` is a
turn of `_consume_loop` (lookup, creation of queue and task, put); if the queue
is full the loop stays blocked with the payload in `loop`, and `LoopResumes`
goes on. A task is `waiting` for the semaphore, `idle` in `queue.get()`,
`handling`, `ending` (blocked in putting the sentinel into its own queue) or
`dead`. `GetNext` is what happens after `queue.get()` is called, in its three
outcomes: suspend (`Park`), leave on a sentinel (`Retire`) or enter a handler
(`Handle`). It is shared by the four actions after which a worker calls `get`:
`AcquireSemaphore`, `WakeUp`, `HandlerSettles` (an event handled, or any handler
raising) and `ChatEndReturns` (which first puts the sentinel). `Stop`,
`StopPuts` and `Stopped` are `stop_consumer`.

A payload is its number in its conversation and whether it is a `chat_end`;
what handlers do is left out, they return or raise. A task and its queue share a
number in the order of creation, which is also dictionary order and the order in
which tasks wait for the semaphore. The queue of a finished task stays in the
state, because the loop may still hold it and put into it.

### OrderedDispatch (what it promises)

Per conversation: events are received, one at a time enters service, in the
order of reception, none twice. Events may be passed over. `ConversationWorkers`
implements it (`OrderedService`), with the event in service mapped to the one
handled by the task in `_conv_workers`.

### AgentRouter

One action per Redis round trip: `GoOnline`, `Heartbeat`, `GoOffline`, `Expire`
(the status key's TTL; Redis removes nothing else), `Route` and `RouteNobody`
(the Lua script, which removes offline agents it meets before the one it takes),
`FindAgent` (the HGET of `release_agent_slot`), then `Release`, or
`ReleaseTimesOut` and `ReleaseAgain` (the client has `retry_on_timeout`, so a
pipeline whose reply is lost is sent again), or `ReleaseFails`. A conversation's
own operations do not overlap (theorem `NeverParallelHolds`); all else does.
`score` keeps the sorted set's scores, with ZINCRBY adding an absent member.
Two history variables say when capacity is promised: `fresh` are the agents in
the pool since they came online without chats, `redone` counts releases executed
twice. An agent keeps its `max_chats` over time and skills are not modelled
(`transfer_to_agent` never asks for one).

### OnlineTracker

Every operation is one pipeline and so one action, except `chat_offline`: it
reads the record (`ReadRecord`) and then removes what the record named
(`ChatOffline`, `ChatOfflineTimesOut` when the reply is lost and the pipeline
will be sent again, `ChatOfflineFails`). It is called by the conversation's
worker and by any number of gateways at once. `HandlerAbandonsTouch` and
`LateTouch` are the handlers' `gather`: when the push beside it raises,
`chat_message_received` goes on without its handler and can write at any time.
`record` is the hash with its user and agent; HSET on a missing key makes a hash
with the fields written and no others. `online:chats:by_time` is written
together with `online:chats` and not kept apart; times and the status are left
out, and `get_*` only read.

### Gateway

One conversation on all gateways. `connections`, `last_seen` and `registry`
(`ws:conn:<id>`) are the code's; `send_locks` always changes with `connections`,
so a lock belongs to a socket and `sendLock[s]` is the queue at it. An action is
what a task does between two awaits:

- an endpoint (`endpoint[s]`): `Connect`, `ForceClose`, `Accept`, `Register`,
  then `Receive` and `Processed` in turn, ended by `ReceiveDisconnect` (which
  disconnects once in the except clause and once in the finally clause),
  `ReceiveFails` or `ProcessingFails` (only in the finally clause; a reply to a
  closed peer raises `WebSocketDisconnect` and goes the way of `ReceiveDisconnect`), or by
  `AcceptFails` and `RegisterFails` (not at all);
- the cleanup loop (`cleanup[g]`): `Ping`, `PingSent`, `DropFailed`, `Check`,
  `Evict`; an exception from Redis ends it (`"dead"`);
- a push: `Lookup` of the owner, `Arrive` at the gateway and its lock, `Send` or
  `SendFails`; `PostFails` is every way in which it does not get there;
- `disconnect()` is called by all three: `EnterDisconnect` is its beginning up to
  the first await, part of the action that calls it, then `Unregister`,
  `ChatOffline`, `CloseSocket`, or `DisconnectFails`; `call[p]` says where the
  call of `p` is, and `Return` goes on with the caller.

`Silence` and `Expire` are time: the timeout of 120 s passes without an event,
or the 300 s of `ws:conn` pass, which cannot be before the timeout as each event
renews both. A Redis call repeated after a timeout is not modelled apart: a
second DEL or SET does what the first does a little later. A gateway does not
crash in the model.

### Persistence

One partition of `chat-persist` and the records of one conversation. `Take` is a
turn of `async for`; `Write`, `WriteRefused`, `WriteFails` and `WriteTimesOut`
are the outcomes of the statement that `db_execute` waits for, `step` saying
which one of the handler it is (`Writes`); after a failure `_execute_with_retry`
(`Retry`) waits (`BackoffEnds`) and runs the handler again from its first
statement, or goes on to `_send_to_dlq` (`Bury`, `BuryFails`). `AutoCommit` is
the client's timer, which commits the position whatever the loop is doing.
`StopTask` and `StopConsumer` are `stop_persistence_worker`, `Crash` is the end
of the process anywhere, `Start` resumes at the committed offset. What was sent
when the process stops may still be executed (`InFlight`). Statements that
Cassandra refuses for what they are (`Refused`) fail at every attempt.

Of the rows only what a repetition could damage is kept apart: how often a
message was added to the unread count, and which message the preview shows. All
other statements are upserts, of which `written` says whether they were executed.

### ChatLifecycle

The handlers of `chat_start`, `transfer_to_agent`, `incoming_message` and
`chat_end` as sequences of effects: `stage` is the effect the handler in hand
comes to next. It composes `AgentRouter` (`R!`) and `OnlineTracker` (`T!`) with
the row of the conversation and its records in the topic `chat-persist`. Each
effect returns, or raises with or without having been executed (`Raise`), after
which the worker goes on to the next event; or its reply is lost and it is sent
once more: the script of `transfer_to_agent` (`Resend` in `RouteTo` and
`RouteNobody`), the pipelines of `release_agent_slot` and `chat_offline`
(`R!ReleaseTimesOut`, `T!ChatOfflineTimesOut`). Beside the worker, gateways take
the chat offline (`Disconnect`), agents come, beat and go (`AgentStep`) and an
abandoned timestamp is written (`LateTouch`). `outgoing_message` does to these
stores what `incoming_message` does, `acks` does nothing to them.

The persistence worker is here what `Persistence` shows it to be, as far as it
concerns the row's status: `log` is the topic, `position` the record it takes
next, `committed` where it would resume. It writes a record and goes on, or
writes it and tries again (`Persist`), gives one up or loses it with a stop
(`GiveUp`), commits by timer (`AutoCommit`), and is restarted at the last commit
(`Restart`), so that it writes a `chat_end` again which the row had already, and
perhaps over a later "active". A commit that takes in the record in hand is
counted when that record is done with or lost.

History variables say what the properties exempt: `torn` (a handler raised and no
transfer or end has returned since), `twice` (an agent was assigned while another
was), `renewed` (the chat was started again or taken offline by a gateway since
its agent was recorded), `lost` (records given up), `overtaken` (an event wrote
the row while the record of an earlier `chat_end` was not committed, so that it
could still come or come again).

The actions are made of those of the two modules, so that the composition does
nothing else to their variables is no discovery; it is proved as a lemma, because
it carries their theorems over (`StoresHold`).

### RateLimiter and BotChannel

`RateLimiter` is the counter of one user and its time to live, with the actions
`Admit`, `Refuse`, `FailOpen` and `Tick`. A minute is `Window` ticks. A check is
one MULTI and so one action, executed once or twice (`retry_on_timeout`).
`recent[n]` is a history: what was let through in the current tick and the `n`
before it.

`BotChannel` extends it to the way from a bot's administration to its feed, for
one bot. A request reads the row (`Read`), flushes its change, which takes the
row's lock (`Flush`), changes the cached mapping (`ChangeCache`), commits
(`Commit`, in `get_db`) and is answered (`Answer`; FastAPI ends `get_db` before
it sends the response). An UPDATE writes the columns that the request changed
compared with what it had read (`Changes`, `Committed`); the transaction level
is PostgreSQL's default. A customer's socket is authenticated once (`Connect`),
its events pass the limiter and reach a handler (`Event`), which looks the admin
up (`LookUp`) and publishes (`Announce`). The read of the key and the acceptance
of the socket are not kept apart: what counts is when the key was looked up.

## 3. Runs

| Run | Instance | Shows |
|---|---|---|
| `dispatch` | 2 conversations, queue of 2, 2 permits, 4 events each, 3 tasks | type invariant, `NeverParallel`, `NothingSkipped`, `LostOnlyBehindChatEnd`, refinement of `OrderedDispatch` |
| `dispatch_liveness` | 1 permit, 3 events each | `Served`, `StarvesBehindHolders`, `StopCompletes` |
| `chat_end_exit` | violated | a worker blocks on its own full queue (finding 1) |
| `router` | agents with 1 and 2 places, 3 conversations, 1 lost reply, conversations symmetric | type invariant, `AssignedIsListed`, `NoOverbooking` |
| `tracker` | 1 conversation, 2 users, 2 agents, 2 gateways disconnecting at once | type invariant, `ListedWithRecord`, `RecordIsFound` |
| `gateway` | 2 gateways, 2 sockets, 1 push | type invariant, `RegistrationIsOwned` |
| `gateway_liveness` | 1 gateway, 1 socket, 2 pushes, 1 failing Redis call | `ClosedSocketLeaves`, `SilentIsEvicted`, `PushEndsEventually` |
| `superseded` | violated | the endpoint of a superseded socket disconnects the new one (finding 2) |
| `persistence` | 2 records of 5 kinds, 2 failures, 2 stops or crashes | type invariant, `OnlyAbandonedMissing`, `CountedOncePerDelivery`, `PreviewIsNewest`, `Drains` |
| `lifecycle` | 3 events, 2 agents, 1 gateway, 1 failure, 1 lost reply of a release | type invariant, `SlotIsReleasable`, `EndedIsGone`, `AgentsAgree` |
| `lifecycle_row` | 4 events, 1 agent, 4 records, 2 failures or restarts | type invariant, `StatusFollows` |
| `bots` | 3 requests, 1 failure, limit 1, window 2 | type invariant, `TwiceTheLimit`, `RefusalEnds`, `HeardUnlessDeleted`, `OldKeyRefused`, `DeletedIsSilent` |

*Bounds of the dispatcher.* Code constants are 100 items and 10 000 permits. A
queue of two is full with an event behind a sentinel or before one, two permits
with three tasks make a task wait behind a live or a finished one, and a
conversation can have a second worker while events for the first are still
blocked. Four events fill a queue (two), occupy the worker and block the loop.
One permit, in the liveness run, makes every conversation wait for another.
`MaxMessages` and `MaxTasks` bound the history and are the only such limits; the
proofs hold for every value of them.

*Bounds of the router.* Two agents are enough for one to be met and dropped, or
to be full, before another is taken; capacities one and two let a place be given
away twice; three conversations exceed each capacity and can fill both agents.
`MaxTimeouts` is 1: one pipeline executed twice.

*Bounds of the tracker.* Conversations share nothing but the sets they are
members of, so one shows what happens to one; the proofs hold for any number.
Two users and agents make what a caller read differ from what the record says by
now, and three callers of `chat_offline` overlap.

*Bounds of the gateway.* A second gateway is needed for a registration to be
deleted by another; a socket supersedes, or races with, a second one. Sockets
connect once, which bounds the history. The liveness run has two pushes so that
one waits for the lock while the other disconnects, and one socket, as each is
closed by its own endpoint; `MaxFailures` is 1, enough for a socket whose
registration fails, or for a loop that dies.

*Bounds of the persistence worker.* Two records of the conversation let one be
delivered again after the other was handled; two failures and two restarts let a
record be retried and delivered again, and fail again. Three failures would use
up all attempts of one record; the kinds that are refused do that without.
`delivered` acks and assignments have statements like those of `read` and
`chat_end` and are left to the proofs, which hold for every kind and bound.

*Bounds of the lifecycle.* Three events are enough for a failure, an event that
finds what it left and one that repairs it, for a chat to be started, ended and
started again, and for a second transfer. With two agents one can be full or
gone. `MaxFailures` counts steps that raise or are sent again and restarts,
`MaxTimeouts` lost replies of a release; one of each lets a pipeline executed
twice meet a handler that raised. What happens to the row does not depend on
gateways or on which agent it is, and the properties about the stores do not
depend on the persistence worker; so `lifecycle` has none (`MaxWritten` is 0) and
`lifecycle_row` has one agent and no gateway, but four events, four records and
two failures: a chat started, ended and started again whose `chat_end` is written
twice, or lost and written after all, and one more event. The proofs cover all of
it together.

*Bounds of the bots.* Three requests let a bot be created and two others overlap;
a second bot has its own row and key. A window of two ticks has an edge in its
middle; a limit of one is reached by the first event. Counts beyond the limit are
not told apart (`CountBound`).

*Deadlock* is not checked in the dispatcher's runs: a stopped consumer, and one
whose bounded supply of events is used up, may stop for good. Neither in
`gateway_liveness`, where the loop can die and the socket be used up. The router,
the tracker, a gateway's loop, the persistence worker, the agents and gateways
around a chat, and time (in the bots' run) never stop.

*Fairness* (`FairSpec`). The event loop runs each ready task, so each enabled
`AcquireSemaphore`, `WakeUp`, `LoopResumes`, `StopPuts` and `Stopped` happens;
asyncio's queues and semaphore wake waiters in order. A handler settles because
each call it awaits has a timeout (Redis 5 s sockets, httpx 5 s, the defaults of
the Cassandra and Kafka clients). Nothing says that Kafka delivers or that
anyone stops the process. Weak fairness suffices throughout.

At the gateway every task goes on once what it awaits has returned or timed out
(`Fairness`): endpoints, disconnects, the loop and pushes. A blocked send counts
among these, because the server's WebSocket keepalive closes a socket whose peer
does not answer. Clients need not connect, send or close. `ClosedSocketLeaves`
and `SilentIsEvicted` excuse a loop that died of an exception, which nothing
restarts (`gateway/main.py:45-56`).

The persistence worker's loop runs, a statement is answered or times out in the
driver, a sleep ends, the dead letter is sent or raises, `consumer.stop()`
returns, and systemd restarts the process (`Restart=always` in
`deploy/systemd/titanchat-consumer.service`). In the bots' run only time passes:
`RefusalEnds` needs no more.

`Served` and `StopCompletes` are stated for behaviours in which no worker is
ever blocked on its own queue: finding 1 is that it can be, and then neither
holds. `Served` is about workers that run. A worker that waits for the semaphore
need not ever run, since a conversation that nobody ends keeps its permit while it
is idle; `StarvesBehindHolders` says that nothing else keeps it waiting: all
permits are then held for good, and none was lost on the way.

## 4. Findings

1. `_dispatch` awaits `q.put(None)` in the worker that alone reads `q`
   (`consumer/kafka_consumer.py:88`). With a full queue it waits forever and
   keeps its permit; the loop blocks at that conversation's next event, and so
   do all conversations; `stop_consumer` never ends. The comment at lines 83-84
   says the worker "exits cleanly".
2. `disconnect` takes a conversation, not a socket. When a client reconnects, the
   endpoint of the closed socket calls it (`gateway/main.py:251` and `255`) and so
   closes the new socket, deletes its registration and takes the chat offline.
   `_force_close` is documented to spare the cleanup ("without full disconnect
   cleanup", `gateway/websocket_manager.py:83`).

*Observations.* Behaviours of the models which no run reports, because the
properties exempt them or nothing in the repository excludes them:

- `_persist_ack` does not give `bucket`, which is part of the partition key of
  `message_acks` (`schema/titanchat.cql:133`). Every ack is refused three times
  and goes to the dead-letter topic, and the statement under "Decrement unread
  counter on read" (`consumer/persistence_worker.py:129`) is never reached
  (`Refused` in `Persistence`).
- A second `transfer_to_agent` overwrites the agent in `chat:active`
  (`shared/cache/agent_router.py:53`), so that `release_agent_slot` frees the
  second agent's slot and never the first one's. `SlotIsReleasable` and
  `EndedIsGone` say what holds of conversations with one transfer at a time
  (`twice`).
- `agent_go_online` sets the score to 0 whatever chats the agent has (line 92), and
  the pipeline of a release makes an agent that left the pool a member again
  (line 165). The end of such a chat makes the score negative, and the script reads
  scores from 0 up (line 24): it does not see the agent until it comes online
  again. `NoOverbooking` says what holds of the other agents (`fresh`).
- `chat_offline` removes the chat from the set of the agent its record names.
  `chat_online` empties that field for a chat started again
  (`shared/cache/online_chat_tracker.py:54`), and `chat_assigned` may write it
  between the two steps: the chat then stays in the agent's set with no record,
  and no later call finds it there. `RecordIsFound` and `ListedWithRecord` say
  nothing of that set.
- An event that arrives after a handled `chat_end` and before the worker took the
  sentinel is dropped with the queue. `LostOnlyBehindChatEnd` shows that nothing
  else is.
- No handler takes `agent_id` out of the row: after a `chat_end` it names the last
  agent still (`consumer/persistence_worker.py:106-109`). `AgentsAgree` compares
  the row with the router only while an agent is assigned.
- A chat started again, or taken offline by a gateway, while it has an agent has a
  record without one, or none, until the next transfer (`renewed` in
  `AgentsAgree`).
- A chat ended and started again at once may be ended again by the record of that
  `chat_end`, which the persistence worker gets to later, or gets to once more when
  it is restarted before the commit (`overtaken` in `StatusFollows`).
- `db_execute` prepares statements that have `%s` for their parameters, which is
  the driver's notation for statements that are not prepared
  (`shared/db/cassandra.py:58-63`). The models take such statements to work, and
  let any of them fail; `Refused` is only about what the schema refuses.
- When the reply of the routing script is lost, it is sent again. The chat may
  then be assigned although the client is told "waiting".
- A message of an agent is counted as unread for the user ""
  (`consumer/handlers/outgoing_message.py:53`), an empty partition key, which
  Cassandra refuses: each such message is written three times and then
  dead-lettered as well.
- The rate limiter's docstring says "sliding window"; the window is fixed to its
  first event. EXPIRE with NX needs Redis 7: an older one refuses it and the
  limiter fails open at each event.
- `PATCH` with `is_active: true` after a delete does not put the mapping back,
  and `publish_admin_event` does not fall back to PostgreSQL on a miss, as
  `get_admin_id_for_bot` tells its caller to: the bot works and its admin hears
  nothing. A delete whose commit fails leaves the same.
- A socket that was opened with a key stays open when the key is replaced.
- The status in `conversations_by_bot` never becomes "ended"; no run is about it.
- A late timestamp brings back a hash without user, and a chat that a gateway
  took offline while it was transferred gets a hash with an agent and no user.

## 5. Proofs

The modules named `...Proofs` prove, for every value of
the constants that the modules' assumptions admit (queue sizes and permits
positive, finitely many conversations where sets of them are counted, ids that
are none of the values standing for "none"), every safety invariant and action
property the passing runs check, and the refinement of `OrderedDispatch`:

| Theorem | Establishes |
|---|---|
| `ConversationWorkersProofs!TypeCorrect` | `TypeOK` |
| `NeverParallelHolds` | `NeverParallel` |
| `NothingSkippedHolds` | `NothingSkipped` |
| `LostOnlyBehindChatEndHolds` | `LostOnlyBehindChatEnd` |
| `Implements` | `Spec` implements `OrderedDispatch` |
| `AgentRouterProofs!TypeCorrect` | `TypeOK` |
| `AssignedIsListedHolds` | `AssignedIsListed` |
| `NoOverbookingHolds` | `NoOverbooking` |
| `OnlineTrackerProofs!TypeCorrect` | `TypeOK` |
| `ListedWithRecordHolds` | `ListedWithRecord` |
| `RecordIsFoundHolds` | `RecordIsFound` |
| `GatewayProofs!TypeCorrect` | `TypeOK` |
| `RegistrationIsOwnedHolds` | `RegistrationIsOwned` |
| `PersistenceProofs!TypeCorrect` | `TypeOK` |
| `OnlyAbandonedMissingHolds` | `OnlyAbandonedMissing` |
| `CountedOncePerDeliveryHolds` | `CountedOncePerDelivery` |
| `PreviewIsNewestHolds` | `PreviewIsNewest` |
| `ChatLifecycleProofs!TypeCorrect` | `TypeOK` |
| `SlotIsReleasableHolds` | `SlotIsReleasable` |
| `EndedIsGoneHolds` | `EndedIsGone` |
| `AgentsAgreeHolds` | `AgentsAgree` |
| `StatusFollowsHolds` | `StatusFollows` |
| `StoresHold` | the invariants of these two modules, in the composition |
| `BotChannelProofs!TypeCorrect` | `TypeOK` |
| `TwiceTheLimitHolds` | `TwiceTheLimit` |
| `HeardUnlessDeletedHolds` | `HeardUnlessDeleted` |
| `OldKeyRefusedHolds` | `OldKeyRefused` |
| `DeletedIsSilentHolds` | `DeletedIsSilent` |

*Dispatcher.* `NeverParallel` alone is not inductive. `IInv` adds: the semaphore
and the tasks inside it account for all permits (`Permits`); live tasks and
dictionary entries correspond one to one, so a worker that leaves removes its own
entry (`Entries`); a live queue holds, in order, only events between the last one
started and the last received, and what the loop is blocked on is the last one
received (`Order`); behind a sentinel there are only events newer than a
`chat_end` the worker has handled (`Sentinels`). Lemmas about `Append`, `Head`
and `Tail` carry these through queue operations, `GetNextInv` proves the common
part of the four worker actions once, and one lemma per action does the rest.
For the refinement each action is shown to be a step of the contract or a
stutter; a worker that finishes one event and takes the next is one `Begin`.
`NothingSkipped` says of a running consumer that the queue of a worker has *all*
events between the last one started and the last received; `Order` only says that
it has no others. `Covers` is the invariant: a queue in use has no gap behind the
last event started, up to the last one the loop has put (what it is blocked on is
still to come), and the queue of a worker waiting for the semaphore has none
behind its first item. It rests on `IInv`, and on a new worker starting with the
event that created it, so that what an earlier worker left is never between.

*Router.* `IInv` adds what a worker holds between its read and its pipeline
(`Holding`) and that a fresh agent's chats are at most its score plus the
releases executed twice, its score at most its capacity (`Booking`).

*Tracker.* Both invariants are inductive with the type invariant: a pipeline of
`chat_offline` deletes the whole record, so nothing it named remains to be found.
That the record may have changed since it was read does not matter, and the
variant that spares a changed record breaks both.

*Gateway.* `RegistrationIsOwned` names the owner of a registration, an endpoint
at that gateway which is still to make the last call of `disconnect`. It is
inductive together with where tasks are (`Placed`) and with the send locks
(`Queued`: who gives a lock back holds it, which `PushEnds` needs to keep its
type). `disconnect` is called by endpoints, pushes and the loop alike, so its
steps are proved once, and then that each of its callers is another than the
owner or has made the call the owner owed. No part of it depends on how many
sockets superseded one another; a failing Redis call does leave a registration
without an owner until it expires, which is why the property is about the time
before the first one.

*Handlers.* The properties are about the time between events; `IInv` says what
holds between the effects of each handler: at which stage a slot is held
(`Control`), who is assigned (`Assignment`), when the chat is not listed
(`Listing`), how far record and row have followed the router (`RecordAgent`,
`RecordNames`, `RowAgent`), and what the row's status is while a `chat_end` is
outstanding or could come again (`RowStatus`). A step of the persistence worker
that writes no `chat_end`, a commit and a restart all leave what is pending no
larger and what is outstanding no smaller (`EndsStay`): a restart goes back to
what was pending already. Lemmas say what an operation of router and tracker does
to the conversation. `RaiseInv` then treats the failures of all handlers at once:
once `torn`, only the slot must still be releasable, the worker free, and no chat
listed without its record.

*Composition.* Every step of the composition is a step of `AgentRouter` and of
`OnlineTracker`, or leaves their variables alone (`RouterStep`, `TrackerStep`),
with replies lost as in those modules. `StoresHold` takes the theorems of their
proof modules, instantiated for this conversation, over to the composition.

*Persistence.* `IInv` adds: the statements of the record in hand before `step`
were executed (`InHand`); a record passed by is complete, dead, abandoned or in
hand, and there are no more abandoned ones than restarts and failures
(`Accounted`, from which the cardinality bound follows with the library's
theorems on finite sets); the delivery in hand has not been counted yet unless a
count raised (`Counting`); the preview is of
the newest message that was passed by since the loop last went back
(`Previews`). Without `InHand` the last statement of a handler would not complete
its record.

*Bots.* `IInv` adds: one request creates the bot and the others come later
(`Creation`); a committed bot is mapped unless a delete has got to the cache, and
unmapped once one has succeeded there (`Mapping`); a key not committed yet occurs
in no row and in no other request (`FreshKeys`), so a commit never brings back a
key that was read. For the limiter (`Counted`): since its window began no more was
let through than was counted, nor than the limit; what is left of a stretch of
`Window` ticks is part of one earlier window and saw no more than the limit.

*Model-checked only*: the liveness properties (`Served`, `StarvesBehindHolders`,
`StopCompletes`, `ClosedSocketLeaves`, `SilentIsEvicted`, `PushEndsEventually`, `Drains`,
`RefusalEnds`), which are out of this prover's reach, as they rest on fairness.

## 6. Plan

Modelled first were the parts in which tasks and processes interleave most: the
dispatcher, the router, the tracker and the gateway; then what runs around them:
the persistence worker, the handlers as compositions, bots and limiter. Left:

1. Proofs: the safety halves of the liveness properties (who can go on when
   something waits: a blocked loop has a worker that will take an event, a push
   that waits for a lock is behind one that runs, a refused counter only counts
   down), as invariants and action properties.
2. The dispatcher's offsets over a restart, and pushes composed with it.

Not modelled, and not planned: token signing and password hashing, PostgreSQL
CRUD and read-only queries, the dashboard's fan-out, logging, tracing, settings,
schema and deployment scripts, and the insides of Kafka, Redis and Cassandra
beyond the atomicity of their operations.
