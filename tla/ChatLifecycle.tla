--------------------------- MODULE ChatLifecycle ---------------------------
(***************************************************************************)
(* What the handlers of a conversation's events (consumer/handlers) do to  *)
(* the stores around them, one effect after another, and what is left when *)
(* one of them raises: the agents' slots (module AgentRouter), the online  *)
(* tracker (module OnlineTracker, with gateways that take the chat offline *)
(* at any time), the row of the conversation in Cassandra, and the records *)
(* of the topic chat-persist, which reach the row when the persistence     *)
(* worker gets to them, and reach it again when that worker is restarted.  *)
(*                                                                         *)
(* The worker of the conversation runs one handler at a time; clients send *)
(* the events in any order.  A step that raises ends its handler, and may  *)
(* have taken effect.  Steps without a trace in the modelled stores have   *)
(* none here: pushes to the client, acks, the row in conversations_by_bot. *)
(* When one of them raises, it is as if the step after it had, without     *)
(* effect.  publish_admin_event never raises.                              *)
(***************************************************************************)
EXTENDS Naturals, Sequences, FiniteSets

CONSTANTS
  Conversation,  \* the conversation
  Agents,        \* agent ids
  Capacity,      \* agent -> max_chats
  NoAgent,       \* no agent_id
  Users,         \* user ids
  Disconnects,   \* calls of ConnectionManager.disconnect that may overlap
  Worker,        \* the conversation's worker
  Nothing,       \* no record of the tracker
  MaxEvents,     \* bound: events of the conversation
  MaxFailures,   \* bound: steps that raise or are repeated, restarts
  MaxTimeouts,   \* bound: replies to the pipeline of release_agent_slot that get lost
  MaxWritten     \* bound: records of the topic the persistence worker gets to

ASSUME Bounds == {MaxEvents, MaxFailures, MaxTimeouts, MaxWritten} \subseteq Nat

\* Those of the two modules composed here
ASSUME Assumptions ==
  /\ Agents \subseteq Nat
  /\ Capacity \in [Agents -> Nat]
  /\ NoAgent \notin Users \cup Agents
  /\ Worker \notin Disconnects
  /\ Nothing \notin [user : Users \cup {NoAgent}, agent : Agents \cup {NoAgent}]

VARIABLES
  status, pool, score, chatsOf, assigned, worker, held, timeouts, fresh, redone,
  online, ofUser, ofAgent, record, reading, resent, touching,
  event,      \* the event in hand, or "none"
  stage,      \* the effect its handler comes to next
  routed,     \* the agent route_to_agent returned, or NoAgent
  row,        \* status and agent_id of the conversation in Cassandra
  log,        \* its records in chat-persist: each a chat_end, or another
  position,   \* the one the persistence worker takes next
  committed,  \* where it resumes when it is restarted
  handled,    \* number of events so far
  failures,   \* number of those so far
  wanted,     \* history: the status the handlers that returned have left behind
  torn,       \* history: a step failed, and no transfer or end has returned since
  twice,      \* history: an agent was assigned while another one was
  lost,       \* history: records the persistence worker gave up
  overtaken,  \* history: a chat_end record could still come when the row was made active
  renewed     \* history: started again or taken offline by a gateway since it was assigned

routerVars  == <<status, pool, score, chatsOf, assigned, worker, held, timeouts, fresh, redone>>
trackerVars == <<online, ofUser, ofAgent, record, reading, resent, touching>>
topicVars   == <<log, position, committed, lost>>
history     == <<wanted, torn, twice, overtaken, renewed>>
vars == <<routerVars, trackerVars, event, stage, routed, row, topicVars, handled, failures,
          history>>

R == INSTANCE AgentRouter WITH Conversations <- {Conversation}
T == INSTANCE OnlineTracker WITH Conversations <- {Conversation}, Nobody <- NoAgent

Events == {"chat_start", "incoming_message", "transfer_to_agent", "chat_end"}

Init == /\ R!Init
        /\ T!Init
        /\ event = "none"
        /\ stage = "none"
        /\ routed = NoAgent
        /\ row = [status |-> "none", agent |-> NoAgent]
        /\ log = <<>>
        /\ position = 1
        /\ committed = 1
        /\ handled = 0
        /\ failures = 0
        /\ wanted = "none"
        /\ torn = FALSE
        /\ twice = FALSE
        /\ lost = {}
        /\ overtaken = FALSE
        /\ renewed = FALSE

-----------------------------------------------------------------------------
(* The worker takes an event, does one effect after another, and is done. *)

FirstStage == [chat_start        |-> "insert",
               incoming_message  |-> "touch",
               transfer_to_agent |-> "route",
               chat_end          |-> "find"]

Begin(e) ==
  /\ event = "none"
  /\ handled < MaxEvents
  /\ handled' = handled + 1
  /\ event' = e
  /\ stage' = FirstStage[e]
  /\ UNCHANGED <<routerVars, trackerVars, routed, row, topicVars, failures, history>>

Continue(s) == stage' = s /\ UNCHANGED <<event, routed, handled, failures>>

\* (A variant: the agent of this transfer is still there for the next.)
ReturnUncleared(s) ==
  /\ event' = "none"
  /\ stage' = "none"
  /\ wanted' = s
  /\ UNCHANGED <<routed, handled, failures>>

\* The handler returns, leaving the conversation with this status.
Return(s) ==
  /\ event' = "none"
  /\ stage' = "none"
  /\ routed' = NoAgent
  /\ wanted' = s
  /\ UNCHANGED <<handled, failures>>

\* It raises: _conversation_worker logs that and goes on to the next event.
Raise ==
  /\ failures < MaxFailures
  /\ failures' = failures + 1
  /\ event' = "none"
  /\ stage' = "none"
  /\ routed' = NoAgent
  /\ torn' = TRUE
  /\ UNCHANGED <<handled, wanted>>

\* A chat_end is on its way to the row, or would be again after a restart.
EndPending == \E i \in committed .. Len(log) : log[i] = "chat_end"

WriteRow(new) ==
  /\ row' = new
  /\ overtaken' = EndPending

Publish(kind) ==
  /\ log' = Append(log, kind)
  /\ UNCHANGED <<position, committed, lost>>

\* The reply is lost and the client library sends the command once more.
Resend ==
  /\ failures < MaxFailures
  /\ failures' = failures + 1
  /\ UNCHANGED <<event, stage, routed, handled, wanted>>

-----------------------------------------------------------------------------
(* chat_start *)

\* (Variants: INSERT ... IF NOT EXISTS; an INSERT of all columns.)
InsertRowOnce ==
  /\ stage = "insert"
  /\ IF row.status = "none" THEN WriteRow([row EXCEPT !.status = "active"])
                            ELSE UNCHANGED <<row, overtaken>>
  /\ Continue("online")
  /\ UNCHANGED <<routerVars, trackerVars, topicVars, wanted, torn, twice, renewed>>

InsertRowAnew ==
  /\ stage = "insert"
  /\ WriteRow([status |-> "active", agent |-> NoAgent])
  /\ Continue("online")
  /\ UNCHANGED <<routerVars, trackerVars, topicVars, wanted, torn, twice, renewed>>

\* INSERT names no agent: a row that is there keeps its agent_id.  It returns, or it
\* raises, executed or not.
InsertRow ==
  /\ stage = "insert"
  /\ \/ /\ WriteRow([row EXCEPT !.status = "active"])
        /\ Continue("online")
        /\ UNCHANGED <<wanted, torn>>
     \/ /\ WriteRow([row EXCEPT !.status = "active"])
        /\ Raise
     \/ /\ UNCHANGED <<row, overtaken>>
        /\ Raise
  /\ UNCHANGED <<routerVars, trackerVars, topicVars, twice, renewed>>

Online(u) ==
  /\ stage = "online"
  /\ \/ /\ T!ChatOnline(Conversation, u)
        /\ renewed' = TRUE
        /\ \/ Continue("publish") /\ UNCHANGED <<wanted, torn>>
           \/ Raise
     \/ UNCHANGED <<trackerVars, renewed>> /\ Raise
  /\ UNCHANGED <<routerVars, row, topicVars, twice, overtaken>>

PublishStart ==
  /\ event = "chat_start" /\ stage = "publish"
  /\ \/ Publish("other") /\ Return("active") /\ UNCHANGED torn
     \/ Publish("other") /\ Raise
     \/ UNCHANGED topicVars /\ Raise
  /\ UNCHANGED <<routerVars, trackerVars, row, twice, overtaken, renewed>>

-----------------------------------------------------------------------------
(* transfer_to_agent *)

\* The script assigns an agent.  It may do so and the handler not know (the reply is
\* lost, or announcing the agent on admin:feed raises), or be sent once more.
RouteTo(a) ==
  /\ stage = "route"
  /\ R!Route(Conversation, a)
  /\ twice' = (twice \/ assigned[Conversation] \notin {a, NoAgent})
  /\ \/ /\ stage' = "update"
        /\ routed' = a
        /\ UNCHANGED <<event, handled, failures, wanted, torn>>
     \/ Raise
     \/ Resend /\ torn' = TRUE
  /\ UNCHANGED <<trackerVars, row, topicVars, overtaken, renewed>>

\* Nobody takes it: the client is told to wait, nothing else happens.  The script may
\* have removed expired agents and the reply, or the push after it, be lost.
RouteNobody ==
  /\ stage = "route"
  /\ \/ /\ R!RouteNobody(Conversation)
        /\ \/ (Return(wanted) \/ Resend) /\ UNCHANGED torn
           \/ Raise
     \/ UNCHANGED routerVars /\ Raise
  /\ UNCHANGED <<trackerVars, row, topicVars, twice, overtaken, renewed>>

UpdateRow ==
  /\ stage = "update"
  /\ \/ /\ WriteRow([status |-> "active", agent |-> routed])
        /\ Continue("assign")
        /\ UNCHANGED <<wanted, torn>>
     \/ /\ WriteRow([status |-> "active", agent |-> routed])
        /\ Raise
     \/ /\ UNCHANGED <<row, overtaken>>
        /\ Raise
  /\ UNCHANGED <<routerVars, trackerVars, topicVars, twice, renewed>>

Assign ==
  /\ stage = "assign"
  /\ \/ /\ T!ChatAssigned(Conversation, routed)
        /\ renewed' = FALSE
        /\ \/ Continue("publish") /\ UNCHANGED <<wanted, torn>>
           \/ Raise
     \/ UNCHANGED <<trackerVars, renewed>> /\ Raise
  /\ UNCHANGED <<routerVars, row, topicVars, twice, overtaken>>

PublishAssignment ==
  /\ event = "transfer_to_agent" /\ stage = "publish"
  /\ \/ Publish("other") /\ Return("active") /\ torn' = FALSE
     \/ Publish("other") /\ Raise
     \/ UNCHANGED topicVars /\ Raise
  /\ UNCHANGED <<routerVars, trackerVars, row, twice, overtaken, renewed>>

-----------------------------------------------------------------------------
(* incoming_message, whose effects before the record run side by side *)

Touch ==
  /\ stage = "touch"
  /\ \/ /\ T!ChatMessageReceived(Conversation)
        /\ Continue("publish")
        /\ UNCHANGED <<wanted, torn>>
     \/ T!HandlerAbandonsTouch(Conversation) /\ Raise
     \/ UNCHANGED trackerVars /\ Raise
  /\ UNCHANGED <<routerVars, row, topicVars, twice, overtaken, renewed>>

PublishMessage ==
  /\ event = "incoming_message" /\ stage = "publish"
  /\ \/ Publish("other") /\ Return(wanted) /\ UNCHANGED torn
     \/ UNCHANGED topicVars /\ Raise
  /\ UNCHANGED <<routerVars, trackerVars, row, twice, overtaken, renewed>>

-----------------------------------------------------------------------------
(* chat_end *)

\* (A variant: only the slot of a chat that is tracked is released.)
FindTracked ==
  /\ stage = "find"
  /\ IF assigned[Conversation] = NoAgent \/ record[Conversation] = Nothing
       THEN UNCHANGED routerVars /\ Continue("read")
       ELSE R!FindAgent(Conversation) /\ Continue("release")
  /\ UNCHANGED <<trackerVars, row, topicVars, history>>

Find ==
  /\ stage = "find"
  /\ \/ /\ IF assigned[Conversation] = NoAgent
             THEN UNCHANGED routerVars /\ Continue("read")
             ELSE R!FindAgent(Conversation) /\ Continue("release")
        /\ UNCHANGED <<wanted, torn>>
     \/ UNCHANGED routerVars /\ Raise
  /\ UNCHANGED <<trackerVars, row, topicVars, twice, overtaken, renewed>>

\* (A variant: chat:active is deleted in a call of its own, ahead of the others.)
ReleaseInParts ==
  /\ stage = "release"
  /\ \/ R!Release(Conversation) /\ Continue("read") /\ UNCHANGED <<wanted, torn>>
     \/ /\ assigned' = [assigned EXCEPT ![Conversation] = NoAgent]
        /\ R!Settle(Conversation)
        /\ UNCHANGED <<status, pool, score, chatsOf, timeouts, fresh, redone>>
        /\ Raise
  /\ UNCHANGED <<trackerVars, row, topicVars, twice, overtaken, renewed>>

\* The pipeline, which the client library sends once more when the reply is lost.
Release ==
  /\ stage = "release"
  /\ \/ /\ R!Release(Conversation) \/ R!ReleaseAgain(Conversation)
        /\ \/ Continue("read") /\ UNCHANGED <<wanted, torn>>
           \/ Raise
     \/ R!ReleaseTimesOut(Conversation) /\ Continue("release") /\ UNCHANGED <<wanted, torn>>
     \/ R!ReleaseFails(Conversation) /\ Raise
  /\ UNCHANGED <<trackerVars, row, topicVars, twice, overtaken, renewed>>

ReadRecord ==
  /\ stage = "read"
  /\ \/ /\ IF record[Conversation] = Nothing
             THEN UNCHANGED trackerVars /\ Continue("publish")
             ELSE T!ReadRecord(Conversation, Worker) /\ Continue("offline")
        /\ UNCHANGED <<wanted, torn>>
     \/ UNCHANGED trackerVars /\ Raise
  /\ UNCHANGED <<routerVars, row, topicVars, twice, overtaken, renewed>>

Offline ==
  /\ stage = "offline"
  /\ \/ /\ T!ChatOffline(Conversation, Worker)
        /\ \/ Continue("publish") /\ UNCHANGED <<wanted, torn>>
           \/ Raise
     \/ /\ T!ChatOfflineTimesOut(Conversation, Worker)
        /\ Continue("offline")
        /\ UNCHANGED <<wanted, torn>>
     \/ T!ChatOfflineFails(Conversation, Worker) /\ Raise
  /\ UNCHANGED <<routerVars, row, topicVars, twice, overtaken, renewed>>

PublishEnd ==
  /\ event = "chat_end" /\ stage = "publish"
  /\ \/ Publish("chat_end") /\ Return("ended") /\ torn' = FALSE
     \/ Publish("chat_end") /\ Raise
     \/ UNCHANGED topicVars /\ Raise
  /\ UNCHANGED <<routerVars, trackerVars, row, twice, overtaken, renewed>>

-----------------------------------------------------------------------------
(* Beside the worker: persistence, gateways, agents *)

\* Nothing of the worker and the stores its handlers write to.
Elsewhere == UNCHANGED <<routerVars, trackerVars, event, stage, routed, handled, wanted, torn,
                         twice, overtaken, renewed>>

\* The persistence worker writes a record: only chat_end changes the status.  Written
\* without an answer it is tried again.
Persist ==
  /\ position <= Len(log) /\ position <= MaxWritten
  /\ row' = IF log[position] = "chat_end" THEN [row EXCEPT !.status = "ended"] ELSE row
  /\ \/ position' = position + 1 /\ UNCHANGED failures
     \/ /\ failures < MaxFailures
        /\ failures' = failures + 1
        /\ UNCHANGED position
  /\ UNCHANGED <<log, committed, lost>>
  /\ Elsewhere

\* It gives up on one (module Persistence), or the record in hand is lost with a worker
\* that had committed it.
GiveUp ==
  /\ position <= Len(log) /\ position <= MaxWritten
  /\ failures < MaxFailures
  /\ failures' = failures + 1
  /\ position' = position + 1
  /\ lost' = lost \cup {position}
  /\ UNCHANGED <<row, log, committed>>
  /\ Elsewhere


\* Kafka's client commits where the worker is, by timer.  (Where that takes in the record
\* in hand, it counts from when the record is done with, or lost.)
AutoCommit ==
  /\ committed' = position
  /\ UNCHANGED <<row, log, position, lost, failures>>
  /\ Elsewhere

\* The worker stops, or crashes, and the next one begins at the last commit.
Restart ==
  /\ failures < MaxFailures
  /\ failures' = failures + 1
  /\ position' = committed
  /\ UNCHANGED <<row, log, committed, lost>>
  /\ Elsewhere

Disconnect(k) ==
  /\ \/ T!ReadRecord(Conversation, k) /\ UNCHANGED renewed
     \/ T!ChatOffline(Conversation, k) /\ renewed' = TRUE
     \/ T!ChatOfflineTimesOut(Conversation, k) /\ renewed' = TRUE
     \/ T!ChatOfflineFails(Conversation, k) /\ UNCHANGED renewed
  /\ UNCHANGED <<routerVars, event, stage, routed, row, topicVars, handled, failures, wanted,
                 torn, twice, overtaken>>

LateTouch ==
  /\ T!LateTouch(Conversation)
  /\ UNCHANGED <<routerVars, event, stage, routed, row, topicVars, handled, failures, history>>

AgentStep(a) ==
  /\ \/ R!GoOnline(a)
     \/ R!Heartbeat(a)
     \/ R!GoOffline(a)
     \/ R!Expire(a)
  /\ UNCHANGED <<trackerVars, event, stage, routed, row, topicVars, handled, failures, history>>

-----------------------------------------------------------------------------
Next == \/ \E e \in Events : Begin(e)
        \/ InsertRow
        \/ \E u \in Users : Online(u)
        \/ PublishStart
        \/ \E a \in Agents : RouteTo(a)
        \/ RouteNobody
        \/ UpdateRow
        \/ Assign
        \/ PublishAssignment
        \/ Touch
        \/ PublishMessage
        \/ Find
        \/ Release
        \/ ReadRecord
        \/ Offline
        \/ PublishEnd
        \/ Persist
        \/ GiveUp
        \/ AutoCommit
        \/ Restart
        \/ \E k \in Disconnects : Disconnect(k)
        \/ LateTouch
        \/ \E a \in Agents : AgentStep(a)

Spec == Init /\ [][Next]_vars

-----------------------------------------------------------------------------
(* Properties *)

TypeOK ==
  /\ R!TypeOK
  /\ T!TypeOK
  /\ event \in Events \cup {"none"}
  /\ event = "none" <=> stage = "none"
  /\ stage = "release" <=> worker[Conversation] # "free"
  /\ stage = "offline" <=> ~ T!WorkerFree(Conversation)
  /\ routed # NoAgent <=> stage \in {"update", "assign"} \/ (event = "transfer_to_agent" /\ stage = "publish")
  /\ row \in [status : {"none", "active", "ended"}, agent : Agents \cup {NoAgent}]
  /\ log \in Seq({"chat_end", "other"})
  /\ position \in 1 .. Len(log) + 1
  /\ committed \in 1 .. position
  /\ lost \subseteq 1 .. Len(log)
  /\ handled \in 0 .. MaxEvents
  /\ failures \in 0 .. MaxFailures
  /\ wanted \in {"none", "active", "ended"}
  /\ torn \in BOOLEAN /\ twice \in BOOLEAN /\ overtaken \in BOOLEAN /\ renewed \in BOOLEAN

Chats(a) == Conversation \in chatsOf[a]

\* release_agent_slot: "Free up an agent slot when a chat ends."  Whichever handlers fail
\* and wherever, the agents that have the conversation among their chats are the one in
\* chat:active, which a chat_end can still release; unless a second agent was assigned.
SlotIsReleasable ==
  ~ twice => \A a \in Agents : Chats(a) => assigned[Conversation] = a

\* After a chat_end that returned, no agent is assigned, the dashboard does not list the
\* chat, and no slot is taken, whatever gateways and failures before did.
EndedIsGone ==
  event = "none" /\ wanted = "ended" /\ ~ torn =>
    /\ assigned[Conversation] = NoAgent
    /\ Conversation \notin online
    /\ twice \/ \A a \in Agents : ~ Chats(a)

\* While an agent is assigned, the row names it between events, and so does the dashboard's
\* record, unless the chat was started again or taken offline by a gateway since: then the
\* record may name nobody, or be gone, but never somebody else.  When a handler raised half
\* way, this is so again after the next transfer or end that returns.  (No handler takes
\* agent_id out of the row: once the chat has ended, the row names its last agent still.)
AgentsAgree ==
  LET a == assigned[Conversation]
      r == record[Conversation]
  IN  event = "none" /\ ~ torn =>
        /\ a # NoAgent => row.agent = a
        /\ a # NoAgent /\ ~ renewed => r # Nothing /\ r.agent = a
        /\ r # Nothing => r.agent \in {a, NoAgent}

\* Record i is the last chat_end in the topic.
Newest(i) ==
  /\ log[i] = "chat_end"
  /\ \A j \in i + 1 .. Len(log) : log[j] # "chat_end"

\* "Close conversation in DB": the row has the status the last event left behind, with
\* two exceptions, in whatever way the persistence worker restarts and repeats itself.
\* After a chat_end, its record may still be on the way, or have been given up; and a row
\* made active while the record of an earlier chat_end could still come, for the first
\* time or after a restart once more, may be ended by it.
StatusFollows ==
  event = "none" /\ ~ torn /\ row.status # wanted =>
    \/ /\ wanted = "ended"
       /\ \E i \in 1 .. Len(log) : Newest(i) /\ (i >= position \/ i \in lost)
    \/ wanted = "active" /\ overtaken
=============================================================================
