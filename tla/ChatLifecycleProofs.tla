------------------------ MODULE ChatLifecycleProofs ------------------------
(***************************************************************************)
(* Theorems about ChatLifecycle for any number of agents, users, gateways' *)
(* disconnects, events and failing steps.  The inductive invariant says    *)
(* what holds between the effects of each handler.                         *)
(***************************************************************************)
EXTENDS ChatLifecycle, Integers, FiniteSetTheorems, TLAPS

\* The handler of e is about to take one of the effects in s.
In(e, s) == event = e /\ stage \in s

\* The worker holds a slot to release: that of the agent in chat:active, or that of the
\* agent that was there when the pipeline was executed and its reply lost.
Releasing == /\ worker[Conversation] = "releasing"
             /\ held[Conversation] = assigned[Conversation]
             /\ assigned[Conversation] # NoAgent
Retrying  == /\ worker[Conversation] = "retrying"
             /\ held[Conversation] \in Agents
             /\ assigned[Conversation] = NoAgent

\* Each handler has its stages, and the worker holds a slot at one of them.
Control ==
  /\ \/ event = "none" /\ stage = "none"
     \/ In("chat_start", {"insert", "online", "publish"})
     \/ In("incoming_message", {"touch", "publish"})
     \/ In("transfer_to_agent", {"route", "update", "assign", "publish"})
     \/ In("chat_end", {"find", "release", "read", "offline", "publish"})
  /\ stage = "release" => Releasing \/ Retrying

\* Who is assigned while an agent is being assigned or has been released
Assignment ==
  /\ In("transfer_to_agent", {"update", "assign", "publish"}) => assigned[Conversation] = routed
  /\ In("chat_end", {"read", "offline", "publish"}) => assigned[Conversation] = NoAgent
  /\ wanted = "ended" /\ ~ torn =>
       \/ assigned[Conversation] = NoAgent
       \/ In("transfer_to_agent", {"update", "assign", "publish"})

\* When the dashboard does not list the chat
Listing ==
  /\ Conversation \in online => record[Conversation] # Nothing
  /\ In("chat_end", {"publish"}) => Conversation \notin online
  /\ wanted = "ended" /\ ~ torn =>
       Conversation \notin online \/ In("chat_start", {"publish"})

RecordAgrees ==
  record[Conversation] # Nothing =>
    record[Conversation].agent \in {assigned[Conversation], NoAgent}

\* The record lags behind the router only while a handler is between the two.
RecordAgent ==
  /\ ~ torn => \/ RecordAgrees
               \/ In("transfer_to_agent", {"update", "assign"})
               \/ In("chat_end", {"release", "read", "offline"})
  /\ In("transfer_to_agent", {"publish"}) \/ In("chat_end", {"publish"}) => RecordAgrees

\* It loses the agent only to a chat_start or a gateway.
RecordNames ==
  assigned[Conversation] # NoAgent /\ ~ renewed =>
    \/ record[Conversation] # Nothing /\ record[Conversation].agent = assigned[Conversation]
    \/ In("transfer_to_agent", {"update", "assign"})
    \/ torn /\ ~ In("transfer_to_agent", {"publish"})

\* So does the row.
RowAgent ==
  /\ assigned[Conversation] # NoAgent /\ ~ torn =>
       row.agent = assigned[Conversation] \/ In("transfer_to_agent", {"update"})
  /\ In("transfer_to_agent", {"assign", "publish"}) => row.agent = routed

\* A handler that makes the conversation active wrote the row and has not returned.
Activating == In("chat_start", {"online", "publish"}) \/ In("transfer_to_agent", {"assign", "publish"})

\* The last chat_end in the topic is still to be written, or was given up.
Outstanding == \E i \in 1 .. Len(log) : Newest(i) /\ (i >= position \/ i \in lost)

NoEnd == \A i \in 1 .. Len(log) : log[i] # "chat_end"

\* A step that publishes no chat_end and writes nothing
EndsStay == (EndPending' => EndPending) /\ (Outstanding => Outstanding') /\ (NoEnd => NoEnd')

\* A row made active with no chat_end to come stays active, whatever is written again; after
\* a chat_end it is ended, unless that is still outstanding.
RowStatus ==
  /\ ~ overtaken /\ (Activating \/ (~ torn /\ wanted = "active")) =>
       row.status = "active" /\ ~ EndPending
  /\ ~ torn /\ ~ Activating =>
       /\ wanted = "ended" => row.status = "ended" \/ Outstanding
       /\ wanted = "none" => row.status = "none" /\ NoEnd

IInv == /\ TypeOK
        /\ Control
        /\ SlotIsReleasable
        /\ Assignment
        /\ Listing
        /\ RecordAgent
        /\ RecordNames
        /\ RowAgent
        /\ RowStatus


-----------------------------------------------------------------------------
(* What the operations of the router do *)

\* The script gives the conversation to agent a.
LEMMA RouteFacts ==
  ASSUME R!TypeOK, NEW a \in Agents, R!Route(Conversation, a)
  PROVE  /\ R!TypeOK'
         /\ assigned'[Conversation] = a /\ a # NoAgent
         /\ worker' = worker /\ held' = held
         /\ \A b \in Agents : Chats(b)' => Chats(b) \/ b = a
<1> DEFINE gone == {b \in R!Candidates \ status : R!Before(b, a)}
<1>1. /\ pool' = pool \ gone /\ fresh' = fresh \ gone
      /\ score' = [b \in Agents |-> IF b \in gone THEN 0
                                    ELSE IF b = a THEN score[b] + 1
                                    ELSE score[b]]
      /\ chatsOf' = [chatsOf EXCEPT ![a] = @ \cup {Conversation}]
      /\ assigned' = [assigned EXCEPT ![Conversation] = a]
      /\ UNCHANGED <<status, worker, held, timeouts, redone>>
  BY DEF R!Route, R!Drop
<1> HIDE DEF gone
<1>2. /\ score' \in [Agents -> Int]
      /\ chatsOf' \in [Agents -> SUBSET {Conversation}]
      /\ assigned' \in [{Conversation} -> Agents \cup {NoAgent}]
  BY <1>1 DEF R!TypeOK
<1>3. R!TypeOK'
  BY <1>1, <1>2 DEF R!TypeOK
<1>4. assigned'[Conversation] = a /\ a # NoAgent
  BY <1>1, Assumptions DEF R!TypeOK
<1>5. \A b \in Agents : Chats(b)' => Chats(b) \/ b = a
  BY <1>1 DEF R!TypeOK, Chats
<1> QED BY <1>1, <1>3, <1>4, <1>5

\* The other operations but a release leave chats and assignment alone.
LEMMA RouteNobodyFacts ==
  ASSUME R!TypeOK, R!RouteNobody(Conversation)
  PROVE  R!TypeOK' /\ UNCHANGED <<chatsOf, assigned, worker, held>>
<1> DEFINE gone == R!Candidates \ status
<1>1. /\ pool' = pool \ gone /\ fresh' = fresh \ gone
      /\ score' = [b \in Agents |-> IF b \in gone THEN 0 ELSE score[b]]
      /\ UNCHANGED <<status, chatsOf, assigned, worker, held, timeouts, redone>>
  BY DEF R!RouteNobody, R!Drop
<1> HIDE DEF gone
<1>2. score' \in [Agents -> Int]
  BY <1>1 DEF R!TypeOK
<1> QED BY <1>1, <1>2 DEF R!TypeOK

LEMMA AgentFacts ==
  ASSUME R!TypeOK, NEW a \in Agents,
         R!GoOnline(a) \/ R!Heartbeat(a) \/ R!GoOffline(a) \/ R!Expire(a)
  PROVE  R!TypeOK' /\ UNCHANGED <<chatsOf, assigned, worker, held>>
<1>1. CASE R!GoOnline(a)
  BY <1>1 DEF R!GoOnline, R!TypeOK
<1>2. CASE R!Heartbeat(a) \/ R!Expire(a)
  BY <1>2 DEF R!Heartbeat, R!Expire, R!TypeOK
<1>3. CASE R!GoOffline(a)
  BY <1>3 DEF R!GoOffline, R!TypeOK
<1> QED BY <1>1, <1>2, <1>3

LEMMA FindAgentFacts ==
  ASSUME R!TypeOK, R!FindAgent(Conversation)
  PROVE  /\ R!TypeOK' /\ UNCHANGED <<chatsOf, assigned>>
         /\ worker'[Conversation] = "releasing"
         /\ held'[Conversation] = assigned[Conversation]
         /\ assigned[Conversation] # NoAgent
BY DEF R!FindAgent, R!TypeOK

\* The pipeline takes the conversation from the agent read, and the agent from it.
LEMMA ExecuteFacts ==
  ASSUME R!TypeOK, held[Conversation] \in Agents, R!Execute(Conversation)
  PROVE  /\ pool \subseteq pool' /\ pool' \subseteq Agents
         /\ score' \in [Agents -> Int] /\ chatsOf' \in [Agents -> SUBSET {Conversation}]
         /\ assigned' \in [{Conversation} -> Agents \cup {NoAgent}]
         /\ assigned'[Conversation] = NoAgent
         /\ \A a \in Agents : Chats(a)' => Chats(a) /\ a # held[Conversation]
<1> DEFINE h == held[Conversation]
<1>1. /\ pool' = pool \cup {h} /\ score' = [score EXCEPT ![h] = @ - 1]
      /\ chatsOf' = [chatsOf EXCEPT ![h] = @ \ {Conversation}]
      /\ assigned' = [assigned EXCEPT ![Conversation] = NoAgent]
      /\ h \in Agents
  BY DEF R!Execute
<1> HIDE DEF h
<1>2. /\ pool \subseteq pool' /\ pool' \subseteq Agents
      /\ score' \in [Agents -> Int] /\ chatsOf' \in [Agents -> SUBSET {Conversation}]
      /\ assigned' \in [{Conversation} -> Agents \cup {NoAgent}]
      /\ assigned'[Conversation] = NoAgent
  BY <1>1 DEF R!TypeOK
<1>3. \A a \in Agents : Chats(a)' => Chats(a) /\ a # h
  BY <1>1 DEF R!TypeOK, Chats
<1> QED BY <1>2, <1>3 DEF h

LEMMA ReleaseFacts ==
  ASSUME R!TypeOK, held[Conversation] \in Agents,
         R!Release(Conversation) \/ R!ReleaseAgain(Conversation)
  PROVE  /\ R!TypeOK'
         /\ worker'[Conversation] = "free" /\ assigned'[Conversation] = NoAgent
         /\ \A a \in Agents : Chats(a)' => Chats(a) /\ a # held[Conversation]
<1>1. /\ R!Execute(Conversation)
      /\ worker' = [worker EXCEPT ![Conversation] = "free"]
      /\ held' = [held EXCEPT ![Conversation] = NoAgent]
      /\ UNCHANGED <<status, timeouts, fresh>>
  BY DEF R!Release, R!ReleaseAgain, R!Settle
<1>2. redone' \in [Agents -> Nat]
  BY DEF R!Release, R!ReleaseAgain, R!TypeOK
<1>3. R!TypeOK'
  BY <1>1, <1>2, ExecuteFacts DEF R!TypeOK
<1>4. worker'[Conversation] = "free"
  BY <1>1 DEF R!TypeOK
<1> QED BY <1>1, <1>3, <1>4, ExecuteFacts

\* So it does when its reply is lost; the worker keeps the agent to take it from once more.
LEMMA ReleaseTimesOutFacts ==
  ASSUME R!TypeOK, held[Conversation] \in Agents, R!ReleaseTimesOut(Conversation)
  PROVE  /\ R!TypeOK' /\ held' = held
         /\ worker'[Conversation] = "retrying" /\ assigned'[Conversation] = NoAgent
         /\ \A a \in Agents : Chats(a)' => Chats(a) /\ a # held[Conversation]
<1>1. /\ R!Execute(Conversation)
      /\ worker' = [worker EXCEPT ![Conversation] = "retrying"]
      /\ UNCHANGED <<status, held, fresh, redone>>
  BY DEF R!ReleaseTimesOut
<1>2. timeouts' \in 0 .. MaxTimeouts
  BY Bounds DEF R!ReleaseTimesOut, R!TypeOK
<1>3. R!TypeOK'
  BY <1>1, <1>2, ExecuteFacts DEF R!TypeOK
<1>4. worker'[Conversation] = "retrying"
  BY <1>1 DEF R!TypeOK
<1> QED BY <1>1, <1>3, <1>4, ExecuteFacts

LEMMA ReleaseFailsFacts ==
  ASSUME R!TypeOK, R!ReleaseFails(Conversation)
  PROVE  R!TypeOK' /\ UNCHANGED <<chatsOf, assigned>> /\ worker'[Conversation] = "free"
BY DEF R!ReleaseFails, R!Settle, R!TypeOK

-----------------------------------------------------------------------------
(* What the operations of the tracker do *)

LEMMA ChatOnlineFacts ==
  ASSUME T!TypeOK, NEW u \in Users, T!ChatOnline(Conversation, u)
  PROVE  /\ T!TypeOK' /\ T!WorkerFree(Conversation) /\ T!WorkerFree(Conversation)'
         /\ record'[Conversation] # Nothing /\ record'[Conversation].agent = NoAgent
<1>1. [user |-> u, agent |-> NoAgent] \in T!Record
  BY DEF T!Record
<1>2. /\ online' = online \cup {Conversation}
      /\ ofUser' = [ofUser EXCEPT ![u] = @ \cup {Conversation}]
      /\ record' = [record EXCEPT ![Conversation] = [user |-> u, agent |-> NoAgent]]
      /\ UNCHANGED <<ofAgent, reading, resent, touching>> /\ T!WorkerFree(Conversation)
  BY DEF T!ChatOnline
<1>3. T!TypeOK'
  BY <1>1, <1>2 DEF T!TypeOK
<1>4. record'[Conversation] = [user |-> u, agent |-> NoAgent]
  BY <1>2 DEF T!TypeOK
<1>5. record'[Conversation] # Nothing
  BY <1>1, <1>4, Assumptions DEF T!Record
<1> QED BY <1>2, <1>3, <1>4, <1>5 DEF T!WorkerFree

\* HSET makes a record where there is none; the agent is the one given, or none.
LEMMA WriteRecordFacts ==
  ASSUME T!TypeOK, NEW a \in Agents \cup {NoAgent},
         \/ a # NoAgent /\ T!ChatAssigned(Conversation, a)
         \/ a = NoAgent /\ T!ChatMessageReceived(Conversation)
         \/ a = NoAgent /\ T!LateTouch(Conversation)
  PROVE  /\ T!TypeOK' /\ UNCHANGED <<online, reading>>
         /\ record'[Conversation] # Nothing
         /\ \/ record'[Conversation].agent = a /\ (a = NoAgent => record[Conversation] = Nothing)
            \/ a = NoAgent /\ record[Conversation] # Nothing /\ record' = record
<1> DEFINE r == record[Conversation]
           n == record'[Conversation]
<1>1. r \in T!Record \cup {Nothing} /\ Nothing \notin T!Record
  BY Assumptions DEF T!TypeOK, T!Record
<1>2. /\ UNCHANGED <<online, ofUser, reading, resent>>
      /\ touching' \subseteq touching
      /\ ofAgent' \in [Agents -> SUBSET {Conversation}]
  <2>1. CASE T!ChatAssigned(Conversation, a) /\ a # NoAgent
    BY <2>1 DEF T!ChatAssigned, T!TypeOK
  <2>2. CASE T!ChatMessageReceived(Conversation) \/ T!LateTouch(Conversation)
    BY <2>2 DEF T!ChatMessageReceived, T!LateTouch, T!TypeOK
  <2> QED BY <2>1, <2>2
<1>3. CASE r = Nothing
  <2>1. record' = [record EXCEPT ![Conversation] = [user |-> NoAgent, agent |-> a]]
    BY <1>3 DEF T!ChatAssigned, T!ChatMessageReceived, T!LateTouch, T!Touch
  <2>2. [user |-> NoAgent, agent |-> a] \in T!Record
    BY DEF T!Record
  <2>3. record' \in [{Conversation} -> T!Record \cup {Nothing}]
        /\ n = [user |-> NoAgent, agent |-> a]
    BY <2>1, <2>2 DEF T!TypeOK
  <2> QED BY <1>1, <1>2, <1>3, <2>2, <2>3 DEF T!TypeOK
<1>4. CASE r # Nothing /\ a # NoAgent
  <2>1. record' = [record EXCEPT ![Conversation] = [r EXCEPT !.agent = a]]
    BY <1>4 DEF T!ChatAssigned
  <2>2. [r EXCEPT !.agent = a] \in T!Record /\ [r EXCEPT !.agent = a].agent = a
    BY <1>1, <1>4 DEF T!Record
  <2>3. record' \in [{Conversation} -> T!Record \cup {Nothing}]
        /\ n = [r EXCEPT !.agent = a]
    BY <2>1, <2>2 DEF T!TypeOK
  <2> QED BY <1>1, <1>2, <1>4, <2>2, <2>3 DEF T!TypeOK
<1>5. CASE r # Nothing /\ a = NoAgent
  <2>1. record' = record
    BY <1>5 DEF T!ChatMessageReceived, T!LateTouch, T!Touch, T!TypeOK
  <2> QED BY <1>2, <1>5, <2>1 DEF T!TypeOK
<1> QED BY <1>3, <1>4, <1>5

LEMMA AbandonFacts ==
  ASSUME T!TypeOK, T!HandlerAbandonsTouch(Conversation)
  PROVE  T!TypeOK' /\ UNCHANGED <<online, record, reading>>
BY DEF T!HandlerAbandonsTouch, T!TypeOK

\* chat_offline of caller k, in its two steps; only its own reading changes.
LEMMA OfflineFacts ==
  ASSUME T!TypeOK, NEW k \in T!Callers,
         \/ T!ReadRecord(Conversation, k)
         \/ T!ChatOffline(Conversation, k)
         \/ T!ChatOfflineTimesOut(Conversation, k)
         \/ T!ChatOfflineFails(Conversation, k)
  PROVE  /\ T!TypeOK'
         /\ \A j \in T!Callers \ {k} : reading'[Conversation][j] = reading[Conversation][j]
         /\ T!ReadRecord(Conversation, k) =>
              reading'[Conversation][k] # Nothing /\ UNCHANGED <<online, record>>
         /\ T!ChatOfflineFails(Conversation, k) =>
              reading'[Conversation][k] = Nothing /\ UNCHANGED <<online, record>>
         /\ T!ChatOffline(Conversation, k) =>
              /\ reading'[Conversation][k] = Nothing
              /\ Conversation \notin online' /\ record'[Conversation] = Nothing
         /\ T!ChatOfflineTimesOut(Conversation, k) =>
              /\ reading'[Conversation][k] # Nothing
              /\ Conversation \notin online' /\ record'[Conversation] = Nothing
<1> DEFINE Others == \A j \in T!Callers \ {k} : reading'[Conversation][j] = reading[Conversation][j]
<1>1. ASSUME T!ReadRecord(Conversation, k)
      PROVE  T!TypeOK' /\ Others /\ reading'[Conversation][k] # Nothing /\ UNCHANGED <<online, record>>
  <2>1. /\ record[Conversation] \in T!Record \cup {Nothing} /\ record[Conversation] # Nothing
        /\ reading' = [reading EXCEPT ![Conversation][k] = record[Conversation]]
        /\ UNCHANGED <<online, ofUser, ofAgent, record, resent, touching>>
    BY <1>1 DEF T!ReadRecord, T!TypeOK
  <2>2. /\ reading' \in [{Conversation} -> [T!Callers -> T!Record \cup {Nothing}]]
        /\ reading'[Conversation][k] = record[Conversation] /\ Others
    BY <2>1 DEF T!TypeOK
  <2> QED BY <2>1, <2>2 DEF T!TypeOK
<1>2. ASSUME reading' = [reading EXCEPT ![Conversation][k] = Nothing]
      PROVE  /\ reading' \in [{Conversation} -> [T!Callers -> T!Record \cup {Nothing}]]
             /\ reading'[Conversation][k] = Nothing /\ Others
  BY <1>2 DEF T!TypeOK
<1>3. ASSUME T!ChatOfflineFails(Conversation, k)
      PROVE  T!TypeOK' /\ Others /\ reading'[Conversation][k] = Nothing /\ UNCHANGED <<online, record>>
  <2>1. /\ reading' = [reading EXCEPT ![Conversation][k] = Nothing]
        /\ resent' = resent \ {<<Conversation, k>>}
        /\ UNCHANGED <<online, ofUser, ofAgent, record, touching>>
    BY <1>3 DEF T!ChatOfflineFails
  <2> QED BY <1>2, <2>1 DEF T!TypeOK
<1>4. ASSUME T!Remove(Conversation, reading[Conversation][k])
      PROVE  /\ online' \subseteq {Conversation} /\ Conversation \notin online'
             /\ ofUser' \in [Users -> SUBSET {Conversation}]
             /\ ofAgent' \in [Agents -> SUBSET {Conversation}]
             /\ record' \in [{Conversation} -> T!Record \cup {Nothing}]
             /\ record'[Conversation] = Nothing
  BY <1>4 DEF T!Remove, T!TypeOK
<1>5. ASSUME T!ChatOffline(Conversation, k)
      PROVE  /\ T!TypeOK' /\ Others /\ reading'[Conversation][k] = Nothing
             /\ Conversation \notin online' /\ record'[Conversation] = Nothing
  <2>1. /\ T!Remove(Conversation, reading[Conversation][k])
        /\ reading' = [reading EXCEPT ![Conversation][k] = Nothing]
        /\ resent' = resent \ {<<Conversation, k>>} /\ touching' = touching
    BY <1>5 DEF T!ChatOffline
  <2> QED BY <1>2, <1>4, <2>1 DEF T!TypeOK
<1>6. ASSUME T!ChatOfflineTimesOut(Conversation, k)
      PROVE  /\ T!TypeOK' /\ Others /\ reading'[Conversation][k] # Nothing
             /\ Conversation \notin online' /\ record'[Conversation] = Nothing
  <2>1. /\ T!Remove(Conversation, reading[Conversation][k])
        /\ resent' = resent \cup {<<Conversation, k>>}
        /\ reading[Conversation][k] # Nothing /\ UNCHANGED <<reading, touching>>
    BY <1>6 DEF T!ChatOfflineTimesOut
  <2> QED BY <1>4, <2>1 DEF T!TypeOK
<1> QED BY <1>1, <1>3, <1>5, <1>6

-----------------------------------------------------------------------------
(* Steps that end a handler, and what they share *)

Row   == [status : {"none", "active", "ended"}, agent : Agents \cup {NoAgent}]
Kinds == {"chat_end", "other"}

TopicOK == /\ log \in Seq(Kinds)
           /\ position \in 1 .. Len(log) + 1
           /\ committed \in 1 .. position
           /\ lost \subseteq 1 .. Len(log)

\* The router as it was
LEMMA RouterStays ==
  ASSUME R!TypeOK, UNCHANGED routerVars
  PROVE  R!TypeOK' /\ UNCHANGED <<chatsOf, assigned, worker, held>>
BY DEF R!TypeOK, routerVars

\* The tracker as it was
LEMMA TrackerStays ==
  ASSUME T!TypeOK, UNCHANGED trackerVars
  PROVE  T!TypeOK' /\ UNCHANGED <<online, record, reading>>
BY DEF T!TypeOK, trackerVars

\* The topic as it was
LEMMA TopicStays ==
  ASSUME UNCHANGED topicVars
  PROVE  /\ (TopicOK' <=> TopicOK) /\ (EndPending' <=> EndPending)
         /\ (Outstanding' <=> Outstanding) /\ (NoEnd' <=> NoEnd)
BY DEF topicVars, TopicOK, EndPending, Outstanding, Newest, NoEnd

\* Who has the conversation among their chats
LEMMA SlotStays ==
  ASSUME SlotIsReleasable, UNCHANGED <<chatsOf, assigned, twice>>
  PROVE  SlotIsReleasable'
BY DEF SlotIsReleasable, Chats

LEMMA InitInv == Init => IInv
<1> SUFFICES ASSUME Init PROVE IInv
  OBVIOUS
<1>1. R!TypeOK
  BY Assumptions, Bounds DEF Init, R!Init, R!TypeOK
<1>2. T!TypeOK /\ T!WorkerFree(Conversation)
  BY DEF Init, T!Init, T!TypeOK, T!WorkerFree, T!Callers
<1>3. TopicOK /\ NoEnd
  BY DEF Init, TopicOK, NoEnd
<1>4. TypeOK
  <2>1. torn \in BOOLEAN /\ twice \in BOOLEAN /\ overtaken \in BOOLEAN /\ renewed \in BOOLEAN
    BY DEF Init
  <2>2. handled \in 0 .. MaxEvents /\ failures \in 0 .. MaxFailures
    BY Bounds DEF Init
  <2>3. worker[Conversation] = "free"
    BY DEF Init, R!Init
  <2>4. row \in Row
    BY DEF Init, Row
  <2> QED BY <1>1, <1>2, <1>3, <2>1, <2>2, <2>3, <2>4 DEF Init, TypeOK, TopicOK, Kinds, Row
<1>5. /\ online = {} /\ record[Conversation] = Nothing
      /\ worker[Conversation] = "free" /\ assigned[Conversation] = NoAgent
      /\ \A a \in Agents : ~ Chats(a)
  BY DEF Init, R!Init, T!Init, Chats
<1>6. /\ Control /\ SlotIsReleasable /\ Assignment /\ Listing
      /\ RecordAgent /\ RecordNames /\ RowAgent
  BY <1>5 DEF Init, Control, SlotIsReleasable, Assignment, Listing, RecordAgent, RecordAgrees,
              RecordNames, RowAgent, In
<1>7. RowStatus
  BY <1>3 DEF Init, RowStatus, Activating, In
<1> QED BY <1>4, <1>6, <1>7 DEF IInv

\* Whatever a handler had done when it raises: of the worker nothing is left open, and the
\* invariant has no more to say of a conversation that is torn.
LEMMA RaiseInv ==
  ASSUME IInv, Raise, R!TypeOK', T!TypeOK',
         worker'[Conversation] = "free", T!WorkerFree(Conversation)',
         (Conversation \in online => record[Conversation] # Nothing)',
         SlotIsReleasable', row' \in Row, TopicOK',
         twice' \in BOOLEAN, overtaken' \in BOOLEAN /\ renewed' \in BOOLEAN
  PROVE  IInv'
<1>1. /\ event' = "none" /\ stage' = "none" /\ routed' = NoAgent /\ torn'
      /\ handled' = handled /\ wanted' = wanted
  BY DEF Raise
<1>2. failures' \in 0 .. MaxFailures
  BY Bounds DEF Raise, IInv, TypeOK
<1>3. torn' \in BOOLEAN
  BY DEF Raise
<1>4. handled' \in 0 .. MaxEvents /\ wanted' \in {"none", "active", "ended"}
  BY <1>1 DEF IInv, TypeOK
<1>5. TypeOK'
  BY <1>1, <1>2, <1>3, <1>4 DEF TypeOK, TopicOK, Row, Kinds
<1>6. Control' /\ Assignment' /\ Listing' /\ RecordAgent' /\ RecordNames' /\ RowAgent'
  BY <1>1 DEF Control, Assignment, Listing, RecordAgent, RecordNames, RowAgent, In
<1>7. RowStatus'
  BY <1>1 DEF RowStatus, Activating, In
<1> QED BY <1>5, <1>6, <1>7 DEF IInv

\* What the lemmas below take from the invariant
LEMMA Facts ==
  ASSUME IInv
  PROVE  /\ R!TypeOK /\ T!TypeOK /\ SlotIsReleasable
         /\ row \in Row /\ TopicOK
         /\ worker[Conversation] = "free" <=> stage # "release"
         /\ T!WorkerFree(Conversation) <=> stage # "offline"
         /\ Conversation \in online => record[Conversation] # Nothing
BY DEF IInv, TypeOK, TopicOK, Listing, Row, Kinds

LEMMA FlagFacts ==
  ASSUME IInv
  PROVE  torn \in BOOLEAN /\ twice \in BOOLEAN /\ overtaken \in BOOLEAN /\ renewed \in BOOLEAN
BY Zenon DEF IInv, TypeOK

\* A step that raises without effect
LEMMA RaiseOnly ==
  ASSUME IInv, Raise, stage \notin {"release", "offline"},
         UNCHANGED <<routerVars, trackerVars, row, topicVars, twice, overtaken, renewed>>
  PROVE  IInv'
<1>1. /\ R!TypeOK' /\ UNCHANGED <<chatsOf, assigned, worker, held>>
  BY Facts, RouterStays
<1>2. /\ T!TypeOK' /\ UNCHANGED <<online, record, reading>>
  BY Facts, TrackerStays
<1>3. /\ worker'[Conversation] = "free" /\ T!WorkerFree(Conversation)'
      /\ (Conversation \in online => record[Conversation] # Nothing)'
  BY <1>1, <1>2, Facts DEF T!WorkerFree
<1>4. SlotIsReleasable'
  BY <1>1, Facts, SlotStays
<1>5. twice' \in BOOLEAN /\ overtaken' \in BOOLEAN /\ renewed' \in BOOLEAN
  BY Zenon, FlagFacts
<1> QED BY <1>1, <1>2, <1>3, <1>4, <1>5, Facts, TopicStays, RaiseInv

\* The types, for a step that leaves the worker where it is
LEMMA BesideType ==
  ASSUME IInv, R!TypeOK', T!TypeOK', UNCHANGED <<event, stage, routed, handled, wanted>>,
         worker'[Conversation] = worker[Conversation],
         T!WorkerFree(Conversation)' <=> T!WorkerFree(Conversation),
         row' \in Row, TopicOK', failures' \in 0 .. MaxFailures,
         torn' \in BOOLEAN, twice' \in BOOLEAN, overtaken' \in BOOLEAN /\ renewed' \in BOOLEAN
  PROVE  TypeOK'
BY DEF IInv, TypeOK, TopicOK, Row, Kinds

-----------------------------------------------------------------------------
(* Begin, and the steps of chat_start *)

LEMMA BeginInv == ASSUME IInv, NEW e \in Events, Begin(e) PROVE IInv'
<1>1. /\ event = "none" /\ stage = "none" /\ event' = e /\ stage' = FirstStage[e]
      /\ UNCHANGED <<routerVars, trackerVars, routed, row, topicVars, failures>>
      /\ UNCHANGED <<wanted, torn, twice, overtaken, renewed>>
  BY DEF Begin, IInv, Control, In, history
<1>2. R!TypeOK' /\ UNCHANGED <<chatsOf, assigned, worker, held>>
  BY <1>1, Facts, RouterStays
<1>3. T!TypeOK' /\ UNCHANGED <<online, record, reading>>
  BY <1>1, Facts, TrackerStays
<1>4. handled' \in 0 .. MaxEvents
  BY Bounds DEF Begin, IInv, TypeOK
<1>5. \/ e = "chat_start" /\ stage' = "insert"
      \/ e = "incoming_message" /\ stage' = "touch"
      \/ e = "transfer_to_agent" /\ stage' = "route"
      \/ e = "chat_end" /\ stage' = "find"
  BY <1>1 DEF FirstStage, Events
<1>6. torn' \in BOOLEAN /\ twice' \in BOOLEAN /\ overtaken' \in BOOLEAN /\ renewed' \in BOOLEAN
  BY Zenon, <1>1, FlagFacts
<1>7. TypeOK'
  BY <1>1, <1>2, <1>3, <1>4, <1>5, <1>6, TopicStays
     DEF IInv, TypeOK, TopicOK, Kinds, T!WorkerFree, Events
<1>8. Control' /\ Assignment' /\ Listing' /\ RecordAgent' /\ RecordNames' /\ RowAgent'
  BY <1>1, <1>2, <1>3, <1>5 DEF IInv, Control, Assignment, Listing, RecordAgent, RecordAgrees, RecordNames,
     RowAgent, In
<1>9. RowStatus'
  BY <1>1, <1>5, TopicStays DEF IInv, RowStatus, Activating, In
<1>10. SlotIsReleasable'
  BY <1>1, <1>2, Facts, SlotStays
<1> QED BY <1>7, <1>8, <1>9, <1>10 DEF IInv

\* A row written while a chat_end record could still come is marked.
LEMMA WriteRowFacts ==
  ASSUME NEW new \in Row, WriteRow(new)
  PROVE  row' = new /\ row' \in Row /\ overtaken' \in BOOLEAN /\ (~ overtaken' => ~ EndPending)
<1>1. EndPending \in BOOLEAN
  BY Zenon DEF EndPending
<1> QED BY <1>1, Zenon DEF WriteRow

\* The types, for a handler that goes on
LEMMA ContinueType ==
  ASSUME IInv, NEW s, Continue(s), R!TypeOK', T!TypeOK', event # "none", s # "none",
         row' \in Row, overtaken' \in BOOLEAN /\ renewed' \in BOOLEAN, UNCHANGED <<topicVars, wanted, torn, twice>>,
         s = "release" <=> worker'[Conversation] # "free",
         s = "offline" <=> ~ T!WorkerFree(Conversation)',
         routed # NoAgent <=>
           s \in {"update", "assign"} \/ (event = "transfer_to_agent" /\ s = "publish")
  PROVE  TypeOK'
<1>1. torn' \in BOOLEAN /\ twice' \in BOOLEAN
  BY Zenon, FlagFacts
<1>2. stage' = s /\ UNCHANGED <<event, routed, handled, failures>>
  BY DEF Continue
<1> QED BY <1>1, <1>2, TopicStays DEF IInv, TypeOK, TopicOK, Row, Kinds

LEMMA InsertRowInv == ASSUME IInv, InsertRow PROVE IInv'
<1>1. /\ stage = "insert" /\ event = "chat_start"
      /\ UNCHANGED <<routerVars, trackerVars, topicVars, twice, renewed>>
  BY DEF InsertRow, IInv, Control, In
<1>2. R!TypeOK' /\ UNCHANGED <<chatsOf, assigned, worker, held>>
  BY <1>1, Facts, RouterStays
<1>3. T!TypeOK' /\ UNCHANGED <<online, record, reading>>
  BY <1>1, Facts, TrackerStays
<1>4. worker'[Conversation] = "free" /\ T!WorkerFree(Conversation)'
  BY <1>1, <1>2, <1>3, Facts DEF T!WorkerFree
<1>5. SlotIsReleasable'
  BY <1>1, <1>2, Facts, SlotStays
<1> DEFINE new == [row EXCEPT !.status = "active"]
<1>6. new \in Row /\ new.status = "active" /\ new.agent = row.agent
  BY Facts DEF Row
<1>7. CASE Raise /\ UNCHANGED <<row, overtaken>>
  BY <1>1, <1>7, RaiseOnly
<1>8. CASE Raise /\ WriteRow(new)
  <2>1. row' \in Row /\ overtaken' \in BOOLEAN /\ renewed' \in BOOLEAN /\ twice' \in BOOLEAN
    BY <1>1, <1>6, <1>8, WriteRowFacts, FlagFacts, Zenon
  <2>2. (Conversation \in online => record[Conversation] # Nothing)'
    BY <1>3, Facts
  <2> QED BY <1>1, <1>2, <1>3, <1>4, <1>5, <1>8, <2>1, <2>2, Facts, TopicStays, RaiseInv
<1>9. CASE Continue("online") /\ WriteRow(new) /\ UNCHANGED <<wanted, torn>>
  <2>1. /\ row' = new /\ row' \in Row /\ overtaken' \in BOOLEAN
        /\ ~ overtaken' => ~ EndPending
    BY <1>6, <1>9, WriteRowFacts
  <2>2. renewed' \in BOOLEAN
    BY <1>1, FlagFacts, Zenon
  <2>3. stage' = "online" /\ UNCHANGED <<event, routed, wanted, torn>>
    BY <1>9 DEF Continue
  <2>4. routed = NoAgent
    BY <1>1 DEF IInv, TypeOK
  <2>5. TypeOK'
    BY <1>1, <1>2, <1>3, <1>4, <1>9, <2>1, <2>4, <2>2, ContinueType
  <2>6. Control' /\ Assignment' /\ Listing' /\ RecordAgent' /\ RecordNames' /\ RowAgent'
    BY <1>1, <1>2, <1>3, <1>4, <1>6, <2>1, <2>3 DEF IInv, Control, Assignment, Listing,
       RecordAgent, RecordAgrees, RecordNames, RowAgent, In
  <2>7. RowStatus'
    BY <1>1, <1>6, <2>1, <2>3, TopicStays DEF RowStatus, Activating, In
  <2> QED BY <1>5, <2>5, <2>6, <2>7 DEF IInv
<1> QED BY <1>7, <1>8, <1>9 DEF InsertRow

LEMMA OnlineInv == ASSUME IInv, NEW u \in Users, Online(u) PROVE IInv'
<1>1. /\ stage = "online" /\ event = "chat_start" /\ routed = NoAgent
      /\ UNCHANGED <<routerVars, row, topicVars, twice, overtaken>>
  BY DEF Online, IInv, TypeOK, Control, In
<1>2. R!TypeOK' /\ UNCHANGED <<chatsOf, assigned, worker, held>>
  BY <1>1, Facts, RouterStays
<1>3. worker'[Conversation] = "free"
  BY <1>1, <1>2, Facts
<1>4. SlotIsReleasable'
  BY <1>1, <1>2, Facts, SlotStays
<1>5. twice' \in BOOLEAN /\ overtaken' \in BOOLEAN
  BY <1>1, FlagFacts, Zenon
<1>6. CASE Raise /\ UNCHANGED <<trackerVars, renewed>>
  BY <1>1, <1>6, RaiseOnly
<1>7. ASSUME T!ChatOnline(Conversation, u)
      PROVE  /\ T!TypeOK' /\ T!WorkerFree(Conversation)'
             /\ record'[Conversation] # Nothing /\ record'[Conversation].agent = NoAgent
  BY <1>7, Facts, ChatOnlineFacts
<1>8. CASE Raise /\ T!ChatOnline(Conversation, u) /\ renewed' = TRUE
  <2>1. row' \in Row /\ TopicOK'
    BY <1>1, Facts, TopicStays
  <2>2. renewed' \in BOOLEAN
    BY <1>8, Zenon
  <2> QED BY <1>2, <1>3, <1>4, <1>5, <1>7, <1>8, <2>1, <2>2, RaiseInv
<1>9. CASE /\ Continue("publish") /\ T!ChatOnline(Conversation, u) /\ renewed' = TRUE
           /\ UNCHANGED <<wanted, torn>>
  <2>1. stage' = "publish" /\ UNCHANGED <<event, routed, wanted, torn>>
    BY <1>9 DEF Continue
  <2>2. renewed' \in BOOLEAN /\ row' \in Row
    BY <1>1, <1>9, Facts, Zenon
  <2>3. TypeOK'
    BY <1>1, <1>2, <1>3, <1>5, <1>7, <1>9, <2>2, Facts, ContinueType
  <2>4. Control' /\ Assignment' /\ Listing' /\ RecordAgent' /\ RecordNames' /\ RowAgent'
    BY <1>1, <1>2, <1>3, <1>7, <1>9, <2>1 DEF IInv, Control, Assignment, Listing,
       RecordAgent, RecordAgrees, RecordNames, RowAgent, In
  <2>5. RowStatus'
    BY <1>1, <2>1, TopicStays DEF IInv, RowStatus, Activating, In
  <2> QED BY <1>4, <2>3, <2>4, <2>5 DEF IInv
<1> QED BY <1>6, <1>8, <1>9 DEF Online

\* A record is published at the end of the topic.
LEMMA PublishFacts ==
  ASSUME TopicOK, NEW kind \in Kinds, Publish(kind)
  PROVE  /\ TopicOK'
         /\ kind = "chat_end" => Outstanding'
         /\ kind = "other" => EndsStay
<1> DEFINE n == Len(log)
<1>1. /\ log' \in Seq(Kinds) /\ n \in Nat /\ Len(log') = n + 1
      /\ \A i \in 1 .. n : log'[i] = log[i]
      /\ log'[n + 1] = kind
      /\ UNCHANGED <<position, committed, lost>>
  BY DEF Publish, TopicOK
<1>2. /\ position \in 1 .. n + 1 /\ committed \in 1 .. position /\ lost \subseteq 1 .. n
  BY DEF TopicOK
<1> HIDE DEF n
<1>3. TopicOK'
  BY <1>1, <1>2 DEF TopicOK
<1>4. kind = "chat_end" => Outstanding'
  BY <1>1, <1>2 DEF Outstanding, Newest
<1>5. ASSUME kind = "other" PROVE EndPending' => EndPending
  BY <1>1, <1>2, <1>5 DEF EndPending, n
<1>6. ASSUME kind = "other", Outstanding PROVE Outstanding'
  <2>1. PICK i \in 1 .. n : Newest(i) /\ (i >= position \/ i \in lost)
    BY <1>6 DEF Outstanding, n
  <2>2. Newest(i)'
    BY <1>1, <1>6, <2>1 DEF Newest, n
  <2> QED BY <1>1, <2>1, <2>2 DEF Outstanding
<1>7. ASSUME kind = "other" PROVE NoEnd => NoEnd'
  BY <1>1, <1>7 DEF NoEnd, n
<1> QED BY <1>3, <1>4, <1>5, <1>6, <1>7 DEF EndsStay

\* The types, for a handler that returns
LEMMA ReturnType ==
  ASSUME IInv, NEW s \in {"none", "active", "ended"}, Return(s), R!TypeOK', T!TypeOK',
         UNCHANGED row, worker'[Conversation] = "free", T!WorkerFree(Conversation)',
         TopicOK', torn' \in BOOLEAN, twice' \in BOOLEAN, overtaken' \in BOOLEAN /\ renewed' \in BOOLEAN
  PROVE  TypeOK'
<1>1. /\ event' = "none" /\ stage' = "none" /\ routed' = NoAgent /\ wanted' = s
      /\ UNCHANGED <<handled, failures>>
  BY DEF Return
<1> QED BY <1>1 DEF IInv, TypeOK, TopicOK, Kinds

LEMMA PublishStartInv == ASSUME IInv, PublishStart PROVE IInv'
<1>1. /\ stage = "publish" /\ event = "chat_start"
      /\ UNCHANGED <<routerVars, trackerVars, row, twice, overtaken, renewed>>
  BY DEF PublishStart
<1>2. R!TypeOK' /\ UNCHANGED <<chatsOf, assigned, worker, held>>
  BY <1>1, Facts, RouterStays
<1>3. T!TypeOK' /\ UNCHANGED <<online, record, reading>>
  BY <1>1, Facts, TrackerStays
<1>4. worker'[Conversation] = "free" /\ T!WorkerFree(Conversation)'
      /\ (Conversation \in online => record[Conversation] # Nothing)'
  BY <1>1, <1>2, <1>3, Facts DEF T!WorkerFree
<1>5. SlotIsReleasable'
  BY <1>1, <1>2, Facts, SlotStays
<1>6. row' \in Row
  BY <1>1, Facts
<1>7. twice' \in BOOLEAN /\ overtaken' \in BOOLEAN /\ renewed' \in BOOLEAN /\ torn \in BOOLEAN
  BY <1>1, FlagFacts, Zenon
<1>8. CASE Raise /\ UNCHANGED topicVars
  BY <1>1, <1>8, RaiseOnly
<1>9. ASSUME Publish("other")
      PROVE  TopicOK' /\ EndsStay
  BY <1>9, Facts, PublishFacts DEF Kinds
<1>10. CASE Raise /\ Publish("other")
  BY <1>2, <1>3, <1>4, <1>5, <1>6, <1>7, <1>9, <1>10, RaiseInv
<1>11. CASE Publish("other") /\ Return("active") /\ UNCHANGED torn
  <2>1. event' = "none" /\ stage' = "none" /\ wanted' = "active" /\ torn' = torn
    BY <1>11 DEF Return
  <2>2. torn' \in BOOLEAN
    BY <1>7, <2>1, Zenon
  <2>3. TypeOK'
    BY <1>1, <1>2, <1>3, <1>4, <1>7, <1>9, <1>11, <2>2, ReturnType
  <2>4. Control' /\ Assignment' /\ Listing' /\ RecordAgent' /\ RecordNames' /\ RowAgent'
    BY <1>1, <1>2, <1>3, <1>4, <2>1 DEF IInv, Control, Assignment, Listing,
       RecordAgent, RecordAgrees, RecordNames, RowAgent, In
  <2>5. RowStatus'
    BY <1>1, <1>9, <1>11, <2>1 DEF IInv, RowStatus, Activating, EndsStay, In
  <2> QED BY <1>5, <2>3, <2>4, <2>5 DEF IInv
<1> QED BY <1>8, <1>10, <1>11 DEF PublishStart

-----------------------------------------------------------------------------
(* The steps of transfer_to_agent *)

LEMMA ResendFacts ==
  ASSUME IInv, Resend
  PROVE  failures' \in 0 .. MaxFailures /\ UNCHANGED <<event, stage, routed, handled, wanted>>
BY Bounds DEF Resend, IInv, TypeOK

LEMMA RouteToInv == ASSUME IInv, NEW a \in Agents, RouteTo(a) PROVE IInv'
<1>1. /\ stage = "route" /\ event = "transfer_to_agent" /\ routed = NoAgent
      /\ UNCHANGED <<trackerVars, row, topicVars, overtaken, renewed>>
      /\ R!Route(Conversation, a)
  BY DEF RouteTo, IInv, TypeOK, Control, In
<1>2. /\ R!TypeOK' /\ assigned'[Conversation] = a /\ a # NoAgent
      /\ UNCHANGED <<worker, held>>
      /\ \A b \in Agents : Chats(b)' => Chats(b) \/ b = a
  BY <1>1, Facts, RouteFacts
<1>3. T!TypeOK' /\ UNCHANGED <<online, record, reading>>
  BY <1>1, Facts, TrackerStays
<1>4. worker'[Conversation] = "free" /\ T!WorkerFree(Conversation)'
      /\ (Conversation \in online => record[Conversation] # Nothing)'
  BY <1>1, <1>2, <1>3, Facts DEF T!WorkerFree
<1>5. ~ twice' => ~ twice /\ assigned[Conversation] \in {a, NoAgent}
  BY DEF RouteTo
<1>6. twice' \in BOOLEAN
  BY Zenon DEF RouteTo
<1>7. SlotIsReleasable'
  <2> SUFFICES ASSUME ~ twice', NEW b \in Agents, Chats(b)' PROVE assigned'[Conversation] = b
    BY DEF SlotIsReleasable
  <2>1. CASE Chats(b)
    BY <1>2, <1>5, <2>1, Facts, Assumptions DEF SlotIsReleasable
  <2> QED BY <1>2, <2>1
<1>8. overtaken' \in BOOLEAN /\ renewed' \in BOOLEAN
  BY <1>1, FlagFacts, Zenon
<1>10. CASE Raise
  BY <1>1, <1>2, <1>3, <1>4, <1>6, <1>7, <1>8, <1>10, Facts, TopicStays, RaiseInv
<1>11. CASE /\ stage' = "update" /\ routed' = a
            /\ UNCHANGED <<event, handled, failures, wanted, torn>>
  <2>1. torn' \in BOOLEAN
    BY <1>11, FlagFacts, Zenon
  <2>2. TypeOK'
    BY <1>1, <1>2, <1>3, <1>4, <1>6, <1>8, <1>11, <2>1, TopicStays DEF IInv, TypeOK, TopicOK, Kinds
  <2>3. Control' /\ Assignment' /\ Listing' /\ RecordAgent' /\ RecordNames' /\ RowAgent'
    BY <1>1, <1>2, <1>3, <1>4, <1>11 DEF IInv, Control, Assignment, Listing, RecordAgent, RecordNames, RowAgent, In
  <2>4. RowStatus'
    BY <1>1, <1>11, TopicStays DEF IInv, RowStatus, Activating, In
  <2> QED BY <1>7, <2>2, <2>3, <2>4 DEF IInv
<1>12. CASE Resend /\ torn' = TRUE
  <2>1. torn' \in BOOLEAN /\ torn'
    BY <1>12, Zenon
  <2>2. failures' \in 0 .. MaxFailures /\ UNCHANGED <<event, stage, routed, handled, wanted>>
    BY <1>12, ResendFacts
  <2>3. TypeOK'
    BY <1>1, <1>2, <1>3, <1>4, <1>6, <1>8, <2>1, <2>2, TopicStays DEF IInv, TypeOK, TopicOK, Kinds
  <2>4. Control' /\ Assignment' /\ Listing' /\ RecordAgent' /\ RecordNames' /\ RowAgent'
    BY <1>1, <1>2, <1>3, <1>4, <2>1, <2>2 DEF IInv, Control, Assignment, Listing, RecordAgent, RecordNames, RowAgent, In
  <2>5. RowStatus'
    BY <1>1, <2>1, <2>2 DEF RowStatus, Activating, In
  <2> QED BY <1>7, <2>3, <2>4, <2>5 DEF IInv
<1> QED BY <1>10, <1>11, <1>12 DEF RouteTo

LEMMA RouteNobodyInv == ASSUME IInv, RouteNobody PROVE IInv'
<1>1. /\ stage = "route" /\ event = "transfer_to_agent" /\ routed = NoAgent
      /\ UNCHANGED <<trackerVars, row, topicVars, twice, overtaken, renewed>>
  BY DEF RouteNobody, IInv, TypeOK, Control, In
<1>2. CASE Raise /\ UNCHANGED routerVars
  BY <1>1, <1>2, RaiseOnly
<1>3. CASE R!RouteNobody(Conversation)
  <2>1. R!TypeOK' /\ UNCHANGED <<chatsOf, assigned, worker, held>>
    BY <1>3, Facts, RouteNobodyFacts
  <2>2. T!TypeOK' /\ UNCHANGED <<online, record, reading>>
    BY <1>1, Facts, TrackerStays
  <2>3. /\ worker'[Conversation] = "free" /\ T!WorkerFree(Conversation)'
        /\ (Conversation \in online => record[Conversation] # Nothing)'
    BY <1>1, <2>1, <2>2, Facts DEF T!WorkerFree
  <2>4. row' \in Row /\ TopicOK'
    BY <1>1, Facts, TopicStays
  <2>5. twice' \in BOOLEAN /\ overtaken' \in BOOLEAN /\ renewed' \in BOOLEAN
    BY <1>1, FlagFacts, Zenon
  <2>6. SlotIsReleasable'
    BY <1>1, <2>1, Facts, SlotStays
  <2>7. CASE Raise
    BY <2>1, <2>2, <2>3, <2>4, <2>5, <2>6, <2>7, RaiseInv
  <2>8. CASE (Return(wanted) \/ Resend) /\ UNCHANGED torn
    <3>1. torn' = torn /\ torn' \in BOOLEAN
      BY <2>8, FlagFacts, Zenon
    <3>2. wanted \in {"none", "active", "ended"}
      BY DEF IInv, TypeOK
    <3>3. /\ wanted' = wanted
          /\ (event' = "none" /\ stage' = "none") \/ UNCHANGED <<event, stage, routed>>
      BY <2>8 DEF Return, Resend
    <3>4. TypeOK'
      <4>1. CASE Return(wanted)
        BY <1>1, <2>1, <2>2, <2>3, <2>4, <2>5, <3>1, <3>2, <4>1, ReturnType
      <4>2. CASE Resend
        BY <1>1, <2>1, <2>2, <2>3, <2>4, <2>5, <3>1, <4>2, ResendFacts, BesideType, Facts
           DEF T!WorkerFree
      <4> QED BY <2>8, <4>1, <4>2
    <3>5. Control' /\ Assignment' /\ Listing' /\ RecordAgent' /\ RecordNames' /\ RowAgent'
      BY <1>1, <2>1, <2>2, <2>3, <3>1, <3>3 DEF IInv, Control, Assignment, Listing,
         RecordAgent, RecordAgrees, RecordNames, RowAgent, In
    <3>6. RowStatus'
      BY <1>1, <3>1, <3>3, TopicStays DEF IInv, RowStatus, Activating, In
    <3> QED BY <2>6, <3>4, <3>5, <3>6 DEF IInv
  <2> QED BY <1>3, <2>7, <2>8 DEF RouteNobody, R!RouteNobody
<1> QED BY <1>2, <1>3 DEF RouteNobody

LEMMA UpdateRowInv == ASSUME IInv, UpdateRow PROVE IInv'
<1>1. /\ stage = "update" /\ event = "transfer_to_agent" /\ routed # NoAgent
      /\ assigned[Conversation] = routed /\ routed \in Agents
      /\ UNCHANGED <<routerVars, trackerVars, topicVars, twice, renewed>>
  <2>1. /\ stage = "update" /\ event = "transfer_to_agent" /\ routed # NoAgent
        /\ assigned[Conversation] = routed
        /\ UNCHANGED <<routerVars, trackerVars, topicVars, twice, renewed>>
    BY DEF UpdateRow, IInv, TypeOK, Control, Assignment, In
  <2>2. assigned[Conversation] \in Agents \cup {NoAgent}
    BY Facts DEF R!TypeOK
  <2> QED BY <2>1, <2>2
<1>2. R!TypeOK' /\ UNCHANGED <<chatsOf, assigned, worker, held>>
  BY <1>1, Facts, RouterStays
<1>3. T!TypeOK' /\ UNCHANGED <<online, record, reading>>
  BY <1>1, Facts, TrackerStays
<1>4. worker'[Conversation] = "free" /\ T!WorkerFree(Conversation)'
      /\ (Conversation \in online => record[Conversation] # Nothing)'
  BY <1>1, <1>2, <1>3, Facts DEF T!WorkerFree
<1>5. SlotIsReleasable'
  BY <1>1, <1>2, Facts, SlotStays
<1> DEFINE new == [status |-> "active", agent |-> routed]
<1>6. new \in Row /\ new.status = "active" /\ new.agent = routed
  BY <1>1 DEF Row
<1>7. CASE Raise /\ UNCHANGED <<row, overtaken>>
  BY <1>1, <1>7, RaiseOnly
<1>8. CASE Raise /\ WriteRow(new)
  <2>1. row' \in Row /\ overtaken' \in BOOLEAN /\ renewed' \in BOOLEAN /\ twice' \in BOOLEAN
    BY <1>1, <1>6, <1>8, WriteRowFacts, FlagFacts, Zenon
  <2> QED BY <1>1, <1>2, <1>3, <1>4, <1>5, <1>8, <2>1, Facts, TopicStays, RaiseInv
<1>9. CASE Continue("assign") /\ WriteRow(new) /\ UNCHANGED <<wanted, torn>>
  <2>1. /\ row' = new /\ row' \in Row /\ overtaken' \in BOOLEAN
        /\ ~ overtaken' => ~ EndPending
    BY <1>6, <1>9, WriteRowFacts
  <2>2. renewed' \in BOOLEAN
    BY <1>1, FlagFacts, Zenon
  <2>3. stage' = "assign" /\ UNCHANGED <<event, routed, wanted, torn>>
    BY <1>9 DEF Continue
  <2>4. TypeOK'
    BY <1>1, <1>2, <1>3, <1>4, <1>9, <2>1, <2>2, ContinueType
  <2>5. Control' /\ Assignment' /\ Listing' /\ RecordAgent' /\ RecordNames' /\ RowAgent'
    BY <1>1, <1>2, <1>3, <1>4, <1>6, <2>1, <2>3 DEF IInv, Control, Assignment, Listing,
       RecordAgent, RecordNames, RowAgent, In
  <2>6. RowStatus'
    BY <1>1, <1>6, <2>1, <2>3, TopicStays DEF RowStatus, Activating, In
  <2> QED BY <1>5, <2>4, <2>5, <2>6 DEF IInv
<1> QED BY <1>7, <1>8, <1>9 DEF UpdateRow

LEMMA AssignInv == ASSUME IInv, Assign PROVE IInv'
<1>1. /\ stage = "assign" /\ event = "transfer_to_agent" /\ routed # NoAgent
      /\ assigned[Conversation] = routed /\ routed \in Agents
      /\ UNCHANGED <<routerVars, row, topicVars, twice, overtaken>>
  <2>1. /\ stage = "assign" /\ event = "transfer_to_agent" /\ routed # NoAgent
        /\ assigned[Conversation] = routed
        /\ UNCHANGED <<routerVars, row, topicVars, twice, overtaken>>
    BY DEF Assign, IInv, TypeOK, Control, Assignment, In
  <2>2. assigned[Conversation] \in Agents \cup {NoAgent}
    BY Facts DEF R!TypeOK
  <2> QED BY <2>1, <2>2
<1>2. R!TypeOK' /\ UNCHANGED <<chatsOf, assigned, worker, held>>
  BY <1>1, Facts, RouterStays
<1>3. worker'[Conversation] = "free"
  BY <1>1, <1>2, Facts
<1>4. SlotIsReleasable'
  BY <1>1, <1>2, Facts, SlotStays
<1>5. twice' \in BOOLEAN /\ overtaken' \in BOOLEAN
  BY <1>1, FlagFacts, Zenon
<1>6. CASE Raise /\ UNCHANGED <<trackerVars, renewed>>
  BY <1>1, <1>6, RaiseOnly
<1>7. ASSUME T!ChatAssigned(Conversation, routed)
      PROVE  /\ T!TypeOK' /\ T!WorkerFree(Conversation)' /\ UNCHANGED <<online, reading>>
             /\ record'[Conversation] # Nothing /\ record'[Conversation].agent = routed
  <2>1. /\ T!TypeOK' /\ UNCHANGED <<online, reading>>
        /\ record'[Conversation] # Nothing /\ record'[Conversation].agent = routed
    BY <1>1, <1>7, Facts, WriteRecordFacts
  <2> QED BY <1>1, <2>1, Facts DEF T!WorkerFree
<1>8. CASE Raise /\ T!ChatAssigned(Conversation, routed) /\ renewed' = FALSE
  <2>1. row' \in Row /\ TopicOK'
    BY <1>1, Facts, TopicStays
  <2>2. renewed' \in BOOLEAN
    BY <1>8, Zenon
  <2> QED BY <1>2, <1>3, <1>4, <1>5, <1>7, <1>8, <2>1, <2>2, RaiseInv
<1>9. CASE /\ Continue("publish") /\ T!ChatAssigned(Conversation, routed) /\ renewed' = FALSE
           /\ UNCHANGED <<wanted, torn>>
  <2>1. stage' = "publish" /\ UNCHANGED <<event, routed, wanted, torn>>
    BY <1>9 DEF Continue
  <2>2. renewed' \in BOOLEAN /\ row' \in Row
    BY <1>1, <1>9, Facts, Zenon
  <2>3. TypeOK'
    BY <1>1, <1>2, <1>3, <1>5, <1>7, <1>9, <2>2, Facts, ContinueType
  <2>4. Control' /\ Assignment' /\ Listing' /\ RecordAgent' /\ RecordNames' /\ RowAgent'
    BY <1>1, <1>2, <1>3, <1>7, <1>9, <2>1 DEF IInv, Control, Assignment, Listing,
       RecordAgent, RecordAgrees, RecordNames, RowAgent, In
  <2>5. RowStatus'
    BY <1>1, <2>1, TopicStays DEF IInv, RowStatus, Activating, In
  <2> QED BY <1>4, <2>3, <2>4, <2>5 DEF IInv
<1> QED BY <1>6, <1>8, <1>9 DEF Assign

LEMMA PublishAssignmentInv == ASSUME IInv, PublishAssignment PROVE IInv'
<1>1. /\ stage = "publish" /\ event = "transfer_to_agent" /\ routed # NoAgent
      /\ UNCHANGED <<routerVars, trackerVars, row, twice, overtaken, renewed>>
  BY DEF PublishAssignment, IInv, TypeOK
<1>2. R!TypeOK' /\ UNCHANGED <<chatsOf, assigned, worker, held>>
  BY <1>1, Facts, RouterStays
<1>3. T!TypeOK' /\ UNCHANGED <<online, record, reading>>
  BY <1>1, Facts, TrackerStays
<1>4. worker'[Conversation] = "free" /\ T!WorkerFree(Conversation)'
      /\ (Conversation \in online => record[Conversation] # Nothing)'
  BY <1>1, <1>2, <1>3, Facts DEF T!WorkerFree
<1>5. SlotIsReleasable'
  BY <1>1, <1>2, Facts, SlotStays
<1>6. row' \in Row
  BY <1>1, Facts
<1>7. twice' \in BOOLEAN /\ overtaken' \in BOOLEAN /\ renewed' \in BOOLEAN
  BY <1>1, FlagFacts, Zenon
<1>8. CASE Raise /\ UNCHANGED topicVars
  BY <1>1, <1>8, RaiseOnly
<1>9. ASSUME Publish("other")
      PROVE  TopicOK' /\ EndsStay
  BY <1>9, Facts, PublishFacts DEF Kinds
<1>10. CASE Raise /\ Publish("other")
  BY <1>2, <1>3, <1>4, <1>5, <1>6, <1>7, <1>9, <1>10, RaiseInv
<1>11. CASE Publish("other") /\ Return("active") /\ torn' = FALSE
  <2>1. event' = "none" /\ stage' = "none" /\ wanted' = "active"
    BY <1>11 DEF Return
  <2>2. torn' \in BOOLEAN
    BY <1>11, Zenon
  <2>3. TypeOK'
    BY <1>1, <1>2, <1>3, <1>4, <1>7, <1>9, <1>11, <2>2, ReturnType
  <2>4. Control' /\ Assignment' /\ Listing'
    BY <1>1, <1>2, <1>3, <1>4, <2>1 DEF IInv, Control, Assignment, Listing, In
  <2>5. RecordAgent' /\ RecordNames' /\ RowAgent'
    BY <1>1, <1>2, <1>3, <2>1 DEF IInv, Assignment, RecordAgent, RecordAgrees, RecordNames, RowAgent, In
  <2>6. Activating /\ ~ Activating'
    BY <1>1, <2>1 DEF Activating, In
  <2>7. ~ overtaken' => ~ EndPending /\ row.status = "active"
    BY <1>1, <2>6, Zenon DEF IInv, RowStatus
  <2>8. RowStatus'
    BY <1>1, <1>9, <1>11, <2>1, <2>6, <2>7 DEF RowStatus, EndsStay
  <2> QED BY <1>5, <2>3, <2>4, <2>5, <2>8 DEF IInv
<1> QED BY <1>8, <1>10, <1>11 DEF PublishAssignment

-----------------------------------------------------------------------------
(* The steps of incoming_message *)

LEMMA TouchInv == ASSUME IInv, Touch PROVE IInv'
<1>1. /\ stage = "touch" /\ event = "incoming_message" /\ routed = NoAgent
      /\ UNCHANGED <<routerVars, row, topicVars, twice, overtaken, renewed>>
  BY DEF Touch, IInv, TypeOK, Control, In
<1>2. R!TypeOK' /\ UNCHANGED <<chatsOf, assigned, worker, held>>
  BY <1>1, Facts, RouterStays
<1>3. worker'[Conversation] = "free"
  BY <1>1, <1>2, Facts
<1>4. SlotIsReleasable'
  BY <1>1, <1>2, Facts, SlotStays
<1>5. twice' \in BOOLEAN /\ overtaken' \in BOOLEAN /\ renewed' \in BOOLEAN
  BY <1>1, FlagFacts, Zenon
<1>6. CASE Raise /\ UNCHANGED trackerVars
  BY <1>1, <1>6, RaiseOnly
<1>7. CASE Raise /\ T!HandlerAbandonsTouch(Conversation)
  <2>1. T!TypeOK' /\ UNCHANGED <<online, record, reading>>
    BY <1>7, Facts, AbandonFacts
  <2>2. T!WorkerFree(Conversation)' /\ (Conversation \in online => record[Conversation] # Nothing)'
    BY <1>1, <2>1, Facts DEF T!WorkerFree
  <2>3. row' \in Row /\ TopicOK'
    BY <1>1, Facts, TopicStays
  <2> QED BY <1>2, <1>3, <1>4, <1>5, <1>7, <2>1, <2>2, <2>3, RaiseInv
<1>8. CASE Continue("publish") /\ T!ChatMessageReceived(Conversation) /\ UNCHANGED <<wanted, torn>>
  <2>1. /\ T!TypeOK' /\ UNCHANGED <<online, reading>>
        /\ record'[Conversation] # Nothing
        /\ \/ record'[Conversation].agent = NoAgent /\ record[Conversation] = Nothing
           \/ record[Conversation] # Nothing /\ record' = record
    BY <1>8, Facts, WriteRecordFacts
  <2>2. T!WorkerFree(Conversation)'
    BY <1>1, <2>1, Facts DEF T!WorkerFree
  <2>3. stage' = "publish" /\ UNCHANGED <<event, routed, wanted, torn>>
    BY <1>8 DEF Continue
  <2>4. TypeOK'
    BY <1>1, <1>2, <1>3, <1>5, <1>8, <2>1, <2>2, Facts, ContinueType
  <2>5. Control' /\ Assignment' /\ Listing' /\ RecordAgent' /\ RecordNames' /\ RowAgent'
    BY <1>1, <1>2, <1>3, <2>1, <2>3 DEF IInv, Control, Assignment, Listing,
       RecordAgent, RecordAgrees, RecordNames, RowAgent, In
  <2>6. RowStatus'
    BY <1>1, <2>3, TopicStays DEF IInv, RowStatus, Activating, In
  <2> QED BY <1>4, <2>4, <2>5, <2>6 DEF IInv
<1> QED BY <1>6, <1>7, <1>8 DEF Touch

LEMMA PublishMessageInv == ASSUME IInv, PublishMessage PROVE IInv'
<1>1. /\ stage = "publish" /\ event = "incoming_message"
      /\ UNCHANGED <<routerVars, trackerVars, row, twice, overtaken, renewed>>
  BY DEF PublishMessage
<1>2. R!TypeOK' /\ UNCHANGED <<chatsOf, assigned, worker, held>>
  BY <1>1, Facts, RouterStays
<1>3. T!TypeOK' /\ UNCHANGED <<online, record, reading>>
  BY <1>1, Facts, TrackerStays
<1>4. worker'[Conversation] = "free" /\ T!WorkerFree(Conversation)'
  BY <1>1, <1>2, <1>3, Facts DEF T!WorkerFree
<1>5. twice' \in BOOLEAN /\ overtaken' \in BOOLEAN /\ renewed' \in BOOLEAN /\ torn \in BOOLEAN
  BY <1>1, FlagFacts, Zenon
<1>6. CASE Raise /\ UNCHANGED topicVars
  BY <1>1, <1>6, RaiseOnly
<1>7. CASE Publish("other") /\ Return(wanted) /\ UNCHANGED torn
  <2>1. TopicOK' /\ EndsStay
    BY <1>7, Facts, PublishFacts DEF Kinds
  <2>2. event' = "none" /\ stage' = "none" /\ wanted' = wanted /\ torn' = torn
    BY <1>7 DEF Return
  <2>3. torn' \in BOOLEAN
    BY <1>5, <2>2, Zenon
  <2>4. wanted \in {"none", "active", "ended"}
    BY DEF IInv, TypeOK
  <2>5. TypeOK'
    BY <1>1, <1>2, <1>3, <1>4, <1>5, <1>7, <2>1, <2>3, <2>4, ReturnType
  <2>6. Control' /\ Assignment' /\ Listing' /\ RecordAgent' /\ RecordNames' /\ RowAgent'
    BY <1>1, <1>2, <1>3, <1>4, <2>2 DEF IInv, Control, Assignment, Listing,
       RecordAgent, RecordAgrees, RecordNames, RowAgent, In
  <2>7. RowStatus'
    BY <1>1, <2>1, <2>2 DEF IInv, RowStatus, Activating, EndsStay, In
  <2>8. SlotIsReleasable'
    BY <1>1, <1>2, Facts, SlotStays
  <2> QED BY <2>5, <2>6, <2>7, <2>8 DEF IInv
<1> QED BY <1>6, <1>7 DEF PublishMessage

-----------------------------------------------------------------------------
(* The steps of chat_end *)

LEMMA FindInv == ASSUME IInv, Find PROVE IInv'
<1>1. /\ stage = "find" /\ event = "chat_end" /\ routed = NoAgent
      /\ UNCHANGED <<trackerVars, row, topicVars, twice, overtaken, renewed>>
  BY DEF Find, IInv, TypeOK, Control, In
<1>2. T!TypeOK' /\ UNCHANGED <<online, record, reading>>
  BY <1>1, Facts, TrackerStays
<1>3. T!WorkerFree(Conversation)'
  BY <1>1, <1>2, Facts DEF T!WorkerFree
<1>4. overtaken' \in BOOLEAN /\ renewed' \in BOOLEAN /\ row' \in Row
  BY <1>1, Facts, FlagFacts, Zenon
<1>5. CASE Raise /\ UNCHANGED routerVars
  BY <1>1, <1>5, RaiseOnly
<1>6. CASE /\ assigned[Conversation] = NoAgent /\ UNCHANGED routerVars /\ Continue("read")
           /\ UNCHANGED <<wanted, torn>>
  <2>1. R!TypeOK' /\ UNCHANGED <<chatsOf, assigned, worker, held>>
    BY <1>6, Facts, RouterStays
  <2>2. stage' = "read" /\ UNCHANGED <<event, routed, wanted, torn>>
    BY <1>6 DEF Continue
  <2>3. worker'[Conversation] = "free"
    BY <1>1, <2>1, Facts
  <2>4. TypeOK'
    BY <1>1, <1>2, <1>3, <1>4, <1>6, <2>1, <2>3, Facts, ContinueType
  <2>5. Control' /\ Assignment' /\ Listing' /\ RecordAgent' /\ RecordNames' /\ RowAgent'
    BY <1>1, <1>2, <1>6, <2>1, <2>2, <2>3 DEF IInv, Control, Assignment, Listing,
       RecordAgent, RecordAgrees, RecordNames, RowAgent, In
  <2>6. RowStatus'
    BY <1>1, <2>2, TopicStays DEF IInv, RowStatus, Activating, In
  <2>7. SlotIsReleasable'
    BY <1>1, <2>1, Facts, SlotStays
  <2> QED BY <2>4, <2>5, <2>6, <2>7 DEF IInv
<1>7. CASE /\ R!FindAgent(Conversation) /\ Continue("release") /\ UNCHANGED <<wanted, torn>>
  <2>1. /\ R!TypeOK' /\ UNCHANGED <<chatsOf, assigned>>
        /\ worker'[Conversation] = "releasing"
        /\ held'[Conversation] = assigned[Conversation]
        /\ assigned[Conversation] # NoAgent
    BY <1>7, Facts, FindAgentFacts
  <2>2. stage' = "release" /\ UNCHANGED <<event, routed, wanted, torn>>
    BY <1>7 DEF Continue
  <2>3. TypeOK'
    BY <1>1, <1>2, <1>3, <1>4, <1>7, <2>1, Facts, ContinueType
  <2>4. Control' /\ Assignment' /\ Listing' /\ RecordAgent' /\ RecordNames' /\ RowAgent'
    BY <1>1, <1>2, <2>1, <2>2 DEF IInv, Control, Releasing, Assignment, Listing,
       RecordAgent, RecordAgrees, RecordNames, RowAgent, In
  <2>5. RowStatus'
    BY <1>1, <2>2, TopicStays DEF IInv, RowStatus, Activating, In
  <2>6. SlotIsReleasable'
    BY <1>1, <2>1, Facts, SlotStays
  <2> QED BY <2>3, <2>4, <2>5, <2>6 DEF IInv
<1> QED BY <1>5, <1>6, <1>7 DEF Find

LEMMA ReleaseInv == ASSUME IInv, Release PROVE IInv'
<1>1. /\ stage = "release" /\ event = "chat_end" /\ routed = NoAgent
      /\ Releasing \/ Retrying
      /\ UNCHANGED <<trackerVars, row, topicVars, twice, overtaken, renewed>>
  BY DEF Release, IInv, TypeOK, Control, In
<1>2. T!TypeOK' /\ UNCHANGED <<online, record, reading>>
  BY <1>1, Facts, TrackerStays
<1>3. T!WorkerFree(Conversation)' /\ (Conversation \in online => record[Conversation] # Nothing)'
  BY <1>1, <1>2, Facts DEF T!WorkerFree
<1>4. twice' \in BOOLEAN /\ overtaken' \in BOOLEAN /\ renewed' \in BOOLEAN
  BY <1>1, FlagFacts, Zenon
<1>5. row' \in Row /\ TopicOK'
  BY <1>1, Facts, TopicStays
<1>6. held[Conversation] \in Agents
  BY <1>1, Facts DEF Releasing, Retrying, R!TypeOK
<1>7. ASSUME \A a \in Agents : Chats(a)' => Chats(a) /\ a # held[Conversation]
      PROVE  SlotIsReleasable'
  <2> SUFFICES ASSUME ~ twice', NEW a \in Agents, Chats(a)' PROVE FALSE
    BY DEF SlotIsReleasable
  <2>1. assigned[Conversation] = a /\ a # held[Conversation]
    BY <1>1, <1>7, Facts DEF SlotIsReleasable
  <2> QED BY <1>1, <2>1, Assumptions DEF Releasing, Retrying
<1>8. CASE /\ R!Release(Conversation) \/ R!ReleaseAgain(Conversation)
           /\ \/ Continue("read") /\ UNCHANGED <<wanted, torn>>
              \/ Raise
  <2>1. /\ R!TypeOK' /\ SlotIsReleasable'
        /\ worker'[Conversation] = "free" /\ assigned'[Conversation] = NoAgent
    BY <1>6, <1>7, <1>8, Facts, ReleaseFacts
  <2>2. CASE Raise
    BY <1>2, <1>3, <1>4, <1>5, <2>1, <2>2, RaiseInv
  <2>3. CASE Continue("read") /\ UNCHANGED <<wanted, torn>>
    <3>1. stage' = "read" /\ UNCHANGED <<event, routed, wanted, torn>>
      BY <2>3 DEF Continue
    <3>2. TypeOK'
      BY <1>1, <1>2, <1>3, <1>4, <1>5, <2>1, <2>3, ContinueType
    <3>3. Control' /\ Assignment' /\ Listing' /\ RecordAgent' /\ RecordNames' /\ RowAgent'
      BY <1>1, <1>2, <2>1, <3>1 DEF IInv, Control, Assignment, Listing,
         RecordAgent, RecordAgrees, RecordNames, RowAgent, In
    <3>4. RowStatus'
      BY <1>1, <3>1, TopicStays DEF IInv, RowStatus, Activating, In
    <3> QED BY <2>1, <3>2, <3>3, <3>4 DEF IInv
  <2> QED BY <1>8, <2>2, <2>3
<1>9. CASE /\ R!ReleaseTimesOut(Conversation) /\ Continue("release")
           /\ UNCHANGED <<wanted, torn>>
  <2>1. /\ R!TypeOK' /\ SlotIsReleasable' /\ held' = held
        /\ worker'[Conversation] = "retrying" /\ assigned'[Conversation] = NoAgent
    BY <1>6, <1>7, <1>9, Facts, ReleaseTimesOutFacts
  <2>2. stage' = "release" /\ UNCHANGED <<event, routed, wanted, torn>>
    BY <1>9 DEF Continue
  <2>3. TypeOK'
    BY <1>1, <1>2, <1>3, <1>4, <1>5, <1>9, <2>1, ContinueType
  <2>4. Control' /\ Assignment' /\ Listing' /\ RecordAgent' /\ RecordNames' /\ RowAgent'
    BY <1>1, <1>2, <1>6, <2>1, <2>2 DEF IInv, Control, Retrying, Assignment, Listing,
       RecordAgent, RecordAgrees, RecordNames, RowAgent, In
  <2>5. RowStatus'
    BY <1>1, <2>2, TopicStays DEF IInv, RowStatus, Activating, In
  <2> QED BY <2>1, <2>3, <2>4, <2>5 DEF IInv
<1>10. CASE Raise /\ R!ReleaseFails(Conversation)
  <2>1. R!TypeOK' /\ UNCHANGED <<chatsOf, assigned>> /\ worker'[Conversation] = "free"
    BY <1>10, Facts, ReleaseFailsFacts
  <2>2. SlotIsReleasable'
    BY <1>1, <2>1, Facts, SlotStays
  <2> QED BY <1>2, <1>3, <1>4, <1>5, <1>10, <2>1, <2>2, RaiseInv
<1> QED BY <1>8, <1>9, <1>10 DEF Release

LEMMA ReadRecordInv == ASSUME IInv, ReadRecord PROVE IInv'
<1>1. /\ stage = "read" /\ event = "chat_end" /\ routed = NoAgent
      /\ UNCHANGED <<routerVars, row, topicVars, twice, overtaken, renewed>>
  BY DEF ReadRecord, IInv, TypeOK, Control, In
<1>2. R!TypeOK' /\ UNCHANGED <<chatsOf, assigned, worker, held>>
  BY <1>1, Facts, RouterStays
<1>3. worker'[Conversation] = "free"
  BY <1>1, <1>2, Facts
<1>4. SlotIsReleasable'
  BY <1>1, <1>2, Facts, SlotStays
<1>5. overtaken' \in BOOLEAN /\ renewed' \in BOOLEAN
  BY <1>1, FlagFacts, Zenon
<1>6. CASE Raise /\ UNCHANGED trackerVars
  BY <1>1, <1>6, RaiseOnly
<1>7. CASE /\ record[Conversation] = Nothing /\ UNCHANGED trackerVars
           /\ Continue("publish") /\ UNCHANGED <<wanted, torn>>
  <2>1. T!TypeOK' /\ UNCHANGED <<online, record, reading>>
    BY <1>7, Facts, TrackerStays
  <2>2. T!WorkerFree(Conversation)'
    BY <1>1, <2>1, Facts DEF T!WorkerFree
  <2>3. stage' = "publish" /\ UNCHANGED <<event, routed, wanted, torn>>
    BY <1>7 DEF Continue
  <2>4. TypeOK'
    BY <1>1, <1>2, <1>3, <1>5, <1>7, <2>1, <2>2, Facts, ContinueType
  <2>5. Control' /\ Assignment' /\ Listing' /\ RecordAgent' /\ RecordNames' /\ RowAgent'
    BY <1>1, <1>2, <1>3, <1>7, <2>1, <2>3 DEF IInv, Control, Assignment, Listing,
       RecordAgent, RecordAgrees, RecordNames, RowAgent, In
  <2>6. RowStatus'
    BY <1>1, <2>3, TopicStays DEF IInv, RowStatus, Activating, In
  <2> QED BY <1>4, <2>4, <2>5, <2>6 DEF IInv
<1>8. CASE /\ T!ReadRecord(Conversation, Worker) /\ Continue("offline")
           /\ UNCHANGED <<wanted, torn>>
  <2>1. /\ T!TypeOK' /\ reading'[Conversation][Worker] # Nothing
        /\ UNCHANGED <<online, record>>
    <3>1. Worker \in T!Callers
      BY DEF T!Callers
    <3> QED BY <1>8, <3>1, Facts, OfflineFacts
  <2>2. ~ T!WorkerFree(Conversation)'
    BY <2>1 DEF T!WorkerFree
  <2>3. stage' = "offline" /\ UNCHANGED <<event, routed, wanted, torn>>
    BY <1>8 DEF Continue
  <2>4. TypeOK'
    BY <1>1, <1>2, <1>3, <1>5, <1>8, <2>1, <2>2, Facts, ContinueType
  <2>5. Control' /\ Assignment' /\ Listing' /\ RecordAgent' /\ RecordNames' /\ RowAgent'
    BY <1>1, <1>2, <1>3, <2>1, <2>3 DEF IInv, Control, Assignment, Listing,
       RecordAgent, RecordAgrees, RecordNames, RowAgent, In
  <2>6. RowStatus'
    BY <1>1, <2>3, TopicStays DEF IInv, RowStatus, Activating, In
  <2> QED BY <1>4, <2>4, <2>5, <2>6 DEF IInv
<1> QED BY <1>6, <1>7, <1>8 DEF ReadRecord

LEMMA OfflineInv == ASSUME IInv, Offline PROVE IInv'
<1>1. /\ stage = "offline" /\ event = "chat_end" /\ routed = NoAgent
      /\ UNCHANGED <<routerVars, row, topicVars, twice, overtaken, renewed>>
  BY DEF Offline, IInv, TypeOK, Control, In
<1>2. R!TypeOK' /\ UNCHANGED <<chatsOf, assigned, worker, held>>
  BY <1>1, Facts, RouterStays
<1>3. worker'[Conversation] = "free"
  BY <1>1, <1>2, Facts
<1>4. SlotIsReleasable'
  BY <1>1, <1>2, Facts, SlotStays
<1>5. twice' \in BOOLEAN /\ overtaken' \in BOOLEAN /\ renewed' \in BOOLEAN
  BY <1>1, FlagFacts, Zenon
<1>6. row' \in Row /\ TopicOK'
  BY <1>1, Facts, TopicStays
<1>7. Worker \in T!Callers
  BY DEF T!Callers
<1>8. ASSUME Raise,
             T!ChatOfflineFails(Conversation, Worker) \/ T!ChatOffline(Conversation, Worker)
      PROVE  IInv'
  <2>1. /\ T!TypeOK' /\ T!WorkerFree(Conversation)'
        /\ UNCHANGED <<online, record>> \/ Conversation \notin online'
    BY <1>7, <1>8, Facts, OfflineFacts DEF T!WorkerFree
  <2>2. (Conversation \in online => record[Conversation] # Nothing)'
    BY <2>1, Facts
  <2> QED BY <1>2, <1>3, <1>4, <1>5, <1>6, <1>8, <2>1, <2>2, RaiseInv
<1>9. CASE T!ChatOffline(Conversation, Worker) /\ Continue("publish") /\ UNCHANGED <<wanted, torn>>
  <2>1. /\ T!TypeOK' /\ T!WorkerFree(Conversation)'
        /\ Conversation \notin online' /\ record'[Conversation] = Nothing
    BY <1>7, <1>9, Facts, OfflineFacts DEF T!WorkerFree
  <2>2. stage' = "publish" /\ UNCHANGED <<event, routed, wanted, torn>>
    BY <1>9 DEF Continue
  <2>3. TypeOK'
    BY <1>1, <1>2, <1>3, <1>5, <1>6, <1>9, <2>1, ContinueType
  <2>4. Control' /\ Assignment' /\ Listing' /\ RecordAgent' /\ RecordNames' /\ RowAgent'
    BY <1>1, <1>2, <1>3, <2>1, <2>2 DEF IInv, Control, Assignment, Listing,
       RecordAgent, RecordAgrees, RecordNames, RowAgent, In
  <2>5. RowStatus'
    BY <1>1, <2>2, TopicStays DEF IInv, RowStatus, Activating, In
  <2> QED BY <1>4, <2>3, <2>4, <2>5 DEF IInv
<1>10. CASE /\ T!ChatOfflineTimesOut(Conversation, Worker) /\ Continue("offline")
            /\ UNCHANGED <<wanted, torn>>
  <2>1. /\ T!TypeOK' /\ ~ T!WorkerFree(Conversation)'
        /\ Conversation \notin online' /\ record'[Conversation] = Nothing
    BY <1>7, <1>10, Facts, OfflineFacts DEF T!WorkerFree
  <2>2. stage' = "offline" /\ UNCHANGED <<event, routed, wanted, torn>>
    BY <1>10 DEF Continue
  <2>3. TypeOK'
    BY <1>1, <1>2, <1>3, <1>5, <1>6, <1>10, <2>1, ContinueType
  <2>4. Control' /\ Assignment' /\ Listing' /\ RecordAgent' /\ RecordNames' /\ RowAgent'
    BY <1>1, <1>2, <1>3, <2>1, <2>2 DEF IInv, Control, Assignment, Listing,
       RecordAgent, RecordAgrees, RecordNames, RowAgent, In
  <2>5. RowStatus'
    BY <1>1, <2>2, TopicStays DEF IInv, RowStatus, Activating, In
  <2> QED BY <1>4, <2>3, <2>4, <2>5 DEF IInv
<1> QED BY <1>8, <1>9, <1>10 DEF Offline

LEMMA PublishEndInv == ASSUME IInv, PublishEnd PROVE IInv'
<1>1. /\ stage = "publish" /\ event = "chat_end"
      /\ UNCHANGED <<routerVars, trackerVars, row, twice, overtaken, renewed>>
  BY DEF PublishEnd
<1>2. R!TypeOK' /\ UNCHANGED <<chatsOf, assigned, worker, held>>
  BY <1>1, Facts, RouterStays
<1>3. T!TypeOK' /\ UNCHANGED <<online, record, reading>>
  BY <1>1, Facts, TrackerStays
<1>4. worker'[Conversation] = "free" /\ T!WorkerFree(Conversation)'
      /\ (Conversation \in online => record[Conversation] # Nothing)'
  BY <1>1, <1>2, <1>3, Facts DEF T!WorkerFree
<1>5. SlotIsReleasable'
  BY <1>1, <1>2, Facts, SlotStays
<1>6. row' \in Row
  BY <1>1, Facts
<1>7. twice' \in BOOLEAN /\ overtaken' \in BOOLEAN /\ renewed' \in BOOLEAN
  BY <1>1, FlagFacts, Zenon
<1>8. CASE Raise /\ UNCHANGED topicVars
  BY <1>1, <1>8, RaiseOnly
<1>9. ASSUME Publish("chat_end") PROVE TopicOK' /\ Outstanding'
  BY <1>9, Facts, PublishFacts DEF Kinds
<1>10. CASE Raise /\ Publish("chat_end")
  BY <1>2, <1>3, <1>4, <1>5, <1>6, <1>7, <1>9, <1>10, RaiseInv
<1>11. CASE Publish("chat_end") /\ Return("ended") /\ torn' = FALSE
  <2>1. event' = "none" /\ stage' = "none" /\ wanted' = "ended"
    BY <1>11 DEF Return
  <2>2. torn' \in BOOLEAN
    BY <1>11, Zenon
  <2>3. TypeOK'
    BY <1>1, <1>2, <1>3, <1>4, <1>7, <1>9, <1>11, <2>2, ReturnType
  <2>4. Control' /\ Assignment' /\ Listing'
    BY <1>1, <1>2, <1>3, <1>4, <2>1 DEF IInv, Control, Assignment, Listing, In
  <2>5. RecordAgent' /\ RecordNames' /\ RowAgent'
    BY <1>1, <1>2, <1>3, <2>1 DEF IInv, Assignment, RecordAgent, RecordAgrees, RecordNames, RowAgent, In
  <2>6. ~ Activating'
    BY <2>1 DEF Activating, In
  <2>7. RowStatus'
    BY <1>9, <1>11, <2>1, <2>6 DEF RowStatus
  <2> QED BY <1>5, <2>3, <2>4, <2>5, <2>7 DEF IInv
<1> QED BY <1>8, <1>10, <1>11 DEF PublishEnd

-----------------------------------------------------------------------------
(* Beside the worker *)

\* A step of the persistence worker
LEMMA ElsewhereInv ==
  ASSUME IInv, Elsewhere, row' \in Row, row'.agent = row.agent, TopicOK',
         failures' \in 0 .. MaxFailures, (Activating' <=> Activating) => RowStatus'
  PROVE  IInv'
<1>1. UNCHANGED <<routerVars, trackerVars, event, stage, routed, handled, wanted, torn, twice,
                  overtaken, renewed>>
  BY DEF Elsewhere
<1>2. R!TypeOK' /\ UNCHANGED <<chatsOf, assigned, worker, held>>
  BY <1>1, Facts, RouterStays
<1>3. T!TypeOK' /\ UNCHANGED <<online, record, reading>>
  BY <1>1, Facts, TrackerStays
<1>4. torn' \in BOOLEAN /\ twice' \in BOOLEAN /\ overtaken' \in BOOLEAN /\ renewed' \in BOOLEAN
  BY <1>1, FlagFacts, Zenon
<1>5. TypeOK'
  BY <1>1, <1>2, <1>3, <1>4, BesideType DEF T!WorkerFree
<1>6. Control' /\ Assignment' /\ Listing' /\ RecordAgent' /\ RecordNames' /\ RowAgent'
  BY <1>1, <1>2, <1>3 DEF IInv, Control, Releasing, Retrying, Assignment, Listing,
     RecordAgent, RecordAgrees, RecordNames, RowAgent, In
<1>7. RowStatus'
  BY <1>1 DEF Activating, In
<1>8. SlotIsReleasable'
  BY <1>1, <1>2, Facts, SlotStays
<1> QED BY <1>5, <1>6, <1>7, <1>8 DEF IInv

\* It writes the record it is at, and goes on or not.  A chat_end is written over a row made
\* active only where one was pending.
LEMMA PersistInv == ASSUME IInv, Persist PROVE IInv'
<1>1. /\ Elsewhere /\ UNCHANGED <<log, committed, lost>> /\ UNCHANGED <<wanted, torn, overtaken>>
      /\ position <= Len(log) /\ position' \in {position, position + 1}
      /\ row' = IF log[position] = "chat_end" THEN [row EXCEPT !.status = "ended"] ELSE row
  BY DEF Persist, Elsewhere
<1>2. TopicOK /\ TopicOK'
  BY <1>1, Facts DEF TopicOK
<1>3. position \in committed .. Len(log) /\ position \in 1 .. Len(log)
  BY <1>1, <1>2 DEF TopicOK
<1>4. row' \in Row /\ row'.agent = row.agent
  BY <1>1, Facts DEF Row
<1>5. failures' \in 0 .. MaxFailures
  BY Bounds DEF Persist, IInv, TypeOK
<1>6. (EndPending' <=> EndPending) /\ (NoEnd' <=> NoEnd)
  BY <1>1 DEF EndPending, NoEnd
<1>7. CASE log[position] = "chat_end"
  <2>1. EndPending /\ ~ NoEnd /\ row'.status = "ended"
    BY <1>1, <1>3, <1>7, Facts DEF EndPending, NoEnd, Row
  <2>2. (Activating' <=> Activating) => RowStatus'
    BY <1>1, <1>6, <2>1 DEF IInv, RowStatus
  <2> QED BY <1>1, <1>2, <1>4, <1>5, <2>2, ElsewhereInv
<1>8. CASE log[position] # "chat_end"
  <2>1. Outstanding => Outstanding'
    BY <1>1, <1>2, <1>8 DEF Outstanding, Newest, TopicOK
  <2>2. row' = row
    BY <1>1, <1>8
  <2>3. (Activating' <=> Activating) => RowStatus'
    BY <1>1, <1>6, <2>1, <2>2 DEF IInv, RowStatus
  <2> QED BY <1>1, <1>2, <1>4, <1>5, <2>3, ElsewhereInv
<1> QED BY <1>7, <1>8

\* A record given up is outstanding for good.
LEMMA GiveUpInv == ASSUME IInv, GiveUp PROVE IInv'
<1>1. /\ Elsewhere /\ UNCHANGED <<row, log, committed>> /\ UNCHANGED <<wanted, torn, overtaken>>
      /\ position <= Len(log) /\ position' = position + 1 /\ lost' = lost \cup {position}
  BY DEF GiveUp, Elsewhere
<1>2. TopicOK /\ TopicOK'
  BY <1>1, Facts DEF TopicOK
<1>3. failures' \in 0 .. MaxFailures
  BY Bounds DEF GiveUp, IInv, TypeOK
<1>4. EndsStay
  BY <1>1, <1>2 DEF EndsStay, EndPending, NoEnd, Outstanding, Newest, TopicOK
<1>5. (Activating' <=> Activating) => RowStatus'
  BY <1>1, <1>4 DEF IInv, RowStatus, EndsStay
<1> QED BY <1>1, <1>2, <1>3, <1>5, Facts, ElsewhereInv

\* A commit leaves fewer records pending.
LEMMA AutoCommitInv == ASSUME IInv, AutoCommit PROVE IInv'
<1>1. /\ Elsewhere /\ UNCHANGED <<row, log, position, lost>>
      /\ UNCHANGED <<wanted, torn, overtaken>> /\ committed' = position
  BY DEF AutoCommit, Elsewhere
<1>2. TopicOK /\ TopicOK'
  BY <1>1, Facts DEF TopicOK
<1>3. failures' \in 0 .. MaxFailures
  BY DEF AutoCommit, IInv, TypeOK
<1>4. EndsStay
  BY <1>1, <1>2 DEF EndsStay, EndPending, NoEnd, Outstanding, Newest, TopicOK
<1>5. (Activating' <=> Activating) => RowStatus'
  BY <1>1, <1>4 DEF IInv, RowStatus, EndsStay
<1> QED BY <1>1, <1>2, <1>3, <1>5, Facts, ElsewhereInv

\* A restart makes records outstanding once more.
LEMMA RestartInv == ASSUME IInv, Restart PROVE IInv'
<1>1. /\ Elsewhere /\ UNCHANGED <<row, log, committed, lost>>
      /\ UNCHANGED <<wanted, torn, overtaken>> /\ position' = committed
  BY DEF Restart, Elsewhere
<1>2. TopicOK /\ TopicOK'
  BY <1>1, Facts DEF TopicOK
<1>3. failures' \in 0 .. MaxFailures
  BY Bounds DEF Restart, IInv, TypeOK
<1>4. EndsStay
  BY <1>1, <1>2 DEF EndsStay, EndPending, NoEnd, Outstanding, Newest, TopicOK
<1>5. (Activating' <=> Activating) => RowStatus'
  BY <1>1, <1>4 DEF IInv, RowStatus, EndsStay
<1> QED BY <1>1, <1>2, <1>3, <1>5, Facts, ElsewhereInv

\* A gateway that takes the chat offline leaves no record, and so no disagreement.
LEMMA DisconnectInv == ASSUME IInv, NEW k \in Disconnects, Disconnect(k) PROVE IInv'
<1>1. UNCHANGED <<routerVars, event, stage, routed, row, topicVars, handled, failures, wanted,
                  torn, twice, overtaken>>
  BY DEF Disconnect
<1>2. R!TypeOK' /\ UNCHANGED <<chatsOf, assigned, worker, held>>
  BY <1>1, Facts, RouterStays
<1>3. k \in T!Callers /\ Worker \in T!Callers \ {k}
  BY Assumptions DEF T!Callers
<1>4. /\ T!TypeOK' /\ reading'[Conversation][Worker] = reading[Conversation][Worker]
      /\ \/ UNCHANGED <<online, record, renewed>>
         \/ Conversation \notin online' /\ record'[Conversation] = Nothing /\ renewed' = TRUE
  <2>1. CASE (T!ReadRecord(Conversation, k) \/ T!ChatOfflineFails(Conversation, k)) /\ UNCHANGED renewed
    BY <1>3, <2>1, Facts, OfflineFacts
  <2>2. CASE (T!ChatOffline(Conversation, k) \/ T!ChatOfflineTimesOut(Conversation, k)) /\ renewed' = TRUE
    BY <1>3, <2>2, Facts, OfflineFacts
  <2> QED BY <2>1, <2>2 DEF Disconnect
<1>5. torn' \in BOOLEAN /\ twice' \in BOOLEAN /\ overtaken' \in BOOLEAN /\ renewed' \in BOOLEAN
  BY <1>1, <1>4, FlagFacts, Zenon
<1>6. failures' \in 0 .. MaxFailures
  BY <1>1 DEF IInv, TypeOK
<1>7. TypeOK'
  BY <1>1, <1>2, <1>4, <1>5, <1>6, Facts, TopicStays, BesideType DEF T!WorkerFree
<1>8. Control' /\ Assignment' /\ Listing' /\ RowAgent'
  BY <1>1, <1>2, <1>4 DEF IInv, Control, Releasing, Retrying, Assignment, Listing, RowAgent, In
<1>9. RecordAgent' /\ RecordNames'
  BY <1>1, <1>2, <1>4 DEF IInv, RecordAgent, RecordAgrees, RecordNames, In
<1>10. RowStatus'
  BY <1>1, TopicStays DEF IInv, RowStatus, Activating, In
<1>11. SlotIsReleasable'
  BY <1>1, <1>2, Facts, SlotStays
<1> QED BY <1>7, <1>8, <1>9, <1>10, <1>11 DEF IInv

\* A late write of the time makes a record without an agent, or changes none.
LEMMA LateTouchInv == ASSUME IInv, LateTouch PROVE IInv'
<1>1. /\ UNCHANGED <<routerVars, event, stage, routed, row, topicVars, handled, failures>>
      /\ UNCHANGED <<wanted, torn, twice, overtaken, renewed>>
      /\ T!LateTouch(Conversation)
  BY DEF LateTouch, history
<1>2. R!TypeOK' /\ UNCHANGED <<chatsOf, assigned, worker, held>>
  BY <1>1, Facts, RouterStays
<1>3. /\ T!TypeOK' /\ UNCHANGED <<online, reading>>
      /\ record'[Conversation] # Nothing
      /\ \/ record'[Conversation].agent = NoAgent /\ record[Conversation] = Nothing
         \/ record[Conversation] # Nothing /\ record' = record
  BY <1>1, Facts, WriteRecordFacts
<1>4. torn' \in BOOLEAN /\ twice' \in BOOLEAN /\ overtaken' \in BOOLEAN /\ renewed' \in BOOLEAN
  BY <1>1, FlagFacts, Zenon
<1>5. failures' \in 0 .. MaxFailures
  BY <1>1 DEF IInv, TypeOK
<1>6. TypeOK'
  BY <1>1, <1>2, <1>3, <1>4, <1>5, Facts, TopicStays, BesideType DEF T!WorkerFree
<1>7. Control' /\ Assignment' /\ Listing' /\ RowAgent'
  BY <1>1, <1>2, <1>3 DEF IInv, Control, Releasing, Retrying, Assignment, Listing, RowAgent, In
<1>8. RecordAgent' /\ RecordNames'
  BY <1>1, <1>2, <1>3 DEF IInv, RecordAgent, RecordAgrees, RecordNames, In
<1>9. RowStatus'
  BY <1>1, TopicStays DEF IInv, RowStatus, Activating, In
<1>10. SlotIsReleasable'
  BY <1>1, <1>2, Facts, SlotStays
<1> QED BY <1>6, <1>7, <1>8, <1>9, <1>10 DEF IInv

LEMMA AgentStepInv == ASSUME IInv, NEW a \in Agents, AgentStep(a) PROVE IInv'
<1>1. /\ UNCHANGED <<trackerVars, event, stage, routed, row, topicVars, handled, failures>>
      /\ UNCHANGED <<wanted, torn, twice, overtaken, renewed>>
  BY DEF AgentStep, history
<1>2. R!TypeOK' /\ UNCHANGED <<chatsOf, assigned, worker, held>>
  BY Facts, AgentFacts DEF AgentStep
<1>3. T!TypeOK' /\ UNCHANGED <<online, record, reading>>
  BY <1>1, Facts, TrackerStays
<1>4. torn' \in BOOLEAN /\ twice' \in BOOLEAN /\ overtaken' \in BOOLEAN /\ renewed' \in BOOLEAN
  BY <1>1, FlagFacts, Zenon
<1>5. failures' \in 0 .. MaxFailures
  BY <1>1 DEF IInv, TypeOK
<1>6. TypeOK'
  BY <1>1, <1>2, <1>3, <1>4, <1>5, Facts, TopicStays, BesideType DEF T!WorkerFree
<1>7. Control' /\ Assignment' /\ Listing' /\ RecordAgent' /\ RecordNames' /\ RowAgent'
  BY <1>1, <1>2, <1>3 DEF IInv, Control, Releasing, Retrying, Assignment, Listing,
     RecordAgent, RecordAgrees, RecordNames, RowAgent, In
<1>8. RowStatus'
  BY <1>1, TopicStays DEF IInv, RowStatus, Activating, In
<1>9. SlotIsReleasable'
  BY <1>1, <1>2, Facts, SlotStays
<1> QED BY <1>6, <1>7, <1>8, <1>9 DEF IInv

-----------------------------------------------------------------------------
(* The theorems *)

LEMMA StutterInv == ASSUME IInv, UNCHANGED vars PROVE IInv'
<1>1. /\ UNCHANGED <<routerVars, trackerVars, event, stage, routed, row, topicVars, handled,
                     failures, wanted, torn, twice, overtaken, renewed>>
  BY DEF vars, history
<1>2. R!TypeOK' /\ UNCHANGED <<chatsOf, assigned, worker, held>>
  BY <1>1, Facts, RouterStays
<1>3. T!TypeOK' /\ UNCHANGED <<online, record, reading>>
  BY <1>1, Facts, TrackerStays
<1>4. torn' \in BOOLEAN /\ twice' \in BOOLEAN /\ overtaken' \in BOOLEAN /\ renewed' \in BOOLEAN
  BY <1>1, FlagFacts, Zenon
<1>5. failures' \in 0 .. MaxFailures
  BY <1>1 DEF IInv, TypeOK
<1>6. TypeOK'
  BY <1>1, <1>2, <1>3, <1>4, <1>5, Facts, TopicStays, BesideType DEF T!WorkerFree
<1>7. Control' /\ Assignment' /\ Listing' /\ RecordAgent' /\ RecordNames' /\ RowAgent'
  BY <1>1, <1>2, <1>3 DEF IInv, Control, Releasing, Retrying, Assignment, Listing,
     RecordAgent, RecordAgrees, RecordNames, RowAgent, In
<1>8. RowStatus'
  BY <1>1, TopicStays DEF IInv, RowStatus, Activating, In
<1>9. SlotIsReleasable'
  BY <1>1, <1>2, Facts, SlotStays
<1> QED BY <1>6, <1>7, <1>8, <1>9 DEF IInv

LEMMA NextInv == ASSUME IInv, [Next]_vars PROVE IInv'
<1>1. CASE UNCHANGED vars
  BY <1>1, StutterInv
<1>2. CASE \E e \in Events : Begin(e)
  BY <1>2, BeginInv
<1>3. CASE InsertRow \/ PublishStart \/ \E u \in Users : Online(u)
  BY <1>3, InsertRowInv, OnlineInv, PublishStartInv
<1>4. CASE \E a \in Agents : RouteTo(a)
  BY <1>4, RouteToInv
<1>5. CASE RouteNobody \/ UpdateRow \/ Assign \/ PublishAssignment
  BY <1>5, RouteNobodyInv, UpdateRowInv, AssignInv, PublishAssignmentInv
<1>6. CASE Touch \/ PublishMessage
  BY <1>6, TouchInv, PublishMessageInv
<1>7. CASE Find \/ Release \/ ReadRecord \/ Offline \/ PublishEnd
  BY <1>7, FindInv, ReleaseInv, ReadRecordInv, OfflineInv, PublishEndInv
<1>8. CASE Persist \/ GiveUp \/ AutoCommit \/ Restart
  BY <1>8, PersistInv, GiveUpInv, AutoCommitInv, RestartInv
<1>9. CASE LateTouch \/ \E k \in Disconnects : Disconnect(k)
  BY <1>9, LateTouchInv, DisconnectInv
<1>10. CASE \E a \in Agents : AgentStep(a)
  BY <1>10, AgentStepInv
<1> QED BY <1>1, <1>2, <1>3, <1>4, <1>5, <1>6, <1>7, <1>8, <1>9, <1>10 DEF Next

LEMMA Invariance == Spec => []IInv
<1>1. IInv /\ [Next]_vars => IInv'
  BY NextInv
<1> QED BY InitInv, <1>1, PTL DEF Spec

\* The state of the worker, the stores and the topic has the shape the handlers give it:
\* among others, a slot is being released or a record being removed only at the steps of
\* chat_end that do so, and an agent is in hand only while transfer_to_agent announces it.
THEOREM TypeCorrect == Spec => []TypeOK
<1>1. IInv => TypeOK
  BY DEF IInv
<1> QED BY Invariance, <1>1, PTL

\* release_agent_slot frees the slot of the agent in chat:active.  No slot is out of its
\* reach: whichever steps of transfer_to_agent and chat_end raise, with or without effect,
\* the one agent that has the conversation among their chats is the one it will find,
\* unless a transfer was made while another agent had the conversation.
THEOREM SlotIsReleasableHolds == Spec => []SlotIsReleasable
<1>1. IInv => SlotIsReleasable
  BY DEF IInv
<1> QED BY Invariance, <1>1, PTL

\* A chat_end that returned has released the agent and taken the chat off the dashboard,
\* and messages, offline calls of gateways and late writes after it bring neither back.
THEOREM EndedIsGoneHolds == Spec => []EndedIsGone
<1>1. ASSUME IInv PROVE EndedIsGone
  <2> SUFFICES ASSUME event = "none", wanted = "ended", ~ torn
               PROVE  /\ assigned[Conversation] = NoAgent /\ Conversation \notin online
                      /\ twice \/ \A a \in Agents : ~ Chats(a)
    BY DEF EndedIsGone
  <2>1. assigned[Conversation] = NoAgent /\ Conversation \notin online
    BY <1>1 DEF IInv, Assignment, Listing, In
  <2>2. ASSUME ~ twice, NEW a \in Agents PROVE ~ Chats(a)
    BY <1>1, <2>1, <2>2, Assumptions DEF IInv, SlotIsReleasable
  <2> QED BY <2>1, <2>2
<1>2. IInv => EndedIsGone
  BY <1>1
<1> QED BY Invariance, <1>2, PTL

\* While an agent is assigned, the row names that agent between events, and the dashboard's
\* record does too, unless the chat was started again or taken offline by a gateway since: then
\* it may be gone or name nobody, and never names another agent.  transfer_to_agent and chat_end
\* change the three one after another, gateways and late writes change one of them at any time,
\* and when a step raised half way the next transfer or end that returns mends it.  (After a
\* chat_end no agent is assigned, the record names none, and the row its last one.)
THEOREM AgentsAgreeHolds == Spec => []AgentsAgree
<1>1. ASSUME IInv PROVE AgentsAgree
  <2> SUFFICES ASSUME event = "none", ~ torn
               PROVE  LET a == assigned[Conversation]
                          r == record[Conversation]
                      IN  /\ a # NoAgent => row.agent = a
                          /\ a # NoAgent /\ ~ renewed => r # Nothing /\ r.agent = a
                          /\ r # Nothing => r.agent \in {a, NoAgent}
    BY DEF AgentsAgree
  <2> QED BY <1>1 DEF IInv, RecordAgent, RecordAgrees, RecordNames, RowAgent, In
<1>2. IInv => AgentsAgree
  BY <1>1
<1> QED BY Invariance, <1>2, PTL

\* chat_start and transfer_to_agent write the row's status themselves, chat_end leaves that to
\* the persistence worker, which may be behind, repeat a record, give one up, or be restarted
\* and write records again.  For all that the row has the status the last event left behind:
\* but after a chat_end whose record is still to be written, or to be written again, or was
\* given up; and after a chat_start or transfer_to_agent that wrote the row while an earlier
\* chat_end was not yet committed, and so could be written after it.
THEOREM StatusFollowsHolds == Spec => []StatusFollows
<1>1. IInv => StatusFollows
  BY DEF IInv, TypeOK, StatusFollows, RowStatus, Outstanding, Activating, In
<1> QED BY Invariance, <1>1, PTL

-----------------------------------------------------------------------------
(* The stores as their own modules describe them *)

\* Every step is one of the router's, or leaves it alone.
LEMMA RouterStep == ASSUME IInv, [Next]_vars PROVE [R!Next]_(R!vars)
<1> USE DEF routerVars, R!vars
<1>1. CASE UNCHANGED vars
  BY <1>1 DEF vars
<1>2. CASE \/ \E e \in Events : Begin(e)
           \/ InsertRow \/ PublishStart \/ \E u \in Users : Online(u)
           \/ UpdateRow \/ Assign \/ PublishAssignment \/ Touch \/ PublishMessage
           \/ ReadRecord \/ Offline \/ PublishEnd \/ LateTouch
           \/ Persist \/ GiveUp \/ AutoCommit \/ Restart
           \/ \E k \in Disconnects : Disconnect(k)
  BY <1>2 DEF Begin, InsertRow, PublishStart, Online, UpdateRow, Assign, PublishAssignment,
     Touch, PublishMessage, ReadRecord, Offline, PublishEnd, Elsewhere, Persist, GiveUp,
     AutoCommit, Restart, LateTouch, Disconnect
<1>3. CASE \E a \in Agents : RouteTo(a)
  <2>1. \E a \in Agents : R!Route(Conversation, a)
    BY <1>3 DEF RouteTo
  <2> QED BY <2>1 DEF R!Next
<1>4. CASE RouteNobody
  <2>1. R!RouteNobody(Conversation) \/ UNCHANGED routerVars
    BY <1>4 DEF RouteNobody
  <2> QED BY <2>1 DEF R!Next
<1>5. CASE Find
  <2>1. R!FindAgent(Conversation) \/ UNCHANGED routerVars
    BY <1>5 DEF Find
  <2> QED BY <2>1 DEF R!Next
<1>6. CASE Release
  <2>1. \/ R!Release(Conversation) \/ R!ReleaseAgain(Conversation)
        \/ R!ReleaseTimesOut(Conversation) \/ R!ReleaseFails(Conversation)
    BY <1>6 DEF Release
  <2> QED BY <2>1 DEF R!Next
<1>7. CASE \E a \in Agents : AgentStep(a)
  <2>1. \E a \in Agents : R!GoOnline(a) \/ R!Heartbeat(a) \/ R!GoOffline(a) \/ R!Expire(a)
    BY <1>7 DEF AgentStep
  <2> QED BY <2>1 DEF R!Next
<1> QED BY <1>1, <1>2, <1>3, <1>4, <1>5, <1>6, <1>7 DEF Next

\* Every step is one of the tracker's, or leaves it alone.
LEMMA TrackerStep == ASSUME IInv, [Next]_vars PROVE [T!Next]_(T!vars)
<1> USE DEF trackerVars, T!vars
<1>1. CASE UNCHANGED vars
  BY <1>1 DEF vars
<1>2. CASE \/ \E e \in Events : Begin(e)
           \/ InsertRow \/ PublishStart \/ \E a \in Agents : RouteTo(a)
           \/ RouteNobody \/ UpdateRow \/ PublishAssignment \/ PublishMessage
           \/ Find \/ Release \/ PublishEnd
           \/ Persist \/ GiveUp \/ AutoCommit \/ Restart
           \/ \E a \in Agents : AgentStep(a)
  BY <1>2 DEF Begin, InsertRow, PublishStart, RouteTo, RouteNobody, UpdateRow,
     PublishAssignment, PublishMessage, Find, Release, PublishEnd, Elsewhere,
     Persist, GiveUp, AutoCommit, Restart, AgentStep
<1>3. CASE \E u \in Users : Online(u)
  <2>1. (\E u \in Users : T!ChatOnline(Conversation, u)) \/ UNCHANGED trackerVars
    BY <1>3 DEF Online
  <2> QED BY <2>1 DEF T!Next
<1>4. CASE Assign
  <2>1. routed \in Agents
    <3>1. routed # NoAgent /\ assigned[Conversation] = routed
      BY <1>4 DEF Assign, IInv, TypeOK, Control, Assignment, In
    <3>2. assigned[Conversation] \in Agents \cup {NoAgent}
      BY Facts DEF R!TypeOK
    <3> QED BY <3>1, <3>2
  <2>2. T!ChatAssigned(Conversation, routed) \/ UNCHANGED trackerVars
    BY <1>4 DEF Assign
  <2> QED BY <2>1, <2>2 DEF T!Next
<1>5. CASE Touch
  <2>1. \/ T!ChatMessageReceived(Conversation) \/ T!HandlerAbandonsTouch(Conversation)
        \/ UNCHANGED trackerVars
    BY <1>5 DEF Touch
  <2> QED BY <2>1 DEF T!Next
<1>6. CASE LateTouch
  BY <1>6 DEF LateTouch, T!Next
<1>7. CASE ReadRecord \/ Offline \/ \E k \in Disconnects : Disconnect(k)
  <2>1. \/ \E k \in T!Callers : \/ T!ReadRecord(Conversation, k)
                                \/ T!ChatOffline(Conversation, k)
                                \/ T!ChatOfflineTimesOut(Conversation, k)
                                \/ T!ChatOfflineFails(Conversation, k)
        \/ UNCHANGED trackerVars
    BY <1>7 DEF ReadRecord, Offline, Disconnect, T!Callers
  <2> QED BY <2>1 DEF T!Next
<1> QED BY <1>1, <1>2, <1>3, <1>4, <1>5, <1>6, <1>7 DEF Next

LEMMA RouterImplemented == Spec => R!Spec
<1>1. Init => R!Init
  BY DEF Init
<1>2. IInv /\ [Next]_vars => [R!Next]_(R!vars)
  BY RouterStep
<1> QED BY <1>1, <1>2, Invariance, PTL DEF Spec, R!Spec

LEMMA TrackerImplemented == Spec => T!Spec
<1>1. Init => T!Init
  BY DEF Init
<1>2. IInv /\ [Next]_vars => [T!Next]_(T!vars)
  BY TrackerStep
<1> QED BY <1>1, <1>2, Invariance, PTL DEF Spec, T!Spec

-----------------------------------------------------------------------------
(* What is proved of the two modules holds here *)

RP == INSTANCE AgentRouterProofs WITH Conversations <- {Conversation}
TP == INSTANCE OnlineTrackerProofs WITH Conversations <- {Conversation}, Nobody <- NoAgent

\* The theorems speak of the same behaviours.
LEMMA SameRouter == R!Spec => RP!Spec
<1>1. R!Init <=> RP!Init
  BY DEF R!Init, RP!Init
<1>2. [R!Next]_(R!vars) <=> [RP!Next]_(RP!vars)
  BY DEF R!Next, R!vars, R!GoOnline, R!Heartbeat, R!GoOffline, R!Expire, R!Route, R!RouteNobody,
     R!FindAgent, R!Release, R!ReleaseTimesOut, R!ReleaseAgain, R!ReleaseFails, R!Candidates,
     R!Before, R!Takes, R!Drop, R!Execute, R!Settle,
     RP!Next, RP!vars, RP!GoOnline, RP!Heartbeat, RP!GoOffline, RP!Expire, RP!Route,
     RP!RouteNobody, RP!FindAgent, RP!Release, RP!ReleaseTimesOut, RP!ReleaseAgain,
     RP!ReleaseFails, RP!Candidates, RP!Before, RP!Takes, RP!Drop, RP!Execute, RP!Settle
<1> QED BY <1>1, <1>2, PTL DEF R!Spec, RP!Spec

LEMMA SameTracker == T!Spec => TP!Spec
<1>1. T!Init <=> TP!Init
  BY DEF T!Init, TP!Init, T!Callers, TP!Callers
<1>2. [T!Next]_(T!vars) <=> [TP!Next]_(TP!vars)
  BY DEF T!Next, T!vars, T!Callers, T!WorkerFree, T!ChatOnline, T!ChatAssigned, T!Touch,
     T!ChatMessageReceived, T!HandlerAbandonsTouch, T!LateTouch, T!ReadRecord, T!Remove,
     T!ChatOffline, T!ChatOfflineTimesOut, T!ChatOfflineFails,
     TP!Next, TP!vars, TP!Callers, TP!WorkerFree, TP!ChatOnline, TP!ChatAssigned, TP!Touch,
     TP!ChatMessageReceived, TP!HandlerAbandonsTouch, TP!LateTouch, TP!ReadRecord, TP!Remove,
     TP!ChatOffline, TP!ChatOfflineTimesOut, TP!ChatOfflineFails
<1> QED BY <1>1, <1>2, PTL DEF T!Spec, TP!Spec

\* In every reachable state of the composition, failing steps included, what the two
\* modules' own theorems say: the agent in chat:active has the conversation among their
\* chats, agents are not overbooked, the dashboard lists exactly the chats whose record
\* names a user, and the user and the agent of a record have the chat in their sets.
THEOREM StoresHold ==
  Spec => [](R!AssignedIsListed /\ R!NoOverbooking /\ T!ListedWithRecord /\ T!RecordIsFound)
<1>1. RP!Assumptions
  <2>1. IsFiniteSet({Conversation})
    BY FS_Singleton
  <2> QED BY <2>1, Assumptions, Bounds DEF RP!Assumptions, RP!IsFiniteSet, IsFiniteSet
<1>2. TP!Assumptions /\ TP!NothingIsNoRecord
  BY Assumptions DEF TP!Assumptions, TP!NothingIsNoRecord, TP!Record
<1>3. RP!Spec => [](RP!AssignedIsListed /\ RP!NoOverbooking)
  BY <1>1, RP!AssignedIsListedHolds, RP!NoOverbookingHolds, PTL
<1>4. TP!Spec => [](TP!ListedWithRecord /\ TP!RecordIsFound)
  BY <1>2, TP!ListedWithRecordHolds, TP!RecordIsFoundHolds, PTL
<1>5. RP!AssignedIsListed /\ RP!NoOverbooking => R!AssignedIsListed /\ R!NoOverbooking
  BY DEF R!AssignedIsListed, R!NoOverbooking, RP!AssignedIsListed, RP!NoOverbooking,
     R!Cardinality, RP!Cardinality
<1>6. TP!ListedWithRecord /\ TP!RecordIsFound => T!ListedWithRecord /\ T!RecordIsFound
  BY DEF T!ListedWithRecord, T!RecordIsFound, TP!ListedWithRecord, TP!RecordIsFound
<1> QED BY <1>3, <1>4, <1>5, <1>6, SameRouter, SameTracker, RouterImplemented,
           TrackerImplemented, PTL
=============================================================================
