------------------------------ MODULE Gateway ------------------------------
(***************************************************************************)
(* The WebSocket gateways, gateway/main.py and websocket_manager.py, with  *)
(* the registry of connections in Redis and the consumer's push_to_client, *)
(* for one conversation: the entries of different conversations are        *)
(* independent, and where a loop over all of them is suspended at another  *)
(* conversation the model may wait as long.                                *)
(*                                                                         *)
(* A gateway is an asyncio process: an action is what a task does between  *)
(* two suspensions.  disconnect() is called by endpoints, by the cleanup   *)
(* loop and by send_message; it has a step per await.  A socket connects   *)
(* once.  Events read from a socket and their way to Kafka are left out,   *)
(* except that processing one takes time and can raise.                    *)
(***************************************************************************)
EXTENDS Naturals, Sequences

CONSTANTS
  Gateways,    \* gateway processes (server ids)
  Sockets,     \* WebSockets that clients of the conversation open
  Pushes,      \* calls of push_to_client that may overlap (the caller gives up after 5 s)
  NoSocket,
  NoGateway,
  MaxFailures  \* bound: Redis calls that fail

ASSUME Assumptions ==
  /\ NoSocket \notin Sockets
  /\ NoGateway \notin Gateways
  /\ MaxFailures \in Nat
  /\ Gateways \cap Sockets = {} /\ Gateways \cap Pushes = {} /\ Sockets \cap Pushes = {}

VARIABLES
  connections,  \* gateway -> the socket in its connections, or NoSocket
  lastSeen,     \* gateway -> "absent", "recent" or "stale" (older than the timeout)
  sendLock,     \* socket -> pushes at the lock made with it, the first one holding it
  registry,     \* the gateway in ws:conn, or NoGateway
  wire,         \* socket -> "new", "open" or "closed"
  endpoint,     \* socket -> where its websocket_endpoint is suspended
  superseded,   \* socket -> the socket it closes before it is accepted, or NoSocket
  cleanup,      \* gateway -> where its cleanup loop is suspended
  pinged,       \* gateway -> the socket the loop is sending a ping to, or NoSocket
  push,         \* push -> where it is suspended
  target,       \* push -> the socket send_message found, or NoSocket
  place,        \* socket, push -> the gateway it is served by, or NoGateway
  call,         \* caller -> its disconnect() in progress: step and socket popped
  failures      \* number of Redis calls that failed

endpointVars == <<endpoint, superseded>>
cleanupVars  == <<cleanup, pinged>>
pushVars     == <<push, target, sendLock>>
vars == <<connections, lastSeen, registry, wire, endpointVars, cleanupVars, pushVars,
          place, call, failures>>

Callers == Sockets \cup Gateways \cup Pushes
NoCall  == [step |-> "none", socket |-> NoSocket]
At(p)   == IF p \in Gateways THEN p ELSE place[p]

Init == /\ connections = [g \in Gateways |-> NoSocket]
        /\ lastSeen = [g \in Gateways |-> "absent"]
        /\ sendLock = [s \in Sockets |-> <<>>]
        /\ registry = NoGateway
        /\ wire = [s \in Sockets |-> "new"]
        /\ endpoint = [s \in Sockets |-> "new"]
        /\ superseded = [s \in Sockets |-> NoSocket]
        /\ cleanup = [g \in Gateways |-> "ping"]
        /\ pinged = [g \in Gateways |-> NoSocket]
        /\ push = [p \in Pushes |-> "idle"]
        /\ target = [p \in Pushes |-> NoSocket]
        /\ place = [p \in Sockets \cup Pushes |-> NoGateway]
        /\ call = [p \in Callers |-> NoCall]
        /\ failures = 0

\* A Redis call fails.
Failure == failures < MaxFailures /\ failures' = failures + 1

-----------------------------------------------------------------------------
(* ConnectionManager.disconnect *)

\* A variant of the definition below: the socket stays in the dictionary.
EnterDisconnectLate(p) ==
  /\ UNCHANGED connections
  /\ lastSeen' = [lastSeen EXCEPT ![At(p)] = "absent"]
  /\ call' = [call EXCEPT ![p] = [step |-> "unregister", socket |-> connections[At(p)]]]

\* A variant of the definition below: the entry of last_seen stays.
EnterDisconnectSeen(p) ==
  /\ connections' = [connections EXCEPT ![At(p)] = NoSocket]
  /\ UNCHANGED lastSeen
  /\ call' = [call EXCEPT ![p] = [step |-> "unregister", socket |-> connections[At(p)]]]

\* Up to the first await: the entries go, whichever socket they are of.
EnterDisconnect(p) ==
  /\ connections' = [connections EXCEPT ![At(p)] = NoSocket]
  /\ lastSeen' = [lastSeen EXCEPT ![At(p)] = "absent"]
  /\ call' = [call EXCEPT ![p] = [step |-> "unregister", socket |-> connections[At(p)]]]

EndpointEnds(s) ==
  /\ endpoint' = [endpoint EXCEPT ![s] = "ended"]
  /\ place' = [place EXCEPT ![s] = NoGateway]
  /\ superseded' = [superseded EXCEPT ![s] = NoSocket]

\* disconnect() returns to its caller, or raises: an endpoint told of the disconnection
\* calls it again in its finally clause and ends; the cleanup loop goes on, or dies of
\* the exception; a push gives the lock back.
Leave(p) ==
  /\ call' = [call EXCEPT ![p] = NoCall]
  /\ UNCHANGED <<connections, lastSeen>>

EndpointGoesOn(s) ==
  /\ \/ /\ endpoint[s] = "disconnected"
        /\ endpoint' = [endpoint EXCEPT ![s] = "finally"]
        /\ EnterDisconnect(s)
        /\ UNCHANGED <<place, superseded>>
     \/ /\ endpoint[s] = "finally"
        /\ EndpointEnds(s)
        /\ Leave(s)
  /\ UNCHANGED <<cleanupVars, pushVars>>

CleanupGoesOn(g, raised) ==
  /\ cleanup' = [cleanup EXCEPT ![g] =
                   IF raised THEN "dead" ELSE IF @ = "dropping" THEN "check" ELSE "ping"]
  /\ Leave(g)
  /\ UNCHANGED <<pinged, endpointVars, pushVars, place>>

\* A variant of the definition below: the lock is not given back.
PushEndsLocked(p) ==
  /\ push' = [push EXCEPT ![p] = "idle"]
  /\ target' = [target EXCEPT ![p] = NoSocket]
  /\ place' = [place EXCEPT ![p] = NoGateway]
  /\ UNCHANGED sendLock

PushEnds(p) ==
  /\ push' = [push EXCEPT ![p] = "idle"]
  /\ target' = [target EXCEPT ![p] = NoSocket]
  /\ place' = [place EXCEPT ![p] = NoGateway]
  /\ sendLock' = [sendLock EXCEPT ![target[p]] = Tail(@)]

Return(p, raised) ==
  \/ p \in Sockets /\ EndpointGoesOn(p)
  \/ p \in Gateways /\ CleanupGoesOn(p, raised)
  \/ p \in Pushes /\ PushEnds(p) /\ Leave(p) /\ UNCHANGED <<endpointVars, cleanupVars>>

NextStep(p, step) ==
  /\ call' = [call EXCEPT ![p].step = step]
  /\ UNCHANGED <<connections, lastSeen, endpointVars, cleanupVars, pushVars, place>>

\* unregister_connection: DEL, whoever registered since
Unregister(p) ==
  /\ call[p].step = "unregister"
  /\ registry' = NoGateway
  /\ NextStep(p, "offline")
  /\ UNCHANGED <<wire, failures>>

\* chat_offline (what it does to the tracker: module OnlineTracker)
ChatOffline(p) ==
  /\ call[p].step = "offline"
  /\ IF call[p].socket = NoSocket THEN Return(p, FALSE) ELSE NextStep(p, "close")
  /\ UNCHANGED <<registry, wire, failures>>

\* websocket.close(), whose exceptions are dropped
CloseSocket(p) ==
  /\ call[p].step = "close"
  /\ wire' = [wire EXCEPT ![call[p].socket] = "closed"]
  /\ Return(p, FALSE)
  /\ UNCHANGED <<registry, failures>>

\* unregister_connection or chat_offline raises: the rest is skipped.
DisconnectFails(p) ==
  /\ call[p].step \in {"unregister", "offline"}
  /\ Failure
  /\ Return(p, TRUE)
  /\ UNCHANGED <<registry, wire>>

-----------------------------------------------------------------------------
(* websocket_endpoint and ConnectionManager.connect *)

\* Authenticated; connect() looks for a socket of the conversation and drops its entries.
Connect(s, g) ==
  /\ endpoint[s] = "new"
  /\ place' = [place EXCEPT ![s] = g]
  /\ superseded' = [superseded EXCEPT ![s] = connections[g]]
  /\ IF connections[g] = NoSocket
       THEN /\ endpoint' = [endpoint EXCEPT ![s] = "accepting"]
            /\ UNCHANGED <<connections, lastSeen>>
       ELSE /\ endpoint' = [endpoint EXCEPT ![s] = "superseding"]
            /\ connections' = [connections EXCEPT ![g] = NoSocket]
            /\ lastSeen' = [lastSeen EXCEPT ![g] = "absent"]
  /\ UNCHANGED <<registry, wire, cleanupVars, pushVars, call, failures>>

ForceClose(s) ==
  /\ endpoint[s] = "superseding"
  /\ wire' = [wire EXCEPT ![superseded[s]] = "closed"]
  /\ endpoint' = [endpoint EXCEPT ![s] = "accepting"]
  /\ UNCHANGED <<connections, lastSeen, registry, superseded, cleanupVars, pushVars, place,
                 call, failures>>

\* accept() done: the entries are made, whatever has been entered meanwhile.
Accept(s) ==
  /\ endpoint[s] = "accepting"
  /\ wire' = [wire EXCEPT ![s] = "open"]
  /\ connections' = [connections EXCEPT ![place[s]] = s]
  /\ lastSeen' = [lastSeen EXCEPT ![place[s]] = "recent"]
  /\ endpoint' = [endpoint EXCEPT ![s] = "registering"]
  /\ UNCHANGED <<registry, superseded, cleanupVars, pushVars, place, call, failures>>

\* The client has gone already: accept() raises.
AcceptFails(s) ==
  /\ endpoint[s] = "accepting"
  /\ wire' = [wire EXCEPT ![s] = "closed"]
  /\ EndpointEnds(s)
  /\ UNCHANGED <<connections, lastSeen, registry, cleanupVars, pushVars, call, failures>>

Register(s) ==
  /\ endpoint[s] = "registering"
  /\ registry' = place[s]
  /\ endpoint' = [endpoint EXCEPT ![s] = "receiving"]
  /\ UNCHANGED <<connections, lastSeen, wire, superseded, cleanupVars, pushVars, place, call,
                 failures>>

\* SET raises, executed or not: the socket is closed, its entries stay.
RegisterFails(s) ==
  /\ endpoint[s] = "registering"
  /\ Failure
  /\ registry' \in {registry, place[s]}
  /\ wire' = [wire EXCEPT ![s] = "closed"]
  /\ EndpointEnds(s)
  /\ UNCHANGED <<connections, lastSeen, cleanupVars, pushVars, call>>

\* An event arrives: heartbeat() notes the time, in a new entry if there is none.
Receive(s) ==
  /\ endpoint[s] = "receiving"
  /\ wire[s] = "open"
  /\ lastSeen' = [lastSeen EXCEPT ![place[s]] = "recent"]
  /\ endpoint' = [endpoint EXCEPT ![s] = "processing"]
  /\ UNCHANGED <<connections, registry, wire, superseded, cleanupVars, pushVars, place, call,
                 failures>>

Processed(s) ==
  /\ endpoint[s] = "processing"
  /\ endpoint' = [endpoint EXCEPT ![s] = "receiving"]
  /\ UNCHANGED <<connections, lastSeen, registry, wire, superseded, cleanupVars, pushVars,
                 place, call, failures>>

\* A variant of the definition below, without the finally clause.
ProcessingEndsEndpoint(s) ==
  /\ endpoint[s] = "processing"
  /\ \/ wire[s] = "closed" /\ UNCHANGED failures
     \/ Failure
  /\ EndpointEnds(s)
  /\ UNCHANGED <<connections, lastSeen, call, registry, wire, cleanupVars, pushVars>>

\* Refreshing the TTL raises, or answering on a socket this side has closed: only the
\* finally clause disconnects.  (An answer to a client that is gone raises a
\* WebSocketDisconnect: Processed, then ReceiveDisconnect.)
ProcessingFails(s) ==
  /\ endpoint[s] = "processing"
  /\ \/ wire[s] = "closed" /\ UNCHANGED failures
     \/ Failure
  /\ endpoint' = [endpoint EXCEPT ![s] = "finally"]
  /\ EnterDisconnect(s)
  /\ UNCHANGED <<registry, wire, superseded, cleanupVars, pushVars, place>>

\* receive_json() raises anything else: what came is not JSON, or the socket was closed
\* while the endpoint was busy with an event.
ReceiveFails(s) ==
  /\ endpoint[s] = "receiving"
  /\ endpoint' = [endpoint EXCEPT ![s] = "finally"]
  /\ EnterDisconnect(s)
  /\ UNCHANGED <<registry, wire, superseded, cleanupVars, pushVars, place, failures>>

\* receive_json() raises WebSocketDisconnect, whoever closed the socket.
ReceiveDisconnect(s) ==
  /\ endpoint[s] = "receiving"
  /\ wire[s] = "closed"
  /\ endpoint' = [endpoint EXCEPT ![s] = "disconnected"]
  /\ EnterDisconnect(s)
  /\ UNCHANGED <<registry, wire, superseded, cleanupVars, pushVars, place, failures>>

-----------------------------------------------------------------------------
(* cleanup_stale_connections *)

\* ping_all() takes its copy of the dictionary.
Ping(g) ==
  /\ cleanup[g] = "ping"
  /\ pinged' = [pinged EXCEPT ![g] = connections[g]]
  /\ cleanup' = [cleanup EXCEPT ![g] = IF connections[g] = NoSocket THEN "check" ELSE "pinging"]
  /\ UNCHANGED <<connections, lastSeen, registry, wire, endpointVars, pushVars, place, call,
                 failures>>

\* A variant of the definition below: a closed socket is passed over.
PingIgnoresErrors(g) ==
  /\ cleanup[g] = "pinging"
  /\ pinged' = [pinged EXCEPT ![g] = NoSocket]
  /\ cleanup' = [cleanup EXCEPT ![g] = "check"]
  /\ UNCHANGED <<connections, lastSeen, registry, wire, endpointVars, pushVars, place, call,
                 failures>>

\* A closed socket is remembered by its conversation.
PingSent(g) ==
  /\ cleanup[g] = "pinging"
  /\ pinged' = [pinged EXCEPT ![g] = NoSocket]
  /\ cleanup' = [cleanup EXCEPT ![g] = IF wire[pinged[g]] = "closed" THEN "failed" ELSE "check"]
  /\ UNCHANGED <<connections, lastSeen, registry, wire, endpointVars, pushVars, place, call,
                 failures>>

\* After the pings to all other conversations
DropFailed(g) ==
  /\ cleanup[g] = "failed"
  /\ cleanup' = [cleanup EXCEPT ![g] = "dropping"]
  /\ EnterDisconnect(g)
  /\ UNCHANGED <<registry, wire, endpointVars, pinged, pushVars, place, failures>>

\* get_stale_connections() looks at last_seen.
Check(g) ==
  /\ cleanup[g] = "check"
  /\ cleanup' = [cleanup EXCEPT ![g] = IF lastSeen[g] = "stale" THEN "listed" ELSE "ping"]
  /\ UNCHANGED <<connections, lastSeen, registry, wire, endpointVars, pinged, pushVars, place,
                 call, failures>>

\* After the evictions ahead of it in the list
Evict(g) ==
  /\ cleanup[g] = "listed"
  /\ cleanup' = [cleanup EXCEPT ![g] = "evicting"]
  /\ EnterDisconnect(g)
  /\ UNCHANGED <<registry, wire, endpointVars, pinged, pushVars, place, failures>>

-----------------------------------------------------------------------------
(* push_to_client, and send_message at the gateway *)

Lookup(p) ==
  /\ push[p] = "idle"
  /\ registry # NoGateway
  /\ place' = [place EXCEPT ![p] = registry]
  /\ push' = [push EXCEPT ![p] = "posting"]
  /\ UNCHANGED <<connections, lastSeen, registry, wire, endpointVars, cleanupVars, sendLock,
                 target, call, failures>>

\* The request reaches the gateway, and the lock of the socket found, held or not.
Arrive(p) ==
  LET s == connections[place[p]]
  IN  /\ push[p] = "posting"
      /\ s # NoSocket
      /\ push' = [push EXCEPT ![p] = "locking"]
      /\ target' = [target EXCEPT ![p] = s]
      /\ sendLock' = [sendLock EXCEPT ![s] = Append(@, p)]
      /\ UNCHANGED <<connections, lastSeen, registry, wire, endpointVars, cleanupVars, place,
                     call, failures>>

\* No socket of the conversation (404), no answer, or no gateway at that address
PostFails(p) ==
  /\ push[p] = "posting"
  /\ push' = [push EXCEPT ![p] = "idle"]
  /\ place' = [place EXCEPT ![p] = NoGateway]
  /\ UNCHANGED <<connections, lastSeen, registry, wire, endpointVars, cleanupVars, sendLock,
                 target, call, failures>>

HasLock(p) == push[p] = "locking" /\ Head(sendLock[target[p]]) = p

Send(p) ==
  /\ HasLock(p)
  /\ wire[target[p]] = "open"
  /\ PushEnds(p)
  /\ UNCHANGED <<connections, lastSeen, registry, wire, endpointVars, cleanupVars, call,
                 failures>>

\* The socket is closed: the conversation is disconnected, with the lock held.
SendFails(p) ==
  /\ HasLock(p)
  /\ wire[target[p]] = "closed"
  /\ push' = [push EXCEPT ![p] = "failing"]
  /\ EnterDisconnect(p)
  /\ UNCHANGED <<registry, wire, endpointVars, cleanupVars, sendLock, target, place, failures>>

-----------------------------------------------------------------------------
(* The clients, time *)

ClientCloses(s) ==
  /\ wire[s] = "open"
  /\ wire' = [wire EXCEPT ![s] = "closed"]
  /\ UNCHANGED <<connections, lastSeen, registry, endpointVars, cleanupVars, pushVars, place,
                 call, failures>>

\* Nothing heard for longer than _STALE_TIMEOUT_SECONDS
Silence(g) ==
  /\ lastSeen[g] = "recent"
  /\ lastSeen' = [lastSeen EXCEPT ![g] = "stale"]
  /\ UNCHANGED <<connections, registry, wire, endpointVars, cleanupVars, pushVars, place, call,
                 failures>>

\* The TTL of ws:conn, longer than that timeout, is refreshed by each heartbeat.
Expire ==
  /\ registry # NoGateway
  /\ lastSeen[registry] # "recent"
  /\ registry' = NoGateway
  /\ UNCHANGED <<connections, lastSeen, wire, endpointVars, cleanupVars, pushVars, place, call,
                 failures>>

-----------------------------------------------------------------------------
EndpointSteps(s) ==
  \/ ForceClose(s) \/ Accept(s) \/ AcceptFails(s) \/ Register(s) \/ RegisterFails(s)
  \/ Processed(s) \/ ProcessingFails(s) \/ ReceiveDisconnect(s)

DisconnectSteps(p) ==
  Unregister(p) \/ ChatOffline(p) \/ CloseSocket(p) \/ DisconnectFails(p)

CleanupSteps(g) == Ping(g) \/ PingSent(g) \/ DropFailed(g) \/ Check(g) \/ Evict(g)

PushSteps(p) == Arrive(p) \/ PostFails(p) \/ Send(p) \/ SendFails(p)

Next == \/ \E s \in Sockets : \/ \E g \in Gateways : Connect(s, g)
                              \/ EndpointSteps(s)
                              \/ Receive(s)
                              \/ ReceiveFails(s)
                              \/ ClientCloses(s)
        \/ \E p \in Callers : DisconnectSteps(p)
        \/ \E g \in Gateways : CleanupSteps(g) \/ Silence(g)
        \/ \E p \in Pushes : Lookup(p) \/ PushSteps(p)
        \/ Expire

Spec == Init /\ [][Next]_vars

\* Every task that can go on does: each call it awaits returns or times out.  Clients
\* need not connect, send or close, and the consumer need not push.
Fairness == /\ \A s \in Sockets : WF_vars(EndpointSteps(s))
            /\ \A p \in Callers : WF_vars(DisconnectSteps(p))
            /\ \A g \in Gateways : WF_vars(CleanupSteps(g))
            /\ \A p \in Pushes : WF_vars(PushSteps(p))

FairSpec == Spec /\ Fairness

-----------------------------------------------------------------------------
(* Properties *)

TypeOK ==
  /\ connections \in [Gateways -> Sockets \cup {NoSocket}]
  /\ lastSeen \in [Gateways -> {"absent", "recent", "stale"}]
  /\ \A g \in Gateways : connections[g] # NoSocket => lastSeen[g] # "absent"
  /\ sendLock \in [Sockets -> Seq(Pushes)]
  /\ registry \in Gateways \cup {NoGateway}
  /\ wire \in [Sockets -> {"new", "open", "closed"}]
  /\ endpoint \in [Sockets -> {"new", "superseding", "accepting", "registering", "receiving",
                               "processing", "disconnected", "finally", "ended"}]
  /\ superseded \in [Sockets -> Sockets \cup {NoSocket}]
  /\ cleanup \in [Gateways -> {"ping", "pinging", "failed", "dropping", "check", "listed",
                               "evicting", "dead"}]
  /\ pinged \in [Gateways -> Sockets \cup {NoSocket}]
  /\ push \in [Pushes -> {"idle", "posting", "locking", "failing"}]
  /\ target \in [Pushes -> Sockets \cup {NoSocket}]
  /\ place \in [Sockets \cup Pushes -> Gateways \cup {NoGateway}]
  /\ call \in [Callers -> [step : {"none", "unregister", "offline", "close"},
                           socket : Sockets \cup {NoSocket}]]
  /\ failures \in 0 .. MaxFailures

\* No registration outlives its gateway's interest in it: while Redis answers, ws:conn
\* names a gateway only if an endpoint there has registered and is still to make the
\* last call that deletes the key, however many sockets superseded each other, whoever
\* else disconnected the conversation and at whichever gateway.
RegistrationIsOwned ==
  registry # NoGateway /\ failures = 0 =>
    \E s \in Sockets :
      /\ place[s] = registry
      /\ \/ endpoint[s] \in {"receiving", "processing", "disconnected"}
         \/ endpoint[s] = "finally" /\ call[s].step = "unregister"

\* A closed socket does not stay in the dictionary, even one whose endpoint ended without
\* disconnecting it, as long as the cleanup loop has not died of an exception.
ClosedSocketLeaves ==
  \A g \in Gateways, s \in Sockets :
    connections[g] = s /\ wire[s] = "closed" ~> connections[g] # s \/ cleanup[g] = "dead"

\* A conversation not heard of for the timeout is evicted, whatever the endpoints and the
\* pushes do to it, unless the loop has died of an exception.
SilentIsEvicted ==
  \A g \in Gateways : lastSeen[g] = "stale" ~> lastSeen[g] # "stale" \/ cleanup[g] = "dead"

\* Every push comes to an end, although a push that fails holds the lock of its socket
\* through a whole disconnect.
PushEndsEventually == \A p \in Pushes : push[p] # "idle" ~> push[p] = "idle"

\* _force_close: "Force-close an existing socket without full disconnect cleanup."  So
\* the socket that superseded it is not disconnected by the endpoint of the old one.
\* (It is: that endpoint notices the close and disconnects the conversation.)
SupersededLeavesAlone ==
  \A s, n \in Sockets : superseded[n] = s => call[s].socket # n
=============================================================================
