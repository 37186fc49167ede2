--------------------------- MODULE OnlineTracker ---------------------------
(***************************************************************************)
(* The online chat tracker, shared/cache/online_chat_tracker.py: the Redis *)
(* keys online:chats, online:chats:user:*, online:chats:agent:* and        *)
(* online:chat:*, written by the conversation workers (the handlers of     *)
(* chat_start, transfer_to_agent, messages and chat_end) and, whenever a   *)
(* socket goes, by the gateways (ConnectionManager.disconnect).            *)
(*                                                                         *)
(* Redis executes a pipeline atomically, so every operation is one action, *)
(* but chat_offline is two: it reads the record of the chat and removes    *)
(* what the record named.  A conversation has one worker; gateways may be  *)
(* in chat_offline at the same time, any number of calls of them.          *)
(*                                                                         *)
(* The index online:chats:by_time is written in the same pipelines as      *)
(* online:chats and has the same members; the status of a chat follows     *)
(* from its agent; times are left out.  A pipeline whose reply is lost is  *)
(* sent once more (retry_on_timeout): for chat_offline that is modelled,   *)
(* for the others it is one more call.                                     *)
(***************************************************************************)
EXTENDS FiniteSets

CONSTANTS
  Conversations,  \* conversation ids
  Users,          \* user ids
  Agents,         \* agent ids
  Disconnects,    \* calls of ConnectionManager.disconnect that may overlap
  Worker,         \* the conversation's worker, as a caller of chat_offline
  Nobody,         \* no user_id, no agent_id
  Nothing         \* no record; nothing read

ASSUME Assumptions ==
  /\ Nobody \notin Users \cup Agents
  /\ Worker \notin Disconnects

Callers == Disconnects \cup {Worker}
Record  == [user : Users \cup {Nobody}, agent : Agents \cup {Nobody}]

ASSUME NothingIsNoRecord == Nothing \notin Record

VARIABLES
  online,    \* online:chats (and online:chats:by_time)
  ofUser,    \* user -> the set online:chats:user
  ofAgent,   \* agent -> the set online:chats:agent
  record,    \* conversation -> the hash online:chat, or Nothing
  reading,   \* conversation, caller of chat_offline -> the record it read, or Nothing
  resent,    \* pairs of them that sent their pipeline and got no reply
  touching   \* conversations whose chat_message_received outlived its handler

vars == <<online, ofUser, ofAgent, record, reading, resent, touching>>

Init == /\ online = {}
        /\ ofUser = [u \in Users |-> {}]
        /\ ofAgent = [a \in Agents |-> {}]
        /\ record = [c \in Conversations |-> Nothing]
        /\ reading = [c \in Conversations |-> [k \in Callers |-> Nothing]]
        /\ resent = {}
        /\ touching = {}

\* The worker of c is not in the middle of chat_end.
WorkerFree(c) == reading[c][Worker] = Nothing

-----------------------------------------------------------------------------
(* The worker's operations *)

ChatOnline(c, u) ==
  /\ WorkerFree(c)
  /\ online' = online \cup {c}
  /\ ofUser' = [ofUser EXCEPT ![u] = @ \cup {c}]
  /\ record' = [record EXCEPT ![c] = [user |-> u, agent |-> Nobody]]
  /\ UNCHANGED <<ofAgent, reading, resent, touching>>

\* HSET writes the agent into the record, or into a new one that has no user.
ChatAssigned(c, a) ==
  /\ WorkerFree(c)
  /\ record' = [record EXCEPT ![c] =
                  IF @ = Nothing THEN [user |-> Nobody, agent |-> a] ELSE [@ EXCEPT !.agent = a]]
  /\ ofAgent' = [ofAgent EXCEPT ![a] = @ \cup {c}]
  /\ UNCHANGED <<online, ofUser, reading, resent, touching>>

\* HSET of the time of the last message: without a record it makes an empty one.
Touch(c) ==
  record' = [record EXCEPT ![c] = IF @ = Nothing THEN [user |-> Nobody, agent |-> Nobody] ELSE @]

ChatMessageReceived(c) ==
  /\ WorkerFree(c)
  /\ Touch(c)
  /\ UNCHANGED <<online, ofUser, ofAgent, reading, resent, touching>>

\* gather() raises when the push fails and does not wait for the HSET beside it: the
\* worker goes on, the HSET follows when it will.
HandlerAbandonsTouch(c) ==
  /\ WorkerFree(c)
  /\ touching' = touching \cup {c}
  /\ UNCHANGED <<online, ofUser, ofAgent, record, reading, resent>>

LateTouch(c) ==
  /\ c \in touching
  /\ touching' = touching \ {c}
  /\ Touch(c)
  /\ UNCHANGED <<online, ofUser, ofAgent, reading, resent>>

-----------------------------------------------------------------------------
(* chat_offline, called by the worker (chat_end) or by a gateway *)

\* A variant of the definition below: HGET of the agent alone.
ReadAgent(c, k) ==
  /\ reading[c][k] = Nothing
  /\ record[c] # Nothing
  /\ reading' = [reading EXCEPT ![c][k] = record[c].agent]
  /\ UNCHANGED <<online, ofUser, ofAgent, record, resent, touching>>

\* HGETALL.  Without a record there is nothing to do.
ReadRecord(c, k) ==
  /\ reading[c][k] = Nothing
  /\ record[c] # Nothing
  /\ reading' = [reading EXCEPT ![c][k] = record[c]]
  /\ UNCHANGED <<online, ofUser, ofAgent, record, resent, touching>>

\* A variant of the definition below: a record that has changed since is left alone.
RemoveUnlessChanged(c, m) ==
  /\ online' = online \ {c}
  /\ record' = [record EXCEPT ![c] = IF @ = m THEN Nothing ELSE @]
  /\ ofUser' = [u \in Users |-> IF u = m.user THEN ofUser[u] \ {c} ELSE ofUser[u]]
  /\ ofAgent' = [a \in Agents |-> IF a = m.agent THEN ofAgent[a] \ {c} ELSE ofAgent[a]]

\* What the pipeline removes: the chat, and its places with the user and agent read.
Remove(c, m) ==
  /\ online' = online \ {c}
  /\ record' = [record EXCEPT ![c] = Nothing]
  /\ ofUser' = [u \in Users |-> IF u = m.user THEN ofUser[u] \ {c} ELSE ofUser[u]]
  /\ ofAgent' = [a \in Agents |-> IF a = m.agent THEN ofAgent[a] \ {c} ELSE ofAgent[a]]

ChatOffline(c, k) ==
  /\ reading[c][k] # Nothing
  /\ Remove(c, reading[c][k])
  /\ reading' = [reading EXCEPT ![c][k] = Nothing]
  /\ resent' = resent \ {<<c, k>>}
  /\ UNCHANGED touching

\* Executed, but the reply is lost: the pipeline will be sent once more.
ChatOfflineTimesOut(c, k) ==
  /\ reading[c][k] # Nothing
  /\ <<c, k>> \notin resent
  /\ Remove(c, reading[c][k])
  /\ resent' = resent \cup {<<c, k>>}
  /\ UNCHANGED <<reading, touching>>

\* It does not reach Redis: the handler, or the gateway's disconnect, raises.
ChatOfflineFails(c, k) ==
  /\ reading[c][k] # Nothing
  /\ reading' = [reading EXCEPT ![c][k] = Nothing]
  /\ resent' = resent \ {<<c, k>>}
  /\ UNCHANGED <<online, ofUser, ofAgent, record, touching>>

-----------------------------------------------------------------------------
Next == \E c \in Conversations :
          \/ \E u \in Users : ChatOnline(c, u)
          \/ \E a \in Agents : ChatAssigned(c, a)
          \/ ChatMessageReceived(c)
          \/ HandlerAbandonsTouch(c)
          \/ LateTouch(c)
          \/ \E k \in Callers : \/ ReadRecord(c, k)
                                \/ ChatOffline(c, k)
                                \/ ChatOfflineTimesOut(c, k)
                                \/ ChatOfflineFails(c, k)

Spec == Init /\ [][Next]_vars

-----------------------------------------------------------------------------
(* Properties *)

TypeOK ==
  /\ online \subseteq Conversations
  /\ ofUser \in [Users -> SUBSET Conversations]
  /\ ofAgent \in [Agents -> SUBSET Conversations]
  /\ record \in [Conversations -> Record \cup {Nothing}]
  /\ reading \in [Conversations -> [Callers -> Record \cup {Nothing}]]
  /\ resent \subseteq Conversations \X Callers
  /\ touching \subseteq Conversations

\* The dashboard lists the chats of online:chats and shows their records, skipping those
\* without: the count and the list agree.  However offline calls, restarts of a chat and
\* late writes interleave, a chat is listed exactly when its record names its user.
ListedWithRecord ==
  \A c \in Conversations :
    c \in online <=> record[c] # Nothing /\ record[c].user # Nobody

\* A record's user and agent find the chat among theirs: what chat_offline read of them
\* earlier, once or twice executed, never takes away the place a later record names.
RecordIsFound ==
  \A c \in Conversations : record[c] # Nothing =>
    /\ record[c].user # Nobody => c \in ofUser[record[c].user]
    /\ record[c].agent # Nobody => c \in ofAgent[record[c].agent]
=============================================================================
