---------------------------- MODULE AgentRouter ----------------------------
(***************************************************************************)
(* Agent availability and routing, shared/cache/agent_router.py: the Redis *)
(* keys agent:status:*, agent:available, agent:chats:* and chat:active:*,  *)
(* what agents do to them (come online, heartbeat, go offline, vanish) and *)
(* what the conversation workers do (the handlers transfer_to_agent and    *)
(* chat_end).                                                              *)
(*                                                                         *)
(* Redis executes a command, a Lua script and a MULTI pipeline atomically, *)
(* so each of those is one action; release_agent_slot is two of them, with *)
(* other workers and agents in between.  One worker serves a conversation, *)
(* so the operations of one conversation follow each other.                *)
(*                                                                         *)
(* The client is made with retry_on_timeout: when the reply to a pipeline  *)
(* is lost the library sends it once more, although Redis may have         *)
(* executed it.  (A repeated routing script is a second Route here.)       *)
(* Routing by skill is left out: transfer_to_agent never asks for one.     *)
(***************************************************************************)
EXTENDS Integers, FiniteSets

CONSTANTS
  Agents,         \* agent ids; their order is that of Redis members with equal scores
  Conversations,  \* conversation ids
  Capacity,       \* agent -> max_chats it registers with
  NoAgent,        \* not an agent: no agent_id in chat:active
  MaxTimeouts     \* bound: replies to pipelines that get lost

ASSUME Assumptions ==
  /\ Agents \subseteq Nat
  /\ IsFiniteSet(Conversations)
  /\ Capacity \in [Agents -> Nat]
  /\ NoAgent \notin Agents
  /\ MaxTimeouts \in Nat

VARIABLES
  status,    \* agents whose key agent:status exists (its value is always "online")
  pool,      \* members of the sorted set agent:available
  score,     \* their scores (0 for an agent that is no member)
  chatsOf,   \* agent -> the set agent:chats
  assigned,  \* conversation -> agent_id in chat:active, or NoAgent
  worker,    \* conversation -> "free", or how far its release_agent_slot got
  held,      \* conversation -> the agent release_agent_slot read
  timeouts,  \* number of replies lost so far
  fresh,     \* history: agents in the pool since they came online with no chats
  redone     \* history: agent -> releases executed twice since it last came online

vars == <<status, pool, score, chatsOf, assigned, worker, held, timeouts, fresh, redone>>

Init == /\ status = {}
        /\ pool = {}
        /\ score = [a \in Agents |-> 0]
        /\ chatsOf = [a \in Agents |-> {}]
        /\ assigned = [c \in Conversations |-> NoAgent]
        /\ worker = [c \in Conversations |-> "free"]
        /\ held = [c \in Conversations |-> NoAgent]
        /\ timeouts = 0
        /\ fresh = {}
        /\ redone = [a \in Agents |-> 0]

-----------------------------------------------------------------------------
(* Agents.  An agent may come online again without having gone offline. *)

GoOnline(a) ==
  /\ status' = status \cup {a}
  /\ pool' = pool \cup {a}
  /\ score' = [score EXCEPT ![a] = 0]
  /\ fresh' = IF chatsOf[a] = {} THEN fresh \cup {a} ELSE fresh \ {a}
  /\ redone' = [redone EXCEPT ![a] = 0]
  /\ UNCHANGED <<chatsOf, assigned, worker, held, timeouts>>

Heartbeat(a) ==
  /\ status' = status \cup {a}
  /\ UNCHANGED <<pool, score, chatsOf, assigned, worker, held, timeouts, fresh, redone>>

GoOffline(a) ==
  /\ status' = status \ {a}
  /\ pool' = pool \ {a}
  /\ score' = [score EXCEPT ![a] = 0]
  /\ fresh' = fresh \ {a}
  /\ UNCHANGED <<chatsOf, assigned, worker, held, timeouts, redone>>

\* No heartbeat for 30 seconds: Redis drops the status key, and only that.
Expire(a) ==
  /\ a \in status
  /\ status' = status \ {a}
  /\ UNCHANGED <<pool, score, chatsOf, assigned, worker, held, timeouts, fresh, redone>>

-----------------------------------------------------------------------------
(* transfer_to_agent: the script _ROUTE_LUA *)

\* The script sees members with scores from 0 up, by score, then by member.
Candidates == {a \in pool : score[a] >= 0}
Before(a, b) == score[a] < score[b] \/ (score[a] = score[b] /\ a < b)

\* (A variant: one chat too many.)
TakesUpToLimit(a) == a \in status /\ score[a] <= Capacity[a]
Takes(a) == a \in status /\ score[a] < Capacity[a]

\* Offline agents met on the way are removed from the pool.
Drop(gone) ==
  /\ pool' = pool \ gone
  /\ fresh' = fresh \ gone

\* Agent a gets the conversation: the first candidate that takes it.
Route(c, a) ==
  LET gone == {b \in Candidates \ status : Before(b, a)}
  IN  /\ worker[c] = "free"
      /\ a \in Candidates
      /\ Takes(a)
      /\ \A b \in Candidates : Takes(b) => ~Before(b, a)
      /\ Drop(gone)
      /\ score' = [b \in Agents |-> IF b \in gone THEN 0
                                    ELSE IF b = a THEN score[b] + 1
                                    ELSE score[b]]
      /\ chatsOf' = [chatsOf EXCEPT ![a] = @ \cup {c}]
      /\ assigned' = [assigned EXCEPT ![c] = a]
      /\ UNCHANGED <<status, worker, held, timeouts, redone>>

\* Nobody takes it: the client is told to wait.
RouteNobody(c) ==
  LET gone == Candidates \ status
  IN  /\ worker[c] = "free"
      /\ \A a \in Candidates : ~Takes(a)
      /\ Drop(gone)
      /\ score' = [b \in Agents |-> IF b \in gone THEN 0 ELSE score[b]]
      /\ UNCHANGED <<status, chatsOf, assigned, worker, held, timeouts, redone>>

-----------------------------------------------------------------------------
(* chat_end: release_agent_slot *)

\* HGET of the agent that holds the conversation.  Without one there is nothing to do.
FindAgent(c) ==
  /\ worker[c] = "free"
  /\ assigned[c] # NoAgent
  /\ held' = [held EXCEPT ![c] = assigned[c]]
  /\ worker' = [worker EXCEPT ![c] = "releasing"]
  /\ UNCHANGED <<status, pool, score, chatsOf, assigned, timeouts, fresh, redone>>

\* The pipeline.  ZINCRBY of an agent that is no member makes it one, with score -1.
\* (Variants: chat:active is kept; the agent is read once more.)
ExecuteWithoutDelete(c) ==
  LET a == held[c]
  IN  /\ pool' = pool \cup {a}
      /\ score' = [score EXCEPT ![a] = @ - 1]
      /\ chatsOf' = [chatsOf EXCEPT ![a] = @ \ {c}]
      /\ UNCHANGED assigned

ExecuteRereading(c) ==
  LET a == assigned[c]
  IN  /\ pool' = pool \cup {a}
      /\ score' = [score EXCEPT ![a] = @ - 1]
      /\ chatsOf' = [chatsOf EXCEPT ![a] = @ \ {c}]
      /\ assigned' = [assigned EXCEPT ![c] = NoAgent]

Execute(c) ==
  LET a == held[c]
  IN  /\ pool' = pool \cup {a}
      /\ score' = [score EXCEPT ![a] = @ - 1]
      /\ chatsOf' = [chatsOf EXCEPT ![a] = @ \ {c}]
      /\ assigned' = [assigned EXCEPT ![c] = NoAgent]

Settle(c) == /\ worker' = [worker EXCEPT ![c] = "free"]
             /\ held' = [held EXCEPT ![c] = NoAgent]

Release(c) ==
  /\ worker[c] = "releasing"
  /\ Execute(c)
  /\ Settle(c)
  /\ UNCHANGED <<status, timeouts, fresh, redone>>

\* Executed, but the reply does not arrive in time.
ReleaseTimesOut(c) ==
  /\ worker[c] = "releasing"
  /\ timeouts < MaxTimeouts
  /\ timeouts' = timeouts + 1
  /\ Execute(c)
  /\ worker' = [worker EXCEPT ![c] = "retrying"]
  /\ UNCHANGED <<status, held, fresh, redone>>

ReleaseAgain(c) ==
  /\ worker[c] = "retrying"
  /\ Execute(c)
  /\ Settle(c)
  /\ redone' = [redone EXCEPT ![held[c]] = @ + 1]
  /\ UNCHANGED <<status, timeouts, fresh>>

\* The pipeline does not reach Redis: the handler raises, the dispatcher logs it.
ReleaseFails(c) ==
  /\ worker[c] # "free"
  /\ Settle(c)
  /\ UNCHANGED <<status, pool, score, chatsOf, assigned, timeouts, fresh, redone>>

-----------------------------------------------------------------------------
Next == \/ \E a \in Agents : \/ GoOnline(a)
                             \/ Heartbeat(a)
                             \/ GoOffline(a)
                             \/ Expire(a)
        \/ \E c \in Conversations : \/ \E a \in Agents : Route(c, a)
                                    \/ RouteNobody(c)
                                    \/ FindAgent(c)
                                    \/ Release(c)
                                    \/ ReleaseTimesOut(c)
                                    \/ ReleaseAgain(c)
                                    \/ ReleaseFails(c)

Spec == Init /\ [][Next]_vars

-----------------------------------------------------------------------------
(* Properties *)

TypeOK ==
  /\ status \subseteq Agents
  /\ pool \subseteq Agents
  /\ score \in [Agents -> Int]
  /\ chatsOf \in [Agents -> SUBSET Conversations]
  /\ assigned \in [Conversations -> Agents \cup {NoAgent}]
  /\ worker \in [Conversations -> {"free", "releasing", "retrying"}]
  /\ held \in [Conversations -> Agents \cup {NoAgent}]
  /\ timeouts \in 0 .. MaxTimeouts
  /\ fresh \subseteq pool
  /\ redone \in [Agents -> Nat]

\* The two records of an assignment agree in this direction through every interleaving:
\* the agent in chat:active has the conversation among its chats.
AssignedIsListed ==
  \A c \in Conversations : assigned[c] # NoAgent => c \in chatsOf[assigned[c]]

\* "online and under capacity", kept by the atomic script: an agent that came online
\* with no chats and has stayed in the pool never has more than max_chats of them;
\* only a release that Redis executed twice gives away a place too many.
NoOverbooking ==
  \A a \in fresh : Cardinality(chatsOf[a]) <= Capacity[a] + redone[a]
=============================================================================
