---------------------------- MODULE BotChannel ----------------------------
(***************************************************************************)
(* A bot from its administration to its feed: the requests of its admin    *)
(* (api/routers/bots.py), each a database transaction around a change of   *)
(* the cached mapping from the bot to the admin (bot_registry.py); the     *)
(* customer's socket, authenticated by the bot's key (gateway/main.py,     *)
(* bot_auth.py), whose events pass the rate limiter (module RateLimiter);  *)
(* and the events announced to the admin (admin_feed.py), who is looked up *)
(* in the cache.                                                           *)
(*                                                                         *)
(* PostgreSQL runs the transactions at READ COMMITTED: a request reads     *)
(* committed rows, its UPDATE locks the row until the transaction ends and *)
(* writes the columns that changed.  get_db commits when the handler has   *)
(* returned, and the response is sent after that.                          *)
(***************************************************************************)
EXTENDS RateLimiter

CONSTANTS
  Requests,     \* requests of the admin that may overlap
  NoRequest,
  NoKey,
  MaxFailures   \* bound: commits and Redis calls of requests that fail

ASSUME Assumptions == NoRequest \notin Requests /\ NoKey \notin Nat /\ MaxFailures \in Nat

VARIABLES
  row,        \* the committed row: exists, is_active, api_key
  lock,       \* the request that has the row's lock, or NoRequest
  request,    \* request -> what it does, how far it is, and the row it read
  mapped,     \* the bot's admin is in the cache
  keys,       \* number of keys generated so far
  session,    \* the customer's socket: the key it was authenticated with, or NoKey
  feed,       \* an event on its way to the admin: "none", "handled" or "addressed"
  failures,   \* number of failures so far
  unheard     \* history: an event of the active bot was dropped for want of an admin

requestVars == <<row, lock, request, mapped, keys, failures>>
vars == <<limiterVars, requestVars, session, feed, unheard>>

Operations == {"create", "delete", "enable", "disable", "regenerate"}
NoRow      == [exists |-> FALSE, active |-> FALSE, key |-> NoKey]

Init == /\ LimiterInit
        /\ row = NoRow
        /\ lock = NoRequest
        /\ request = [r \in Requests |-> [op |-> "none", at |-> "new", read |-> NoRow, key |-> NoKey]]
        /\ mapped = FALSE
        /\ keys = 0
        /\ session = NoKey
        /\ feed = "none"
        /\ failures = 0
        /\ unheard = FALSE

Op(r)  == request[r].op
At(r)  == request[r].at
Go(r, step) == request' = [request EXCEPT ![r].at = step]

Failure == failures < MaxFailures /\ failures' = failures + 1

others == <<limiterVars, session, feed, unheard>>

-----------------------------------------------------------------------------
(* Requests: read the row, flush the change, change the cache, commit, answer *)

\* Only one request creates the bot; the others find it or answer 404.  create and
\* regenerate generate a key.
Read(r, op) ==
  /\ At(r) = "new"
  /\ IF op = "create" THEN \A q \in Requests : Op(q) # "create" ELSE row.exists
  /\ keys' = IF op \in {"create", "regenerate"} THEN keys + 1 ELSE keys
  /\ request' = [request EXCEPT ![r] =
                   [op |-> op, at |-> "read", read |-> row,
                    key |-> IF op \in {"create", "regenerate"} THEN keys + 1 ELSE row.key]]
  /\ UNCHANGED <<row, lock, mapped, failures, others>>

\* An attribute that is set to the value it has makes no UPDATE.
Changes(r) == CASE Op(r) \in {"delete", "disable"} -> request[r].read.active
                [] Op(r) = "enable" -> ~ request[r].read.active
                [] OTHER -> TRUE

UsesCache(r) == Op(r) \in {"create", "delete"}

Flush(r) ==
  /\ At(r) = "read"
  /\ IF Changes(r) THEN lock = NoRequest /\ lock' = r ELSE UNCHANGED lock
  /\ Go(r, IF UsesCache(r) THEN "caching" ELSE "committing")
  /\ UNCHANGED <<row, mapped, keys, failures, others>>

Unlocked(r) == IF lock = r THEN NoRequest ELSE lock

\* A variant of the definition below: a failure is ignored.
ChangeCacheUnchecked(r) ==
  /\ At(r) = "caching"
  /\ \/ mapped' = (Op(r) = "create") /\ UNCHANGED failures
     \/ UNCHANGED mapped /\ Failure
  /\ Go(r, "committing")
  /\ UNCHANGED <<row, lock, keys, others>>

\* cache_bot_mapping or invalidate_bot_mapping.  It may raise, executed or not: get_db
\* rolls back.
ChangeCache(r) ==
  /\ At(r) = "caching"
  /\ \/ /\ mapped' = (Op(r) = "create")
        /\ Go(r, "committing")
        /\ UNCHANGED <<lock, failures>>
     \/ /\ mapped' \in {mapped, Op(r) = "create"}
        /\ Failure
        /\ lock' = Unlocked(r)
        /\ Go(r, "failed")
  /\ UNCHANGED <<row, keys, others>>

\* What the transaction makes of the row
Committed(r) ==
  CASE Op(r) = "create" -> [exists |-> TRUE, active |-> TRUE, key |-> request[r].key]
    [] Op(r) = "regenerate" -> [row EXCEPT !.key = request[r].key]
    [] OTHER -> IF Changes(r) THEN [row EXCEPT !.active = (Op(r) = "enable")] ELSE row

Commit(r) ==
  /\ At(r) = "committing"
  /\ \/ row' = Committed(r) /\ Go(r, "committed") /\ UNCHANGED failures
     \/ row' \in {row, Committed(r)} /\ Failure /\ Go(r, "failed")
  /\ lock' = Unlocked(r)
  /\ UNCHANGED <<mapped, keys, others>>

\* (Variants: nothing is committed; the bot is put into the cache in the background.)
AnswerUncommitted(r) ==
  /\ At(r) = "committing"
  /\ Go(r, "answered")
  /\ lock' = Unlocked(r)
  /\ UNCHANGED <<row, mapped, keys, failures, others>>

AnswerThenMap(r) ==
  /\ At(r) = "committed"
  /\ Go(r, "answered")
  /\ mapped' = (mapped \/ Op(r) = "create")
  /\ UNCHANGED <<row, lock, keys, failures, others>>

Answer(r) ==
  /\ At(r) = "committed"
  /\ Go(r, "answered")
  /\ UNCHANGED <<row, lock, mapped, keys, failures, others>>

-----------------------------------------------------------------------------
(* The customer's socket and its events *)

\* The key is looked up among the active bots, once, when the socket connects.
Connect(k) ==
  /\ session = NoKey
  /\ row.exists /\ row.active /\ row.key = k
  /\ session' = k
  /\ UNCHANGED <<limiterVars, requestVars, feed, unheard>>

Disconnect ==
  /\ session # NoKey
  /\ session' = NoKey
  /\ UNCHANGED <<limiterVars, requestVars, feed, unheard>>

\* An event that the limiter lets through goes to Kafka and on to its handler, or is lost
\* on the way.  (At most one at a time is followed: the events of a conversation are
\* handled one by one.)
Event ==
  /\ session # NoKey
  /\ \/ /\ Admit \/ FailOpen
        /\ feed' \in {feed, IF feed = "none" THEN "handled" ELSE feed}
     \/ Refuse /\ UNCHANGED feed
  /\ UNCHANGED <<requestVars, session, unheard>>

\* publish_admin_event looks the admin up: without one the event is dropped.
LookUp ==
  /\ feed = "handled"
  /\ feed' = IF mapped THEN "addressed" ELSE "none"
  /\ unheard' = (unheard \/ (~ mapped /\ row.exists /\ row.active))
  /\ UNCHANGED <<limiterVars, requestVars, session>>

\* It is published, or an exception is logged.
Announce ==
  /\ feed = "addressed"
  /\ feed' = "none"
  /\ UNCHANGED <<limiterVars, requestVars, session, unheard>>

TimePasses == Tick /\ UNCHANGED <<requestVars, session, feed, unheard>>

-----------------------------------------------------------------------------
Next == \/ \E r \in Requests : \/ \E op \in Operations : Read(r, op)
                               \/ Flush(r)
                               \/ ChangeCache(r)
                               \/ Commit(r)
                               \/ Answer(r)
        \/ \E k \in 1 .. keys : Connect(k)
        \/ Disconnect
        \/ Event
        \/ LookUp
        \/ Announce
        \/ TimePasses

Spec == Init /\ [][Next]_vars

\* Time passes.
FairSpec == Spec /\ WF_vars(TimePasses)

-----------------------------------------------------------------------------
(* Properties *)

Steps == {"new", "read", "caching", "committing", "committed", "answered", "failed"}
Keys  == 1 .. keys
Rows  == [exists : BOOLEAN, active : BOOLEAN, key : Keys \cup {NoKey}]

TypeOK ==
  /\ LimiterTypeOK
  /\ row \in Rows
  /\ lock \in Requests \cup {NoRequest}
  /\ request \in [Requests -> [op : Operations \cup {"none"}, at : Steps, read : Rows,
                               key : Keys \cup {NoKey}]]
  /\ \A r \in Requests : lock = r => At(r) \in {"caching", "committing"} /\ Changes(r)
  /\ mapped \in BOOLEAN
  /\ keys \in Nat
  /\ session \in Keys \cup {NoKey}
  /\ feed \in {"none", "handled", "addressed"}
  /\ failures \in 0 .. MaxFailures
  /\ unheard \in BOOLEAN

Answered(r, op) == Op(r) = op /\ At(r) = "answered"

\* regenerate_bot_key: "Old key becomes invalid immediately."  Once the admin has the
\* answer no socket is authenticated with the key it replaced, whatever other requests do.
OldKeyRefused ==
  [][\A r \in Requests : Answered(r, "regenerate") /\ session' # NoKey /\ session = NoKey
       => session' # request[r].read.key]_vars

\* delete_bot: "Invalidate cache so events for this bot are no longer published".  Once it
\* is answered no event is addressed to the admin any more: no other request that was
\* under way restores the mapping.
DeletedIsSilent ==
  [][(\E r \in Requests : Answered(r, "delete")) => ~ (feed = "handled" /\ feed' = "addressed")]_vars

\* As long as nobody tries to delete it, the admin hears of the events of an active bot:
\* its mapping is in the cache before the first socket can be authenticated, and the requests
\* that fail half way leave no bot without.  (After a delete an enable does not restore
\* the mapping: see the README.)
HeardUnlessDeleted ==
  unheard => \E r \in Requests : Op(r) = "delete" /\ At(r) \notin {"read", "caching"}
=============================================================================
