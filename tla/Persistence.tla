---------------------------- MODULE Persistence ----------------------------
(***************************************************************************)
(* The persistence worker, consumer/persistence_worker.py: one loop that   *)
(* takes the records of the topic chat-persist one after another and runs  *)
(* the statements of their handler on Cassandra, three times if need be,   *)
(* before the record goes to the dead-letter topic.                        *)
(*                                                                         *)
(* The client library commits the consumer's position by a timer and when  *)
(* the consumer is stopped, whether or not the record before it has been   *)
(* handled; a process that is restarted resumes at the committed offset.   *)
(* The statements of one handler are separate steps.  A statement that     *)
(* raises may have been executed (a timeout, a cancelled wait).            *)
(*                                                                         *)
(* One partition, and the records of one conversation: records of other    *)
(* conversations write other rows.                                         *)
(***************************************************************************)
EXTENDS Naturals, Sequences, FiniteSets

CONSTANTS
  Published,    \* kinds of records that are published
  MaxRecords,   \* bound: records in the topic
  MaxFailures,  \* bound: statements and dead letters that fail or time out
  MaxRestarts   \* bound: stops and crashes

\* (A variant: the message is counted first.)
WritesCountFirst ==
  [incoming   |-> <<"unread", "messages", "preview">>,
   outgoing   |-> <<"unread_of_nobody", "messages", "preview">>,
   chat_start |-> <<"conversations_by_user", "agent_queue">>,
   chat_end   |-> <<"conversations">>,
   delivered  |-> <<"message_acks">>,
   read       |-> <<"message_acks", "unread">>,
   assignment |-> <<"agent_assignments">>,
   unknown    |-> <<>>]

\* _PERSIST_HANDLERS: what each writes, in order.  (Data that does not parse, or has no
\* known type, is "unknown".)
Writes == [incoming   |-> <<"messages", "preview", "unread">>,
           outgoing   |-> <<"messages", "preview", "unread_of_nobody">>,
           chat_start |-> <<"conversations_by_user", "agent_queue">>,
           chat_end   |-> <<"conversations">>,
           delivered  |-> <<"message_acks">>,
           read       |-> <<"message_acks", "unread">>,
           assignment |-> <<"agent_assignments">>,
           unknown    |-> <<>>]

\* Cassandra refuses a statement that does not give the whole partition key of its table
\* (message_acks has a bucket in it), and an empty key (an agent's message counts as
\* unread for the user "").  (The others are taken to be executable as intended.  As they
\* are written, db_execute prepares them with %s for placeholders, where CQL has ?; were
\* they refused too, every record would go the way of these.)
Refused == {"message_acks", "unread_of_nobody"}

ASSUME Assumptions ==
  /\ Published \subseteq DOMAIN Writes
  /\ MaxRecords \in Nat
  /\ MaxFailures \in Nat
  /\ MaxRestarts \in Nat

MaxRetries == 3

VARIABLES
  topic,      \* the kinds of the records of chat-persist
  position,   \* the record the loop takes next
  committed,  \* where a restarted consumer resumes
  phase,      \* where the process is
  step,       \* the statement of the handler that is being executed
  attempt,    \* how often the handler has raised
  written,    \* pairs <<record, statement>> that were executed
  counted,    \* record -> how often its message was added to the unread count
  preview,    \* the record last_message_preview is of, or 0
  dead,       \* records in the dead-letter topic
  failures,   \* number of failures so far
  restarts,   \* number of stops and crashes so far
  delivered,  \* history: record -> how often the loop took it
  uncertain,  \* history: record -> how often its count raised although executed
  abandoned   \* history: records in hand at a stop or crash, or whose dead letter failed

tables  == <<written, counted, preview>>
history == <<delivered, uncertain, abandoned>>
vars == <<topic, position, committed, phase, step, attempt, tables, dead, failures,
          restarts, history>>

Records == 1 .. MaxRecords

Init == /\ topic = <<>>
        /\ position = 1
        /\ committed = 1
        /\ phase = "down"
        /\ step = 1
        /\ attempt = 0
        /\ written = {}
        /\ counted = [r \in Records |-> 0]
        /\ preview = 0
        /\ dead = {}
        /\ failures = 0
        /\ restarts = 0
        /\ delivered = [r \in Records |-> 0]
        /\ uncertain = [r \in Records |-> 0]
        /\ abandoned = {}

\* The record in hand: the position has moved past it already.
Current   == position - 1
Handling  == phase \in {"writing", "waiting", "burying"}
Statement == Writes[topic[Current]][step]

Failure == failures < MaxFailures /\ failures' = failures + 1

-----------------------------------------------------------------------------
(* Handlers of events publish records, one after another for a conversation. *)

Publish(kind) ==
  /\ Len(topic) < MaxRecords
  /\ topic' = Append(topic, kind)
  /\ UNCHANGED <<position, committed, phase, step, attempt, tables, dead, failures,
                 restarts, history>>

-----------------------------------------------------------------------------
(* _consume_loop *)

\* A variant of the definition below: the handler of unknown records is called all the same.
TakeUnknown ==
  /\ phase = "idle"
  /\ position <= Len(topic)
  /\ position' = position + 1
  /\ phase' = "writing"
  /\ step' = 1
  /\ attempt' = 0
  /\ delivered' = [delivered EXCEPT ![position] = @ + 1]
  /\ UNCHANGED <<topic, committed, tables, dead, failures, restarts, uncertain, abandoned>>

\* The next record is taken.  One of unknown type is dropped.
Take ==
  /\ phase = "idle"
  /\ position <= Len(topic)
  /\ position' = position + 1
  /\ phase' = IF topic[position] = "unknown" THEN "idle" ELSE "writing"
  /\ step' = 1
  /\ attempt' = 0
  /\ delivered' = [delivered EXCEPT ![position] = @ + 1]
  /\ UNCHANGED <<topic, committed, tables, dead, failures, restarts, uncertain, abandoned>>

\* The statement takes effect.
Execute ==
  /\ written' = written \cup {<<Current, step>>}
  /\ counted' = IF Statement = "unread" THEN [counted EXCEPT ![Current] = @ + 1] ELSE counted
  /\ preview' = IF Statement = "preview" THEN Current ELSE preview

\* It returns: on to the next one, or the handler has returned.
Write ==
  /\ phase = "writing"
  /\ Statement \notin Refused
  /\ Execute
  /\ IF step = Len(Writes[topic[Current]])
       THEN phase' = "idle" /\ step' = 1
       ELSE phase' = "writing" /\ step' = step + 1
  /\ UNCHANGED <<topic, position, committed, attempt, dead, failures, restarts, history>>

\* (Variants: attempts without end; no dead letter.)
RetryForever ==
  /\ phase' = "waiting" /\ step' = 1
  /\ UNCHANGED attempt

GiveUp ==
  /\ attempt' = attempt + 1
  /\ phase' = IF attempt + 1 < MaxRetries THEN "waiting" ELSE "idle"
  /\ step' = 1

\* The handler has raised: it is run again from its first statement, after a while.
Retry ==
  /\ attempt' = attempt + 1
  /\ phase' = IF attempt + 1 < MaxRetries THEN "waiting" ELSE "burying"
  /\ step' = 1

WriteRefused ==
  /\ phase = "writing"
  /\ Statement \in Refused
  /\ Retry
  /\ UNCHANGED <<topic, position, committed, tables, dead, failures, restarts, history>>

WriteFails ==
  /\ phase = "writing"
  /\ Statement \notin Refused
  /\ Failure
  /\ Retry
  /\ UNCHANGED <<topic, position, committed, tables, dead, restarts, history>>

\* Executed, but no answer in time
WriteTimesOut ==
  /\ phase = "writing"
  /\ Statement \notin Refused
  /\ Failure
  /\ Execute
  /\ uncertain' = IF Statement = "unread" THEN [uncertain EXCEPT ![Current] = @ + 1]
                                           ELSE uncertain
  /\ Retry
  /\ UNCHANGED <<topic, position, committed, dead, restarts, delivered, abandoned>>

BackoffEnds ==
  /\ phase = "waiting"
  /\ phase' = "writing"
  /\ UNCHANGED <<topic, position, committed, step, attempt, tables, dead, failures,
                 restarts, history>>

\* _send_to_dlq
Bury ==
  /\ phase = "burying"
  /\ dead' = dead \cup {Current}
  /\ phase' = "idle"
  /\ UNCHANGED <<topic, position, committed, step, attempt, tables, failures, restarts,
                 history>>

\* Its exceptions are logged: the record may be in no table and no topic.
BuryFails ==
  /\ phase = "burying"
  /\ Failure
  /\ dead' \in {dead, dead \cup {Current}}
  /\ phase' = "idle"
  /\ abandoned' = abandoned \cup {Current}
  /\ UNCHANGED <<topic, position, committed, step, attempt, tables, restarts, delivered,
                 uncertain>>

-----------------------------------------------------------------------------
(* Offsets, stops and crashes *)

\* enable_auto_commit: the timer commits the position, wherever the loop is.
AutoCommit ==
  /\ phase # "down"
  /\ committed' = position
  /\ UNCHANGED <<topic, position, phase, step, attempt, tables, dead, failures, restarts,
                 history>>

\* What was sent to Cassandra or Kafka and not waited for may take effect.
InFlight ==
  /\ \/ UNCHANGED tables
     \/ phase = "writing" /\ Statement \notin Refused /\ Execute
  /\ \/ UNCHANGED dead
     \/ phase = "burying" /\ dead' = dead \cup {Current}

Interruption ==
  /\ restarts < MaxRestarts
  /\ restarts' = restarts + 1
  /\ abandoned' = IF Handling THEN abandoned \cup {Current} ELSE abandoned

\* stop_persistence_worker: the task is cancelled wherever it waits.  (No "except
\* Exception" on the way catches that.)
StopTask ==
  /\ phase = "idle" \/ Handling
  /\ Interruption
  /\ InFlight
  /\ phase' = "cancelled"
  /\ step' = 1
  /\ attempt' = 0
  /\ UNCHANGED <<topic, position, committed, failures, delivered, uncertain>>

\* Stopping the consumer commits its position, if Kafka answers.
StopConsumer ==
  /\ phase = "cancelled"
  /\ committed' \in {position, committed}
  /\ position' = committed'
  /\ phase' = "down"
  /\ UNCHANGED <<topic, step, attempt, tables, dead, failures, restarts, history>>

Crash ==
  /\ phase # "down"
  /\ \/ phase # "cancelled" /\ Interruption
     \/ phase = "cancelled" /\ UNCHANGED <<restarts, abandoned>>
  /\ InFlight
  /\ phase' = "down"
  /\ step' = 1
  /\ attempt' = 0
  /\ position' = committed
  /\ UNCHANGED <<topic, committed, failures, delivered, uncertain>>

\* A variant of the definition below: new consumers begin at the end of the topic.
StartAtEnd ==
  /\ phase = "down"
  /\ phase' = "idle"
  /\ position' = Len(topic) + 1
  /\ UNCHANGED <<topic, committed, step, attempt, tables, dead, failures, restarts, history>>

\* start_persistence_worker: from the committed offset, at first from the earliest
Start ==
  /\ phase = "down"
  /\ phase' = "idle"
  /\ UNCHANGED <<topic, position, committed, step, attempt, tables, dead, failures,
                 restarts, history>>

-----------------------------------------------------------------------------
Answer == Write \/ WriteRefused \/ WriteFails \/ WriteTimesOut

Next == \/ \E kind \in Published : Publish(kind)
        \/ Take
        \/ Write
        \/ WriteRefused
        \/ WriteFails
        \/ WriteTimesOut
        \/ BackoffEnds
        \/ Bury
        \/ BuryFails
        \/ AutoCommit
        \/ StopTask
        \/ StopConsumer
        \/ Crash
        \/ Start

Spec == Init /\ [][Next]_vars

\* The loop runs, the driver answers or times out (its requests have a timeout of their
\* own), a sleep ends, and systemd restarts the process.
Fairness == /\ WF_vars(Take)
            /\ WF_vars(Answer)
            /\ WF_vars(BackoffEnds)
            /\ WF_vars(Bury \/ BuryFails)
            /\ WF_vars(StopConsumer)
            /\ WF_vars(Start)

FairSpec == Spec /\ Fairness

-----------------------------------------------------------------------------
(* Properties *)

TypeOK ==
  /\ topic \in Seq(DOMAIN Writes) /\ Len(topic) <= MaxRecords
  /\ position \in 1 .. Len(topic) + 1
  /\ committed \in 1 .. position
  /\ phase \in {"down", "idle", "writing", "waiting", "burying", "cancelled"}
  /\ step \in 1 .. 3
  /\ attempt \in 0 .. MaxRetries
  /\ Handling => Current \in 1 .. Len(topic) /\ step <= Len(Writes[topic[Current]])
  /\ written \subseteq Records \X (1 .. 3)
  /\ counted \in [Records -> Nat]
  /\ preview \in 0 .. Len(topic)
  /\ dead \subseteq 1 .. Len(topic)
  /\ failures \in 0 .. MaxFailures
  /\ restarts \in 0 .. MaxRestarts
  /\ delivered \in [Records -> Nat]
  /\ uncertain \in [Records -> Nat]
  /\ abandoned \subseteq 1 .. Len(topic)

Complete(r) == \A i \in 1 .. Len(Writes[topic[r]]) : <<r, i>> \in written

\* Records the consumer has left behind that are in neither the tables nor the topic of
\* dead letters.
Missing == {r \in 1 .. position - 1 : /\ ~ (Handling /\ r = Current)
                                      /\ ~ Complete(r)
                                      /\ r \notin dead}

\* "Includes retry with exponential backoff and dead-letter topic for failed writes":
\* whatever the timer commits, a stop or a crash loses no record but the one in hand, and
\* otherwise only one whose dead letter failed is lost.
OnlyAbandonedMissing ==
  /\ Missing \subseteq abandoned
  /\ Cardinality(Missing) <= restarts + failures

\* The unread count is the one write that is no upsert.  It is the last of its handler, so
\* a message is counted more than once only where a count that was executed raised, or
\* where the record was delivered again; retries of the other statements add nothing.
CountedOncePerDelivery ==
  \A r \in Records : counted[r] <= delivered[r] + uncertain[r]

\* A conversation's preview shows the newest message, also after records were delivered
\* again and wrote older previews over it, unless that message was given up.
Messages == {r \in 1 .. Len(topic) : topic[r] \in {"incoming", "outgoing"}}

PreviewIsNewest ==
  phase = "idle" /\ position = Len(topic) + 1 =>
    \A r \in Messages : (\A q \in Messages : q <= r) => preview = r \/ r \in dead \cup abandoned

\* Every record is taken and left behind: none blocks those after it, not one that can
\* never be written either.
Drains == \A r \in Records : Len(topic) >= r ~> phase = "idle" /\ position > r
=============================================================================
