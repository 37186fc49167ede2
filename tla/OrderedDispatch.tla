--------------------------- MODULE OrderedDispatch ---------------------------
(***************************************************************************)
(* What the real-time consumer promises about one conversation, whatever   *)
(* its tasks, queues and semaphore do: at most one of its events is in     *)
(* service, and events enter service in the order they were received.      *)
(* Events may be passed over (the consumer can lose events), but an event  *)
(* that was passed over or served never enters service again.              *)
(***************************************************************************)
EXTENDS Naturals

CONSTANTS Conversations,  \* conversation ids (the Kafka message keys)
          MaxMessages     \* bound: events received per conversation

VARIABLES received,    \* number of events received so far; events are numbered from 1
          begun,       \* number of the last event that entered service, 0 if none
          inService    \* number of the event in service, 0 if none

absVars == <<received, begun, inService>>

AbsInit == /\ received = [c \in Conversations |-> 0]
           /\ begun = [c \in Conversations |-> 0]
           /\ inService = [c \in Conversations |-> 0]

Accept(c) == /\ received[c] < MaxMessages
             /\ received' = [received EXCEPT ![c] = @ + 1]
             /\ UNCHANGED <<begun, inService>>

\* Event n enters service; the one in service before it, if any, is done.
Begin(c, n) == /\ n \in begun[c] + 1 .. received[c]
               /\ begun' = [begun EXCEPT ![c] = n]
               /\ inService' = [inService EXCEPT ![c] = n]
               /\ UNCHANGED received

Finish(c) == /\ inService[c] # 0
             /\ inService' = [inService EXCEPT ![c] = 0]
             /\ UNCHANGED <<received, begun>>

AbsNext == \E c \in Conversations :
              \/ Accept(c)
              \/ \E n \in 1 .. MaxMessages : Begin(c, n)
              \/ Finish(c)

AbsSpec == AbsInit /\ [][AbsNext]_absVars
=============================================================================
