------------------------ MODULE OnlineTrackerProofs ------------------------
(***************************************************************************)
(* Theorems about OnlineTracker for any conversations, users and agents    *)
(* and any number of gateways in chat_offline at once.                     *)
(***************************************************************************)
EXTENDS OnlineTracker, TLAPS

IInv == TypeOK /\ ListedWithRecord /\ RecordIsFound

\* A record has a user and an agent, and is not Nothing.
LEMMA RecordFacts ==
  ASSUME NEW m \in Record
  PROVE  /\ m # Nothing
         /\ m.user \in Users \cup {Nobody} /\ m.agent \in Agents \cup {Nobody}
         /\ \A a \in Agents : /\ [m EXCEPT !.agent = a] \in Record
                              /\ [m EXCEPT !.agent = a].user = m.user
                              /\ [m EXCEPT !.agent = a].agent = a
BY NothingIsNoRecord DEF Record

\* The records the operations make anew
LEMMA NewRecord ==
  ASSUME NEW u \in Users \cup {Nobody}, NEW a \in Agents \cup {Nobody}
  PROVE  [user |-> u, agent |-> a] \in Record /\ [user |-> u, agent |-> a] # Nothing
BY NothingIsNoRecord DEF Record

LEMMA InitInv == Init => IInv
BY DEF Init, IInv, TypeOK, ListedWithRecord, RecordIsFound

LEMMA ChatOnlineInv ==
  ASSUME IInv, NEW c \in Conversations, NEW u \in Users, ChatOnline(c, u)
  PROVE  IInv'
<1> DEFINE r == [user |-> u, agent |-> Nobody]
<1>1. r \in Record /\ r # Nothing /\ r.user = u /\ r.agent = Nobody /\ u # Nobody
  BY NewRecord, Assumptions DEF Assumptions
<1>2. /\ online' = online \cup {c} /\ ofUser' = [ofUser EXCEPT ![u] = ofUser[u] \cup {c}]
      /\ record' = [record EXCEPT ![c] = r]
      /\ UNCHANGED <<ofAgent, reading, resent, touching>>
  BY DEF ChatOnline
<1> HIDE DEF r
<1>3. TypeOK'
  BY <1>1, <1>2 DEF IInv, TypeOK
<1>4. ListedWithRecord'
  BY <1>1, <1>2 DEF IInv, TypeOK, ListedWithRecord
<1>5. RecordIsFound'
  BY <1>1, <1>2 DEF IInv, TypeOK, RecordIsFound
<1> QED BY <1>3, <1>4, <1>5 DEF IInv

LEMMA ChatAssignedInv ==
  ASSUME IInv, NEW c \in Conversations, NEW a \in Agents, ChatAssigned(c, a)
  PROVE  IInv'
<1>1. PICK r \in Record : /\ r # Nothing /\ r.agent = a
                          /\ record' = [record EXCEPT ![c] = r]
                          /\ record[c] = Nothing => r.user = Nobody
                          /\ record[c] # Nothing => r.user = record[c].user
  <2>1. CASE record[c] = Nothing
    <3> DEFINE r == [user |-> Nobody, agent |-> a]
    <3>1. r \in Record /\ r # Nothing /\ r.agent = a /\ r.user = Nobody
      BY NewRecord
    <3>2. record' = [record EXCEPT ![c] = r]
      BY <2>1 DEF ChatAssigned
    <3> HIDE DEF r
    <3> QED BY <2>1, <3>1, <3>2
  <2>2. CASE record[c] # Nothing
    <3>1. record[c] \in Record
      BY <2>2 DEF IInv, TypeOK
    <3> QED BY <2>2, <3>1, RecordFacts DEF ChatAssigned
  <2> QED BY <2>1, <2>2
<1>2. /\ ofAgent' = [ofAgent EXCEPT ![a] = ofAgent[a] \cup {c}]
      /\ UNCHANGED <<online, ofUser, reading, resent, touching>>
  BY DEF ChatAssigned
<1>3. TypeOK'
  BY <1>1, <1>2 DEF IInv, TypeOK
<1>4. ListedWithRecord'
  BY <1>1, <1>2 DEF IInv, TypeOK, ListedWithRecord
<1>5. RecordIsFound'
  BY <1>1, <1>2 DEF IInv, TypeOK, RecordIsFound
<1> QED BY <1>3, <1>4, <1>5 DEF IInv

\* Writing the time of a message, early or late
LEMMA TouchInv ==
  ASSUME IInv, NEW c \in Conversations, Touch(c),
         UNCHANGED <<online, ofUser, ofAgent, reading, resent>>,
         touching' \subseteq Conversations
  PROVE  IInv'
<1> DEFINE r == [user |-> Nobody, agent |-> Nobody]
<1>1. r \in Record /\ r # Nothing /\ r.user = Nobody /\ r.agent = Nobody
  BY NewRecord
<1>2. record' = [record EXCEPT ![c] = IF record[c] = Nothing THEN r ELSE record[c]]
  BY DEF Touch
<1> HIDE DEF r
<1>3. TypeOK'
  BY <1>1, <1>2 DEF IInv, TypeOK
<1>4. ListedWithRecord'
  BY <1>1, <1>2 DEF IInv, TypeOK, ListedWithRecord
<1>5. RecordIsFound'
  BY <1>1, <1>2 DEF IInv, TypeOK, RecordIsFound
<1> QED BY <1>3, <1>4, <1>5 DEF IInv

\* The pipeline of chat_offline deletes the record with the memberships, so that no
\* record is left to name what was removed, whatever was read.
LEMMA RemoveInv ==
  ASSUME IInv, NEW c \in Conversations, NEW m \in Record, Remove(c, m),
         UNCHANGED touching,
         reading' \in [Conversations -> [Callers -> Record \cup {Nothing}]],
         resent' \subseteq Conversations \X Callers
  PROVE  IInv'
<1>1. TypeOK'
  BY DEF Remove, IInv, TypeOK
<1>2. /\ record'[c] = Nothing /\ c \notin online'
      /\ \A d \in Conversations \ {c} : record'[d] = record[d] /\ (d \in online' <=> d \in online)
  BY DEF Remove, IInv, TypeOK
<1>3. ListedWithRecord'
  BY <1>2 DEF IInv, ListedWithRecord
<1>4. ASSUME NEW d \in Conversations, record'[d] # Nothing
      PROVE  /\ record'[d].user # Nobody => d \in ofUser'[record'[d].user]
             /\ record'[d].agent # Nobody => d \in ofAgent'[record'[d].agent]
  <2>1. d # c /\ record'[d] = record[d] /\ record[d] \in Record
    BY <1>2, <1>4 DEF IInv, TypeOK
  <2>2. /\ record[d].user # Nobody => record[d].user \in Users /\ d \in ofUser[record[d].user]
        /\ record[d].agent # Nobody => record[d].agent \in Agents /\ d \in ofAgent[record[d].agent]
    BY <1>4, <2>1, RecordFacts DEF IInv, RecordIsFound
  <2> QED BY <2>1, <2>2 DEF Remove
<1>5. RecordIsFound'
  BY <1>4 DEF RecordIsFound
<1> QED BY <1>1, <1>3, <1>5 DEF IInv

\* Steps that only change what callers remember
LEMMA CallersInv ==
  ASSUME IInv, UNCHANGED <<online, ofUser, ofAgent, record>>,
         reading' \in [Conversations -> [Callers -> Record \cup {Nothing}]],
         resent' \subseteq Conversations \X Callers,
         touching' \subseteq Conversations
  PROVE  IInv'
BY DEF IInv, TypeOK, ListedWithRecord, RecordIsFound

LEMMA NextInv == IInv /\ [Next]_vars => IInv'
<1> SUFFICES ASSUME IInv, [Next]_vars
             PROVE  IInv'
  OBVIOUS
<1>1. /\ reading \in [Conversations -> [Callers -> Record \cup {Nothing}]]
      /\ resent \subseteq Conversations \X Callers /\ touching \subseteq Conversations
      /\ \A c \in Conversations : record[c] \in Record \cup {Nothing}
      /\ \A c \in Conversations, k \in Callers : reading[c][k] \in Record \cup {Nothing}
  BY DEF IInv, TypeOK
<1>2. ASSUME NEW c \in Conversations, NEW u \in Users, ChatOnline(c, u)
      PROVE  IInv'
  BY <1>2, ChatOnlineInv
<1>3. ASSUME NEW c \in Conversations, NEW a \in Agents, ChatAssigned(c, a)
      PROVE  IInv'
  BY <1>3, ChatAssignedInv
<1>4. ASSUME NEW c \in Conversations, ChatMessageReceived(c) \/ LateTouch(c)
      PROVE  IInv'
  BY <1>1, <1>4, TouchInv DEF ChatMessageReceived, LateTouch
<1>5. ASSUME NEW c \in Conversations, HandlerAbandonsTouch(c)
      PROVE  IInv'
  BY <1>1, <1>5, CallersInv DEF HandlerAbandonsTouch
<1>6. ASSUME NEW c \in Conversations, NEW k \in Callers,
             ReadRecord(c, k) \/ ChatOfflineFails(c, k)
      PROVE  IInv'
  BY <1>1, <1>6, CallersInv DEF ReadRecord, ChatOfflineFails
<1>7. ASSUME NEW c \in Conversations, NEW k \in Callers,
             ChatOffline(c, k) \/ ChatOfflineTimesOut(c, k)
      PROVE  IInv'
  <2>1. reading[c][k] \in Record /\ Remove(c, reading[c][k]) /\ UNCHANGED touching
    BY <1>1, <1>7 DEF ChatOffline, ChatOfflineTimesOut
  <2>2. /\ reading' \in [Conversations -> [Callers -> Record \cup {Nothing}]]
        /\ resent' \subseteq Conversations \X Callers
    <3>1. CASE ChatOffline(c, k)
      BY <1>1, <3>1 DEF ChatOffline
    <3>2. CASE ChatOfflineTimesOut(c, k)
      <4>1. <<c, k>> \in Conversations \X Callers
        OBVIOUS
      <4> QED BY <1>1, <3>2, <4>1 DEF ChatOfflineTimesOut
    <3> QED BY <1>7, <3>1, <3>2
  <2>3. ASSUME NEW m \in Record, m = reading[c][k]
        PROVE  IInv'
    <3>1. Remove(c, m)
      BY <2>1, <2>3
    <3> QED BY <2>1, <2>2, <3>1, RemoveInv
  <2> QED BY <2>1, <2>3
<1>8. CASE UNCHANGED vars
  BY <1>1, <1>8, CallersInv DEF vars
<1> QED BY <1>2, <1>3, <1>4, <1>5, <1>6, <1>7, <1>8 DEF Next

LEMMA Invariance == Spec => []IInv
BY InitInv, NextInv, PTL DEF Spec

\* Every variable of the tracker has its type in every reachable state.
THEOREM TypeCorrect == Spec => []TypeOK
<1>1. IInv => TypeOK
  BY DEF IInv
<1> QED BY <1>1, Invariance, PTL

\* A chat is in online:chats exactly when its record names its user, however calls of
\* chat_offline by gateways and workers, restarts and late writes interleave.
THEOREM ListedWithRecordHolds == Spec => []ListedWithRecord
<1>1. IInv => ListedWithRecord
  BY DEF IInv
<1> QED BY <1>1, Invariance, PTL

\* The user and the agent a record names have the chat in their sets.
THEOREM RecordIsFoundHolds == Spec => []RecordIsFound
<1>1. IInv => RecordIsFound
  BY DEF IInv
<1> QED BY <1>1, Invariance, PTL
=============================================================================
