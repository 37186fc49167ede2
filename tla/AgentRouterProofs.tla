------------------------- MODULE AgentRouterProofs -------------------------
(***************************************************************************)
(* Theorems about AgentRouter for any agents, conversations and capacities *)
(* and any number of lost replies.                                         *)
(***************************************************************************)
EXTENDS AgentRouter, FiniteSetTheorems, TLAPS

\* What a worker in the middle of release_agent_slot holds: before the pipeline the
\* agent still recorded in chat:active, between its two executions one no longer there.
Holding ==
  \A c \in Conversations :
    /\ worker[c] = "releasing" => held[c] = assigned[c] /\ held[c] \in Agents
    /\ worker[c] = "retrying" => held[c] \in Agents /\ assigned[c] = NoAgent

\* The score of a fresh agent counts at least its chats, less what a release executed
\* twice took off it, and never exceeds its capacity.
Booking ==
  \A a \in fresh : /\ Cardinality(chatsOf[a]) <= score[a] + redone[a]
                   /\ score[a] <= Capacity[a]

IInv == TypeOK /\ Holding /\ AssignedIsListed /\ Booking

\* The sets of chats are finite, with sizes that change by at most one.
LEMMA ChatCount ==
  ASSUME TypeOK, NEW a \in Agents, NEW c \in Conversations
  PROVE  /\ Cardinality(chatsOf[a]) \in Nat
         /\ Cardinality(chatsOf[a] \cup {c}) \in Nat
         /\ Cardinality(chatsOf[a] \cup {c}) <= Cardinality(chatsOf[a]) + 1
         /\ Cardinality(chatsOf[a] \ {c}) \in Nat
         /\ Cardinality(chatsOf[a] \ {c}) <= Cardinality(chatsOf[a])
         /\ c \in chatsOf[a] => Cardinality(chatsOf[a] \ {c}) = Cardinality(chatsOf[a]) - 1
<1>1. IsFiniteSet(chatsOf[a])
  <2>1. chatsOf[a] \subseteq Conversations
    BY DEF TypeOK
  <2> QED BY <2>1, FS_Subset, Assumptions DEF Assumptions
<1>2. Cardinality(chatsOf[a]) \in Nat
  BY <1>1, FS_CardinalityType
<1>3. /\ IsFiniteSet(chatsOf[a] \cup {c})
      /\ Cardinality(chatsOf[a] \cup {c}) = Cardinality(chatsOf[a])
         \/ Cardinality(chatsOf[a] \cup {c}) = Cardinality(chatsOf[a]) + 1
  BY <1>1, FS_AddElement
<1>4. /\ IsFiniteSet(chatsOf[a] \ {c})
      /\ c \in chatsOf[a] => Cardinality(chatsOf[a] \ {c}) = Cardinality(chatsOf[a]) - 1
      /\ c \notin chatsOf[a] => Cardinality(chatsOf[a] \ {c}) = Cardinality(chatsOf[a])
  <2>1. c \in chatsOf[a] => Cardinality(chatsOf[a] \ {c}) = Cardinality(chatsOf[a]) - 1
    BY <1>1, FS_RemoveElement
  <2>2. c \notin chatsOf[a] => chatsOf[a] \ {c} = chatsOf[a]
    OBVIOUS
  <2>3. IsFiniteSet(chatsOf[a] \ {c})
    BY <1>1, FS_Subset
  <2> QED BY <2>1, <2>2, <2>3
<1>5. Cardinality(chatsOf[a] \cup {c}) \in Nat /\ Cardinality(chatsOf[a] \ {c}) \in Nat
  BY <1>3, <1>4, FS_CardinalityType
<1> QED BY <1>2, <1>3, <1>4, <1>5

LEMMA InitInv == Init => IInv
BY FS_EmptySet, Assumptions DEF Assumptions, Init, IInv, TypeOK, Holding, AssignedIsListed, Booking

LEMMA GoOnlineInv ==
  ASSUME IInv, NEW a \in Agents, GoOnline(a)
  PROVE  IInv'
<1>1. TypeOK'
  BY DEF GoOnline, IInv, TypeOK
<1>2. Holding' /\ AssignedIsListed'
  BY DEF GoOnline, IInv, Holding, AssignedIsListed
<1>3. Booking'
  <2>1. ASSUME NEW b \in fresh'
        PROVE  /\ Cardinality(chatsOf[b]) <= score'[b] + redone'[b]
               /\ score'[b] <= Capacity[b]
    <3>1. CASE b = a
      <4>1. chatsOf[a] = {} /\ score'[a] = 0 /\ redone'[a] = 0
        BY <2>1, <3>1 DEF GoOnline, IInv, TypeOK
      <4> QED BY <3>1, <4>1, FS_EmptySet, Assumptions DEF Assumptions
    <3>2. CASE b # a
      <4>1. b \in fresh /\ b \in Agents /\ score'[b] = score[b] /\ redone'[b] = redone[b]
        BY <2>1, <3>2 DEF GoOnline, IInv, TypeOK
      <4> QED BY <4>1 DEF IInv, Booking
    <3> QED BY <3>1, <3>2
  <2> QED BY <2>1 DEF Booking, GoOnline
<1> QED BY <1>1, <1>2, <1>3 DEF IInv

LEMMA GoOfflineInv ==
  ASSUME IInv, NEW a \in Agents, GoOffline(a)
  PROVE  IInv'
<1>1. TypeOK'
  BY DEF GoOffline, IInv, TypeOK
<1>2. Holding' /\ AssignedIsListed'
  BY DEF GoOffline, IInv, Holding, AssignedIsListed
<1>3. Booking'
  BY DEF GoOffline, IInv, TypeOK, Booking
<1> QED BY <1>1, <1>2, <1>3 DEF IInv

\* Steps that leave the pool and the assignments alone
LEMMA StatusInv ==
  ASSUME IInv, status' \subseteq Agents,
         UNCHANGED <<pool, score, chatsOf, assigned, worker, held, timeouts, fresh, redone>>
  PROVE  IInv'
BY DEF IInv, TypeOK, Holding, AssignedIsListed, Booking

LEMMA RouteInv ==
  ASSUME IInv, NEW c \in Conversations, NEW a \in Agents, Route(c, a)
  PROVE  IInv'
<1> DEFINE gone == {b \in Candidates \ status : Before(b, a)}
<1>1. /\ worker[c] = "free" /\ a \in pool /\ a \in status /\ score[a] < Capacity[a]
      /\ pool' = pool \ gone /\ fresh' = fresh \ gone
      /\ score' = [b \in Agents |-> IF b \in gone THEN 0
                                    ELSE IF b = a THEN score[b] + 1 ELSE score[b]]
      /\ chatsOf' = [chatsOf EXCEPT ![a] = chatsOf[a] \cup {c}]
      /\ assigned' = [assigned EXCEPT ![c] = a]
      /\ UNCHANGED <<status, worker, held, timeouts, redone>>
  BY DEF Route, Drop, Takes, Candidates
<1>2. a \notin gone
  BY <1>1
<1> HIDE DEF gone
<1>3. TypeOK'
  BY <1>1 DEF IInv, TypeOK
<1>4. Holding'
  BY <1>1 DEF IInv, TypeOK, Holding
<1>5. AssignedIsListed'
  BY <1>1 DEF IInv, TypeOK, AssignedIsListed
<1>6. Booking'
  <2>1. ASSUME NEW b \in fresh'
        PROVE  /\ Cardinality(chatsOf'[b]) <= score'[b] + redone[b]
               /\ score'[b] <= Capacity[b]
    <3>1. b \in fresh /\ b \in Agents /\ b \notin gone
      BY <1>1, <2>1 DEF IInv, TypeOK
    <3>2. /\ Cardinality(chatsOf[b]) <= score[b] + redone[b] /\ score[b] <= Capacity[b]
          /\ score[b] \in Int /\ redone[b] \in Nat /\ Capacity[b] \in Nat
      BY <3>1, Assumptions DEF Assumptions, IInv, TypeOK, Booking
    <3>3. CASE b = a
      <4>1. score'[b] = score[b] + 1 /\ chatsOf'[b] = chatsOf[b] \cup {c}
        BY <1>1, <1>2, <3>1, <3>3 DEF IInv, TypeOK
      <4>2. /\ Cardinality(chatsOf[b]) \in Nat /\ Cardinality(chatsOf[b] \cup {c}) \in Nat
            /\ Cardinality(chatsOf[b] \cup {c}) <= Cardinality(chatsOf[b]) + 1
        BY <3>1, ChatCount DEF IInv
      <4>3. score[b] + 1 <= Capacity[b]
        BY <1>1, <3>2, <3>3
      <4> QED BY <3>2, <4>1, <4>2, <4>3
    <3>4. CASE b # a
      <4>1. score'[b] = score[b] /\ chatsOf'[b] = chatsOf[b]
        BY <1>1, <3>1, <3>4 DEF IInv, TypeOK
      <4> QED BY <3>2, <4>1
    <3> QED BY <3>3, <3>4
  <2> QED BY <1>1, <2>1 DEF Booking
<1> QED BY <1>3, <1>4, <1>5, <1>6 DEF IInv

LEMMA RouteNobodyInv ==
  ASSUME IInv, NEW c \in Conversations, RouteNobody(c)
  PROVE  IInv'
<1> DEFINE gone == Candidates \ status
<1>1. /\ pool' = pool \ gone /\ fresh' = fresh \ gone
      /\ score' = [b \in Agents |-> IF b \in gone THEN 0 ELSE score[b]]
      /\ UNCHANGED <<status, chatsOf, assigned, worker, held, timeouts, redone>>
  BY DEF RouteNobody, Drop
<1> HIDE DEF gone
<1>2. TypeOK'
  BY <1>1 DEF IInv, TypeOK
<1>3. Holding' /\ AssignedIsListed'
  BY <1>1 DEF IInv, Holding, AssignedIsListed
<1>4. Booking'
  BY <1>1 DEF IInv, TypeOK, Booking
<1> QED BY <1>2, <1>3, <1>4 DEF IInv

\* Both executions of the pipeline: the first takes the chat from its agent's set, the
\* second finds it gone and is made up for in redone.
LEMMA ExecuteInv ==
  ASSUME IInv, NEW c \in Conversations, NEW a \in Agents, a = held[c], Execute(c),
         NEW extra \in 0 .. 1,
         redone' = [redone EXCEPT ![a] = redone[a] + extra],
         extra = 0 => c \in chatsOf[a],
         UNCHANGED <<status, fresh>>,
         timeouts' \in 0 .. MaxTimeouts,
         \/ /\ worker' = [worker EXCEPT ![c] = "free"]
            /\ held' = [held EXCEPT ![c] = NoAgent]
         \/ /\ worker' = [worker EXCEPT ![c] = "retrying"]
            /\ held' = held
  PROVE  IInv'
<1>1. /\ pool' = pool \cup {a} /\ score' = [score EXCEPT ![a] = score[a] - 1]
      /\ chatsOf' = [chatsOf EXCEPT ![a] = chatsOf[a] \ {c}]
      /\ assigned' = [assigned EXCEPT ![c] = NoAgent]
  BY DEF Execute
<1>2. TypeOK'
  BY <1>1 DEF IInv, TypeOK
<1>3. Holding'
  BY <1>1, Assumptions DEF Assumptions, IInv, TypeOK, Holding
<1>4. AssignedIsListed'
  BY <1>1 DEF IInv, TypeOK, AssignedIsListed
<1>5. Booking'
  <2>1. ASSUME NEW b \in fresh
        PROVE  /\ Cardinality(chatsOf'[b]) <= score'[b] + redone'[b]
               /\ score'[b] <= Capacity[b]
    <3>1. /\ b \in Agents /\ score[b] \in Int /\ redone[b] \in Nat /\ Capacity[b] \in Nat
          /\ Cardinality(chatsOf[b]) <= score[b] + redone[b] /\ score[b] <= Capacity[b]
      BY Assumptions DEF Assumptions, IInv, TypeOK, Booking
    <3>2. CASE b = a
      <4>1. /\ score'[b] = score[b] - 1 /\ redone'[b] = redone[b] + extra
            /\ chatsOf'[b] = chatsOf[b] \ {c}
        BY <1>1, <3>2 DEF IInv, TypeOK
      <4>2. /\ Cardinality(chatsOf[b]) \in Nat /\ Cardinality(chatsOf[b] \ {c}) \in Nat
            /\ Cardinality(chatsOf[b] \ {c}) <= Cardinality(chatsOf[b])
            /\ extra = 0 => Cardinality(chatsOf[b] \ {c}) = Cardinality(chatsOf[b]) - 1
        BY <3>2, ChatCount DEF IInv
      <4> QED BY <3>1, <4>1, <4>2
    <3>3. CASE b # a
      <4>1. score'[b] = score[b] /\ redone'[b] = redone[b] /\ chatsOf'[b] = chatsOf[b]
        BY <1>1, <3>1, <3>3 DEF IInv, TypeOK
      <4> QED BY <3>1, <4>1
    <3> QED BY <3>2, <3>3
  <2> QED BY <2>1 DEF Booking
<1> QED BY <1>2, <1>3, <1>4, <1>5 DEF IInv

LEMMA ReleaseInv ==
  ASSUME IInv, NEW c \in Conversations, Release(c) \/ ReleaseTimesOut(c) \/ ReleaseAgain(c)
  PROVE  IInv'
<1>1. held[c] \in Agents
  BY DEF Release, ReleaseTimesOut, ReleaseAgain, IInv, Holding
<1> SUFFICES ASSUME NEW a \in Agents, a = held[c]
             PROVE  IInv'
  BY <1>1
<1>2. redone = [redone EXCEPT ![a] = redone[a] + 0] /\ timeouts \in 0 .. MaxTimeouts
  BY DEF IInv, TypeOK
<1>3. worker[c] = "releasing" => c \in chatsOf[a]
  BY Assumptions DEF Assumptions, IInv, Holding, AssignedIsListed
<1>4. 0 \in 0 .. 1 /\ 1 \in 0 .. 1
  OBVIOUS
<1>5. CASE Release(c)
  <2>1. /\ Execute(c) /\ c \in chatsOf[a]
        /\ redone' = [redone EXCEPT ![a] = redone[a] + 0]
        /\ UNCHANGED <<status, fresh>> /\ timeouts' \in 0 .. MaxTimeouts
        /\ worker' = [worker EXCEPT ![c] = "free"] /\ held' = [held EXCEPT ![c] = NoAgent]
    BY <1>2, <1>3, <1>5 DEF Release, Settle
  <2> QED BY <1>4, <2>1, ExecuteInv
<1>6. CASE ReleaseTimesOut(c)
  <2>1. timeouts' \in 0 .. MaxTimeouts
    BY <1>2, <1>6, Assumptions DEF Assumptions, ReleaseTimesOut
  <2>2. /\ Execute(c) /\ c \in chatsOf[a]
        /\ redone' = [redone EXCEPT ![a] = redone[a] + 0]
        /\ UNCHANGED <<status, fresh>>
        /\ worker' = [worker EXCEPT ![c] = "retrying"] /\ held' = held
    BY <1>2, <1>3, <1>6 DEF ReleaseTimesOut
  <2> QED BY <1>4, <2>1, <2>2, ExecuteInv
<1>7. CASE ReleaseAgain(c)
  <2>1. /\ Execute(c) /\ redone' = [redone EXCEPT ![a] = redone[a] + 1]
        /\ UNCHANGED <<status, fresh>> /\ timeouts' \in 0 .. MaxTimeouts
        /\ worker' = [worker EXCEPT ![c] = "free"] /\ held' = [held EXCEPT ![c] = NoAgent]
    BY <1>2, <1>7 DEF ReleaseAgain, Settle
  <2>2. 1 = 0 => c \in chatsOf[a]
    OBVIOUS
  <2> QED BY <1>4, <2>1, <2>2, ExecuteInv
<1> QED BY <1>5, <1>6, <1>7

\* Steps that change only how far the worker of c has got
LEMMA WorkerInv ==
  ASSUME IInv, NEW c \in Conversations, FindAgent(c) \/ ReleaseFails(c)
  PROVE  IInv'
<1>1. TypeOK'
  BY DEF FindAgent, ReleaseFails, Settle, IInv, TypeOK
<1>2. Holding'
  BY Assumptions DEF Assumptions, FindAgent, ReleaseFails, Settle, IInv, TypeOK, Holding
<1>3. AssignedIsListed' /\ Booking'
  BY DEF FindAgent, ReleaseFails, Settle, IInv, AssignedIsListed, Booking
<1> QED BY <1>1, <1>2, <1>3 DEF IInv

LEMMA NextInv == IInv /\ [Next]_vars => IInv'
<1> SUFFICES ASSUME IInv, [Next]_vars
             PROVE  IInv'
  OBVIOUS
<1>1. ASSUME NEW a \in Agents, GoOnline(a)
      PROVE  IInv'
  BY <1>1, GoOnlineInv
<1>2. ASSUME NEW a \in Agents, GoOffline(a)
      PROVE  IInv'
  BY <1>2, GoOfflineInv
<1>3. ASSUME NEW a \in Agents, Heartbeat(a) \/ Expire(a)
      PROVE  IInv'
  BY <1>3, StatusInv DEF Heartbeat, Expire, IInv, TypeOK
<1>4. ASSUME NEW c \in Conversations, NEW a \in Agents, Route(c, a)
      PROVE  IInv'
  BY <1>4, RouteInv
<1>5. ASSUME NEW c \in Conversations, RouteNobody(c)
      PROVE  IInv'
  BY <1>5, RouteNobodyInv
<1>6. ASSUME NEW c \in Conversations, Release(c) \/ ReleaseTimesOut(c) \/ ReleaseAgain(c)
      PROVE  IInv'
  BY <1>6, ReleaseInv
<1>7. ASSUME NEW c \in Conversations, FindAgent(c) \/ ReleaseFails(c)
      PROVE  IInv'
  BY <1>7, WorkerInv
<1>8. CASE UNCHANGED vars
  BY <1>8, StatusInv DEF vars, IInv, TypeOK
<1> QED BY <1>1, <1>2, <1>3, <1>4, <1>5, <1>6, <1>7, <1>8 DEF Next

LEMMA Invariance == Spec => []IInv
BY InitInv, NextInv, PTL DEF Spec

\* Every variable of the routing state has its type in every reachable state.
THEOREM TypeCorrect == Spec => []TypeOK
<1>1. IInv => TypeOK
  BY DEF IInv
<1> QED BY <1>1, Invariance, PTL

\* The agent in chat:active always has the conversation among its chats, although
\* release_agent_slot reads and writes in two steps and may be executed twice.
THEOREM AssignedIsListedHolds == Spec => []AssignedIsListed
<1>1. IInv => AssignedIsListed
  BY DEF IInv
<1> QED BY <1>1, Invariance, PTL

\* An agent that came online with no chats and stayed in the pool never has more than
\* max_chats chats, but for one per release that was executed twice.
THEOREM NoOverbookingHolds == Spec => []NoOverbooking
<1>1. ASSUME IInv
      PROVE  NoOverbooking
  <2>1. ASSUME NEW a \in fresh
        PROVE  Cardinality(chatsOf[a]) <= Capacity[a] + redone[a]
    <3>1. /\ a \in Agents /\ score[a] \in Int /\ redone[a] \in Nat /\ Capacity[a] \in Nat
          /\ Cardinality(chatsOf[a]) <= score[a] + redone[a] /\ score[a] <= Capacity[a]
      BY <1>1, Assumptions DEF Assumptions, IInv, TypeOK, Booking
    <3>2. Cardinality(chatsOf[a]) \in Nat
      <4>1. chatsOf[a] \subseteq Conversations
        BY <1>1, <3>1 DEF IInv, TypeOK
      <4> QED BY <4>1, FS_Subset, FS_CardinalityType, Assumptions DEF Assumptions
    <3> QED BY <3>1, <3>2
  <2> QED BY <2>1 DEF NoOverbooking
<1> QED BY <1>1, Invariance, PTL
=============================================================================
