--------------------- MODULE ConversationWorkersProofs ---------------------
(***************************************************************************)
(* Theorems about ConversationWorkers for any number of conversations and  *)
(* tasks, any queue size and any number of permits.  The first part is     *)
(* about sequences of queue items, the second states the inductive         *)
(* invariant, the third proves it action by action.                        *)
(***************************************************************************)
EXTENDS ConversationWorkers, FiniteSetTheorems, TLAPS

Item == Message \cup {None}

-----------------------------------------------------------------------------
(* Sequences of queue items *)

\* All events of s have numbers in lo + 1 .. hi.
Within(s, lo, hi) == \A i \in 1 .. Len(s) : s[i] # None => s[i].id \in lo + 1 .. hi

\* The events of s are in the order of their numbers.
Sorted(s) == \A i, j \in 1 .. Len(s) :
                i < j /\ s[i] # None /\ s[j] # None => s[i].id < s[j].id

\* All items of s have numbers below n.
Below(s, n) == \A i \in 1 .. Len(s) : s[i].id < n

HasSentinel(s) == \E i \in 1 .. Len(s) : s[i] = None

\* The events of s, or those of them behind a sentinel, come after the chat_end e.
After(s, e)  == \A i \in 1 .. Len(s) : s[i] # None => e \in 1 .. s[i].id - 1
Behind(s, e) == \A i, j \in 1 .. Len(s) :
                   i < j /\ s[i] = None /\ s[j] # None => e \in 1 .. s[j].id - 1

\* The identity of a sentinel tells it from every event.
LEMMA ItemFacts ==
  ASSUME NEW x \in Item
  PROVE  /\ x.id \in 0 .. MaxMessages
         /\ x # None <=> x \in Message
         /\ x # None => x.id \in 1 .. MaxMessages
BY Assumptions DEF Item, Message, None, Kinds

\* What Append does, index by index
LEMMA AppendFacts ==
  ASSUME NEW s \in Seq(Item), NEW x \in Item
  PROVE  /\ Append(s, x) \in Seq(Item)
         /\ Len(Append(s, x)) = Len(s) + 1
         /\ Len(s) \in Nat
         /\ \A i \in 1 .. Len(s) : Append(s, x)[i] = s[i] /\ s[i] \in Item
         /\ Append(s, x)[Len(s) + 1] = x
OBVIOUS

\* What Head and Tail do, index by index
LEMMA TailFacts ==
  ASSUME NEW s \in Seq(Item), s # <<>>
  PROVE  /\ Tail(s) \in Seq(Item)
         /\ Len(s) \in Nat \ {0}
         /\ Len(Tail(s)) = Len(s) - 1
         /\ Head(s) = s[1]
         /\ \A i \in 1 .. Len(s) : s[i] \in Item
         /\ \A i \in 1 .. Len(Tail(s)) : Tail(s)[i] = s[i + 1]
OBVIOUS

\* Put of an event newer than all that is in the queue
LEMMA PutEvent ==
  ASSUME NEW s \in Seq(Item), NEW m \in Message, Below(s, m.id)
  PROVE  /\ \A lo, hi \in Nat : Within(s, lo, hi) /\ hi <= m.id /\ lo < m.id
                                  => Within(Put(s, m), lo, m.id)
         /\ Sorted(s) => Sorted(Put(s, m))
         /\ \A e \in Nat : /\ Behind(s, e)
                           /\ HasSentinel(s) => e # 0
                           /\ e < m.id
                           => Behind(Put(s, m), e)
         /\ HasSentinel(Put(s, m)) => HasSentinel(s)
         /\ \A e \in Nat : After(s, e) /\ e \in 1 .. m.id - 1 => After(Put(s, m), e)
<1>1. m \in Item /\ m # None /\ m.id \in 1 .. MaxMessages
  BY ItemFacts DEF Item, Message, None
<1>2. /\ Len(Put(s, m)) = Len(s) + 1 /\ Len(s) \in Nat
      /\ \A i \in 1 .. Len(s) : Put(s, m)[i] = s[i] /\ s[i] \in Item
      /\ Put(s, m)[Len(s) + 1] = m
  BY <1>1, AppendFacts DEF Put
<1>3. \A i \in 1 .. Len(s) : s[i].id \in Nat /\ s[i].id < m.id
  BY <1>2, ItemFacts DEF Below
<1>4. ASSUME NEW lo \in Nat, NEW hi \in Nat, Within(s, lo, hi), hi <= m.id, lo < m.id
      PROVE  Within(Put(s, m), lo, m.id)
  BY <1>1, <1>2, <1>3, <1>4 DEF Within
<1>5. ASSUME Sorted(s)
      PROVE  Sorted(Put(s, m))
  <2>1. ASSUME NEW i \in 1 .. Len(s) + 1, NEW j \in 1 .. Len(s) + 1, i < j,
               Put(s, m)[i] # None, Put(s, m)[j] # None
        PROVE  Put(s, m)[i].id < Put(s, m)[j].id
    <3>1. CASE j = Len(s) + 1
      BY <1>2, <1>3, <2>1, <3>1
    <3>2. CASE j # Len(s) + 1
      <4>1. i \in 1 .. Len(s) /\ j \in 1 .. Len(s)
        BY <1>2, <2>1, <3>2
      <4> QED BY <1>2, <1>5, <2>1, <4>1 DEF Sorted
    <3> QED BY <3>1, <3>2
  <2> QED BY <1>2, <2>1 DEF Sorted
<1>6. ASSUME NEW e \in Nat, Behind(s, e), HasSentinel(s) => e # 0, e < m.id
      PROVE  Behind(Put(s, m), e)
  <2>1. ASSUME NEW i \in 1 .. Len(s) + 1, NEW j \in 1 .. Len(s) + 1, i < j,
               Put(s, m)[i] = None, Put(s, m)[j] # None
        PROVE  e \in 1 .. Put(s, m)[j].id - 1
    <3>1. i \in 1 .. Len(s) /\ s[i] = None
      BY <1>2, <2>1
    <3>2. CASE j = Len(s) + 1
      <4>1. e # 0
        BY <1>6, <3>1 DEF HasSentinel
      <4>2. Put(s, m)[j].id = m.id /\ m.id \in Nat
        BY <1>1, <1>2, <3>2
      <4> QED BY <1>6, <4>1, <4>2
    <3>3. CASE j # Len(s) + 1
      <4>1. j \in 1 .. Len(s)
        BY <1>2, <2>1, <3>3
      <4> QED BY <1>2, <1>6, <2>1, <3>1, <4>1 DEF Behind
    <3> QED BY <3>2, <3>3
  <2> QED BY <1>2, <2>1 DEF Behind
<1>7. HasSentinel(Put(s, m)) => HasSentinel(s)
  BY <1>1, <1>2 DEF HasSentinel
<1>8. ASSUME NEW e \in Nat, After(s, e), e \in 1 .. m.id - 1
      PROVE  After(Put(s, m), e)
  <2>1. ASSUME NEW i \in 1 .. Len(s) + 1, Put(s, m)[i] # None
        PROVE  e \in 1 .. Put(s, m)[i].id - 1
    <3>1. CASE i = Len(s) + 1
      BY <1>2, <1>8, <3>1
    <3>2. CASE i # Len(s) + 1
      <4>1. i \in 1 .. Len(s)
        BY <1>2, <3>2
      <4> QED BY <1>2, <1>8, <2>1, <4>1 DEF After
    <3> QED BY <3>1, <3>2
  <2> QED BY <1>2, <2>1 DEF After
<1> QED BY <1>4, <1>5, <1>6, <1>7, <1>8

\* Put of a sentinel
LEMMA PutSentinel ==
  ASSUME NEW s \in Seq(Item)
  PROVE  /\ \A lo, hi \in Nat : Within(s, lo, hi) => Within(Put(s, None), lo, hi)
         /\ Sorted(s) => Sorted(Put(s, None))
         /\ \A n \in Nat : Below(s, n) /\ n > 0 => Below(Put(s, None), n)
         /\ \A e \in Nat : Behind(s, e) => Behind(Put(s, None), e)
         /\ \A e \in Nat : After(s, e) => After(Put(s, None), e)
<1>1. None \in Item /\ None.id = 0
  BY DEF Item, None
<1>2. /\ Len(Put(s, None)) = Len(s) + 1 /\ Len(s) \in Nat
      /\ \A i \in 1 .. Len(s) : Put(s, None)[i] = s[i] /\ s[i] \in Item
      /\ Put(s, None)[Len(s) + 1] = None
  BY <1>1, AppendFacts DEF Put
<1>3. \A lo, hi \in Nat : Within(s, lo, hi) => Within(Put(s, None), lo, hi)
  BY <1>2 DEF Within
<1>4. Sorted(s) => Sorted(Put(s, None))
  BY <1>2 DEF Sorted
<1>5. \A n \in Nat : Below(s, n) /\ n > 0 => Below(Put(s, None), n)
  BY <1>1, <1>2 DEF Below
<1>6. \A e \in Nat : Behind(s, e) => Behind(Put(s, None), e)
  BY <1>2 DEF Behind
<1>7. \A e \in Nat : After(s, e) => After(Put(s, None), e)
  BY <1>2 DEF After
<1> QED BY <1>3, <1>4, <1>5, <1>6, <1>7

\* get() of the first item of a queue
LEMMA GetFirst ==
  ASSUME NEW s \in Seq(Item), s # <<>>
  PROVE  /\ Head(s) \in Item /\ Tail(s) \in Seq(Item) /\ Len(Tail(s)) < Len(s)
         /\ \A lo, hi \in Nat : Within(s, lo, hi) =>
              /\ Within(Tail(s), lo, hi)
              /\ Head(s) # None => Head(s).id \in lo + 1 .. hi
              /\ Head(s) # None /\ Sorted(s) => Within(Tail(s), Head(s).id, hi)
         /\ Sorted(s) => Sorted(Tail(s))
         /\ \A n \in Nat : Below(s, n) => Below(Tail(s), n) /\ Head(s).id < n
         /\ \A e \in Nat : Behind(s, e) => Behind(Tail(s), e)
         /\ \A e \in Nat : Behind(s, e) /\ Head(s) = None => After(Tail(s), e)
         /\ HasSentinel(Tail(s)) \/ Head(s) = None => HasSentinel(s)
<1>1. /\ Tail(s) \in Seq(Item) /\ Len(s) \in Nat \ {0} /\ Len(Tail(s)) = Len(s) - 1
      /\ Head(s) = s[1]
      /\ \A i \in 1 .. Len(s) : s[i] \in Item
      /\ \A i \in 1 .. Len(Tail(s)) : Tail(s)[i] = s[i + 1]
  BY TailFacts
<1>2. \A i \in 1 .. Len(s) : s[i].id \in Nat
  BY <1>1, ItemFacts
<1>3. ASSUME NEW lo \in Nat, NEW hi \in Nat, Within(s, lo, hi)
      PROVE  /\ Within(Tail(s), lo, hi)
             /\ Head(s) # None => Head(s).id \in lo + 1 .. hi
             /\ Head(s) # None /\ Sorted(s) => Within(Tail(s), Head(s).id, hi)
  <2>1. Within(Tail(s), lo, hi)
    BY <1>1, <1>2, <1>3 DEF Within
  <2>2. Head(s) # None => Head(s).id \in lo + 1 .. hi
    BY <1>1, <1>2, <1>3 DEF Within
  <2>3. ASSUME Head(s) # None, Sorted(s), NEW i \in 1 .. Len(Tail(s)), Tail(s)[i] # None
        PROVE  Tail(s)[i].id \in Head(s).id + 1 .. hi
    BY <1>1, <1>2, <1>3, <2>3 DEF Within, Sorted
  <2> QED BY <2>1, <2>2, <2>3 DEF Within
<1>4. Sorted(s) => Sorted(Tail(s))
  BY <1>1 DEF Sorted
<1>5. \A n \in Nat : Below(s, n) => Below(Tail(s), n) /\ Head(s).id < n
  BY <1>1, <1>2 DEF Below
<1>6. \A e \in Nat : Behind(s, e) => Behind(Tail(s), e)
  BY <1>1 DEF Behind
<1>7. \A e \in Nat : Behind(s, e) /\ Head(s) = None => After(Tail(s), e)
  BY <1>1 DEF Behind, After
<1>8. HasSentinel(Tail(s)) \/ Head(s) = None => HasSentinel(s)
  BY <1>1 DEF HasSentinel
<1> QED BY <1>1, <1>3, <1>4, <1>5, <1>6, <1>7, <1>8

\* Events up to hi lie below any greater number.
LEMMA WithinBelow ==
  ASSUME NEW s \in Seq(Item), NEW lo \in Nat, NEW hi \in Nat, NEW n \in Nat,
         Within(s, lo, hi), hi < n
  PROVE  Below(s, n)
<1>1. ASSUME NEW i \in 1 .. Len(s)
      PROVE  s[i].id < n
  <2>1. CASE s[i] = None
    BY <2>1 DEF None
  <2>2. CASE s[i] # None
    BY <2>2 DEF Within
  <2> QED BY <2>1, <2>2
<1> QED BY <1>1 DEF Below

\* Events up to hi are events up to any greater number.
LEMMA WithinGrows ==
  ASSUME NEW s \in Seq(Item), NEW lo \in Nat, NEW hi \in Nat, NEW n \in Nat,
         Within(s, lo, hi), hi <= n
  PROVE  Within(s, lo, n)
<1>1. lo + 1 .. hi \subseteq lo + 1 .. n
  OBVIOUS
<1> QED BY <1>1 DEF Within

\* A queue made with its first event
LEMMA NewQueue ==
  ASSUME NEW m \in Message, NEW lo \in Nat, lo < m.id
  PROVE  /\ <<m>> \in Seq(Item) /\ Len(<<m>>) = 1
         /\ Within(<<m>>, lo, m.id) /\ Sorted(<<m>>) /\ ~HasSentinel(<<m>>)
         /\ \A e \in Nat : Behind(<<m>>, e)
<1>1. m \in Item /\ m # None /\ m.id \in 1 .. MaxMessages
  BY ItemFacts DEF Item, Message, None
<1> QED BY <1>1 DEF Within, Sorted, HasSentinel, Behind

-----------------------------------------------------------------------------
(* The inductive invariant *)

Holders == {t \in Tasks : HoldsPermit(t)}

\* The semaphore's value and the tasks inside it account for all permits.
Permits == permits + Cardinality(Holders) = MaxConcurrentConvs

\* Live tasks and dictionary entries correspond, one to one.
Entries ==
  /\ \A t \in Tasks : t > created <=> state[t] = "unborn"
  /\ \A t \in Tasks : Live(t) => convQueues[owner[t]] = t
  /\ \A c \in Conversations :
        convQueues[c] # NoTask => Live(convQueues[c]) /\ owner[convQueues[c]] = c
  /\ pending # {} => phase = "stopping"
  /\ \A t \in pending : t <= created
  /\ loop # Ready => loop.task <= created /\ phase = "running"

\* What is in a live queue is still to be started and in the order of reception; what
\* the loop is blocked on is the last event received.
Order ==
  /\ \A c \in Conversations : started[c] <= received[c]
  /\ \A t \in Tasks : state[t] = "handling" =>
        current[t] \in Message /\ current[t].id = started[owner[t]]
  /\ \A t \in Tasks : Live(t) =>
        Within(queue[t], started[owner[t]], received[owner[t]]) /\ Sorted(queue[t])
  /\ loop # Ready =>
        /\ loop.msg.id = received[owner[loop.task]]
        /\ Live(loop.task) => /\ started[owner[loop.task]] < loop.msg.id
                              /\ Below(queue[loop.task], loop.msg.id)

\* Behind a sentinel there are only events that came after a handled chat_end; while
\* the consumer runs only a chat_end puts a sentinel.
Sentinels ==
  /\ \A t \in Tasks : state[t] = "unborn" => ended[t] = 0
  /\ \A t \in Tasks : ended[t] <= received[owner[t]]
  /\ \A t \in Tasks : Live(t) =>
        ended[t] <= started[owner[t]] /\ Behind(queue[t], ended[t])
  /\ phase = "running" =>
        \A t \in Tasks : Live(t) /\ HasSentinel(queue[t]) => ended[t] # 0
  /\ \A t \in Tasks : state[t] = "dead" => After(queue[t], ended[t])
  /\ loop # Ready => ended[loop.task] < loop.msg.id
  /\ loop # Ready /\ state[loop.task] = "dead" => ended[loop.task] # 0

IInv == TypeOK /\ Permits /\ Entries /\ Order /\ Sentinels

-----------------------------------------------------------------------------
(* Its proof *)

LEMMA InitInv == Init => IInv
<1> SUFFICES ASSUME Init
             PROVE  IInv
  OBVIOUS
<1>1. TypeOK
  <2>1. owner \in [Tasks -> Conversations]
    <3>1. (CHOOSE c \in Conversations : TRUE) \in Conversations
      BY Assumptions
    <3> QED BY <3>1 DEF Init
  <2>2. \A t \in Tasks : queue[t] = <<>> /\ Len(queue[t]) <= MaxQueueSize
    BY Assumptions DEF Init
  <2>3. queue \in [Tasks -> Seq(Message \cup {None})]
    BY DEF Init
  <2> QED BY <2>1, <2>2, <2>3, Assumptions DEF Init, TypeOK, Tasks, NoTask
<1>2. Permits
  <2>1. Holders = {}
    BY DEF Init, Holders, HoldsPermit
  <2> QED BY <2>1, FS_EmptySet, Assumptions DEF Permits, Init
<1>3. Entries
  BY DEF Init, Entries, Live, HoldsPermit, Tasks, NoTask
<1>4. Order
  <2>1. \A t \in Tasks : state[t] # "handling" /\ ~Live(t)
    BY DEF Init, Live, HoldsPermit
  <2>2. loop = Ready /\ \A c \in Conversations : started[c] <= received[c]
    BY DEF Init
  <2> QED BY <2>1, <2>2 DEF Order
<1>5. Sentinels
  <2>1. \A t \in Tasks : state[t] = "unborn" /\ ~Live(t) /\ ended[t] = 0
    BY DEF Init, Live, HoldsPermit
  <2>2. loop = Ready /\ \A t \in Tasks : received[owner[t]] = 0
    BY <1>1 DEF Init, TypeOK
  <2> QED BY <2>1, <2>2 DEF Sentinels
<1> QED BY <1>1, <1>2, <1>3, <1>4, <1>5 DEF IInv

\* A live task has been created.
LEMMA LiveIsBorn ==
  ASSUME IInv, NEW t \in Tasks, Live(t)
  PROVE  t <= created
<1>1. state[t] # "unborn"
  BY DEF Live, HoldsPermit
<1>2. created \in Nat /\ t \in Nat
  BY Assumptions DEF IInv, TypeOK, Tasks
<1>3. ~(t > created)
  BY <1>1 DEF IInv, Entries
<1> QED BY <1>2, <1>3

\* A task takes its next item from queues q, with p permits left beside its own and e
\* the number of its last chat_end.  The queues and e are what the worker made of
\* them in the same step.
LEMMA GetNextInv ==
  ASSUME IInv, NEW t \in Tasks, Live(t),
         NEW q \in [Tasks -> Seq(Item)],
         \A u \in Tasks : Len(q[u]) <= MaxQueueSize,
         \A u \in Tasks \ {t} : q[u] = queue[u],
         NEW p \in Nat, p + Cardinality(Holders \ {t}) + 1 = MaxConcurrentConvs,
         NEW e \in Nat, ended' = [ended EXCEPT ![t] = e],
         e <= started[owner[t]],
         Within(q[t], started[owner[t]], received[owner[t]]), Sorted(q[t]),
         Behind(q[t], e),
         phase = "running" /\ HasSentinel(q[t]) => e # 0,
         loop # Ready /\ loop.task = t => Below(q[t], loop.msg.id),
         GetNext(t, q, p)
  PROVE  IInv'
<1> DEFINE c == owner[t]
<1>0. /\ c \in Conversations /\ started[c] \in Nat /\ received[c] \in Nat
      /\ started[c] <= received[c] /\ received[c] <= MaxMessages
      /\ q[t] \in Seq(Item) /\ ended[t] \in Nat /\ convQueues[c] = t /\ t # NoTask
      /\ t <= created
  <2>1. c \in Conversations /\ q[t] \in Seq(Item) /\ ended[t] \in Nat
    BY DEF IInv, TypeOK
  <2>2. started[c] \in Nat /\ received[c] \in Nat /\ received[c] <= MaxMessages
    BY <2>1, Assumptions DEF IInv, TypeOK
  <2>3. started[c] <= received[c]
    BY <2>1 DEF IInv, Order
  <2>4. convQueues[c] = t /\ t # NoTask
    BY Assumptions DEF IInv, Entries, Tasks, NoTask
  <2>5. t <= created
    BY LiveIsBorn
  <2> QED BY <2>1, <2>2, <2>3, <2>4, <2>5
<1>1. /\ created' = created /\ owner' = owner /\ loop' = loop /\ phase' = phase
      /\ pending' = pending /\ received' = received
  BY DEF GetNext
<1>2. IsFiniteSet(Holders \ {t}) /\ t \notin Holders \ {t}
  <2>1. IsFiniteSet(Tasks)
    BY FS_Interval, Assumptions DEF Tasks
  <2> QED BY <2>1, FS_Subset, Holders \ {t} \subseteq Tasks DEF Holders
<1>7. /\ Cardinality(Holders \ {t}) \in Nat /\ p < MaxConcurrentConvs
      /\ Cardinality((Holders \ {t}) \cup {t}) = Cardinality(Holders \ {t}) + 1
  <2>1. Cardinality(Holders \ {t}) \in Nat
    BY <1>2, FS_CardinalityType
  <2>2. Cardinality((Holders \ {t}) \cup {t}) = Cardinality(Holders \ {t}) + 1
    BY <1>2, FS_AddElement
  <2> QED BY <2>1, <2>2, Assumptions
<1>8. \A u \in Tasks : q[u] \in Seq(Item) /\ u \in Nat
  BY Assumptions DEF Tasks
<1>9. ended' \in [Tasks -> 0 .. MaxMessages] /\ ended'[t] = e
      /\ \A u \in Tasks \ {t} : ended'[u] = ended[u]
  BY <1>0, Assumptions DEF IInv, TypeOK
<1>3. \A u \in Tasks \ {t} : Live(u) => owner[u] # c
  BY <1>0 DEF IInv, Entries
<1>4. CASE Park(t, q, p)
  <2>1. /\ state' = [state EXCEPT ![t] = "idle"] /\ queue' = q /\ permits' = p
        /\ current' = [current EXCEPT ![t] = None]
        /\ convQueues' = convQueues /\ started' = started
    BY <1>4 DEF Park
  <2>2. TypeOK'
    <3>1. /\ state' \in [Tasks -> {"unborn", "waiting", "idle", "handling", "ending", "dead"}]
          /\ current' \in [Tasks -> Item]
      BY <2>1 DEF IInv, TypeOK, Item
    <3>2. queue' \in [Tasks -> Seq(Item)] /\ \A u \in Tasks : Len(queue'[u]) <= MaxQueueSize
      BY <2>1
    <3>3. permits' \in 0 .. MaxConcurrentConvs
      BY <1>7, <2>1, Assumptions
    <3> QED BY <1>1, <1>9, <2>1, <3>1, <3>2, <3>3 DEF IInv, TypeOK, Item
  <2>3. /\ state[t] # "unborn" /\ state'[t] = "idle" /\ Live(t)'
        /\ \A u \in Tasks \ {t} : state'[u] = state[u] /\ (Live(u)' <=> Live(u))
    BY <2>1 DEF IInv, TypeOK, Live, HoldsPermit
  <2>4. Permits'
    <3>1. Holders' = (Holders \ {t}) \cup {t}
      BY <2>3 DEF Holders, HoldsPermit
    <3> QED BY <1>7, <2>1, <3>1 DEF Permits
  <2>5. Entries'
    BY <1>0, <1>1, <2>1, <2>3 DEF IInv, TypeOK, Entries
  <2>6. Order'
    BY <1>0, <1>1, <2>1, <2>3 DEF IInv, TypeOK, Order
  <2>7. Sentinels'
    <3>1. \A u \in Tasks : /\ state'[u] = "unborn" => ended'[u] = 0
                           /\ ended'[u] <= received'[owner'[u]]
      <4>1. \A u \in Tasks \ {t} : /\ state[u] = "unborn" => ended[u] = 0
                                   /\ ended[u] <= received[owner[u]]
        BY DEF IInv, Sentinels
      <4>2. e <= received[owner[t]]
        BY <1>0
      <4> QED BY <1>1, <1>9, <2>3, <4>1, <4>2
    <3>2. \A u \in Tasks : Live(u)' => /\ ended'[u] <= started'[owner'[u]]
                                       /\ Behind(queue'[u], ended'[u])
                                       /\ phase' = "running" /\ HasSentinel(queue'[u]) => ended'[u] # 0
      BY <1>0, <1>1, <1>9, <2>1, <2>3 DEF IInv, Sentinels
    <3>3. \A u \in Tasks : state'[u] = "dead" => After(queue'[u], ended'[u])
      BY <1>1, <1>9, <2>1, <2>3 DEF IInv, Sentinels
    <3>4. loop' # Ready => /\ ended'[loop'.task] < loop'.msg.id
                           /\ state'[loop'.task] = "dead" => ended'[loop'.task] # 0
      BY <1>0, <1>1, <1>9, <2>1, <2>3 DEF IInv, TypeOK, Sentinels, Order, Live
    <3> QED BY <3>1, <3>2, <3>3, <3>4 DEF Sentinels
  <2> QED BY <2>2, <2>4, <2>5, <2>6, <2>7 DEF IInv
<1>5. CASE Retire(t, q, p)
  <2>1. /\ state' = [state EXCEPT ![t] = "dead"] /\ permits' = p + 1
        /\ current' = [current EXCEPT ![t] = None]
        /\ queue' = [q EXCEPT ![t] = Tail(q[t])]
        /\ convQueues' = [convQueues EXCEPT ![c] = NoTask] /\ started' = started
        /\ q[t] # <<>> /\ Head(q[t]) = None
    BY <1>5 DEF Retire
  <2>2. /\ Tail(q[t]) \in Seq(Item) /\ Len(Tail(q[t])) < Len(q[t])
        /\ After(Tail(q[t]), e) /\ HasSentinel(q[t])
    BY <1>8, <2>1, GetFirst
  <2>3. TypeOK'
    <3>1. /\ state' \in [Tasks -> {"unborn", "waiting", "idle", "handling", "ending", "dead"}]
          /\ current' \in [Tasks -> Item]
      BY <2>1 DEF IInv, TypeOK, Item
    <3>2. queue' \in [Tasks -> Seq(Item)] /\ \A u \in Tasks : Len(queue'[u]) <= MaxQueueSize
      <4>1. Len(Tail(q[t])) \in Nat /\ Len(q[t]) \in Nat /\ Len(q[t]) <= MaxQueueSize
        BY <1>8, <2>2
      <4>2. Len(Tail(q[t])) <= MaxQueueSize
        BY <2>2, <4>1, Assumptions
      <4> QED BY <2>1, <2>2, <4>2
    <3>3. permits' \in 0 .. MaxConcurrentConvs
      BY <1>7, <2>1, Assumptions
    <3>4. convQueues' \in [Conversations -> Tasks \cup {NoTask}]
      BY <2>1 DEF IInv, TypeOK
    <3> QED BY <1>1, <1>9, <2>1, <3>1, <3>2, <3>3, <3>4 DEF IInv, TypeOK, Item
  <2>4. /\ state[t] # "unborn" /\ state'[t] = "dead" /\ ~Live(t)'
        /\ \A u \in Tasks \ {t} : /\ state'[u] = state[u] /\ (Live(u)' <=> Live(u))
                                  /\ queue'[u] = queue[u]
    BY <2>1 DEF IInv, TypeOK, Live, HoldsPermit
  <2>5. Permits'
    <3>1. Holders' = Holders \ {t}
      BY <2>4 DEF Holders, HoldsPermit, Live
    <3> QED BY <1>7, <2>1, <3>1, Assumptions DEF Permits
  <2>6. Entries'
    <3>1. \A u \in Tasks : Live(u)' => convQueues'[owner'[u]] = u
      <4>1. \A u \in Tasks \ {t} : Live(u) =>
               convQueues[owner[u]] = u /\ owner[u] \in Conversations \ {c}
        BY <1>3 DEF IInv, TypeOK, Entries
      <4>2. \A d \in Conversations \ {c} : convQueues'[d] = convQueues[d]
        BY <1>0, <2>1 DEF IInv, TypeOK
      <4> QED BY <1>1, <2>4, <4>1, <4>2
    <3>2. \A d \in Conversations :
             (convQueues[d] # NoTask => Live(convQueues[d]) /\ owner[convQueues[d]] = d)'
      <4>1. \A d \in Conversations \ {c} : convQueues'[d] = convQueues[d] /\ convQueues[d] # t
        BY <1>0, <2>1 DEF IInv, TypeOK, Entries
      <4>2. convQueues'[c] = NoTask
        BY <1>0, <2>1 DEF IInv, TypeOK
      <4>3. ASSUME NEW d \in Conversations \ {c}, NEW u \in Tasks, convQueues[d] = u
            PROVE  Live(u)' /\ owner[u] = d
        <5>1. u # t /\ u # NoTask
          BY <4>1, <4>3, Assumptions DEF Tasks, NoTask
        <5>2. Live(u) /\ owner[u] = d
          BY <4>3, <5>1 DEF IInv, Entries
        <5> QED BY <2>4, <5>1, <5>2
      <4>4. \A d \in Conversations : convQueues[d] \in Tasks \cup {NoTask}
        BY DEF IInv, TypeOK
      <4>5. ASSUME NEW d \in Conversations, convQueues'[d] # NoTask
            PROVE  (Live(convQueues[d]) /\ owner[convQueues[d]] = d)'
        <5>1. d # c /\ convQueues'[d] = convQueues[d] /\ convQueues[d] \in Tasks
          BY <4>1, <4>2, <4>4, <4>5
        <5> QED BY <1>1, <4>3, <5>1
      <4> QED BY <4>5
    <3>3. \A u \in Tasks : u > created' <=> state'[u] = "unborn"
      BY <1>1, <2>4 DEF IInv, Entries
    <3> QED BY <1>1, <3>1, <3>2, <3>3 DEF IInv, Entries
  <2>7. Order'
    BY <1>0, <1>1, <2>1, <2>4 DEF IInv, TypeOK, Order
  <2>8. Sentinels'
    <3>1. \A u \in Tasks : /\ state'[u] = "unborn" => ended'[u] = 0
                           /\ ended'[u] <= received'[owner'[u]]
      <4>1. \A u \in Tasks \ {t} : /\ state[u] = "unborn" => ended[u] = 0
                                   /\ ended[u] <= received[owner[u]]
        BY DEF IInv, Sentinels
      <4>2. e <= received[owner[t]]
        BY <1>0
      <4> QED BY <1>1, <1>9, <2>4, <4>1, <4>2
    <3>2. \A u \in Tasks : Live(u)' => /\ ended'[u] <= started'[owner'[u]]
                                       /\ Behind(queue'[u], ended'[u])
                                       /\ phase' = "running" /\ HasSentinel(queue'[u]) => ended'[u] # 0
      BY <1>0, <1>1, <1>9, <2>1, <2>4 DEF IInv, Sentinels
    <3>3. \A u \in Tasks : state'[u] = "dead" => After(queue'[u], ended'[u])
      BY <1>1, <1>8, <1>9, <2>1, <2>2, <2>4 DEF IInv, Sentinels
    <3>4. loop' # Ready => /\ ended'[loop'.task] < loop'.msg.id
                           /\ state'[loop'.task] = "dead" => ended'[loop'.task] # 0
      <4> SUFFICES ASSUME loop # Ready
                   PROVE  /\ ended'[loop.task] < loop.msg.id
                          /\ state'[loop.task] = "dead" => ended'[loop.task] # 0
        BY <1>1
      <4>1. loop.task \in Tasks /\ phase = "running"
        BY DEF IInv, TypeOK, Entries
      <4>2. CASE loop.task = t
        BY <1>0, <1>9, <2>2, <4>1, <4>2 DEF IInv, TypeOK, Order
      <4>3. CASE loop.task # t
        BY <1>9, <2>4, <4>1, <4>3 DEF IInv, Sentinels
      <4> QED BY <4>2, <4>3
    <3> QED BY <3>1, <3>2, <3>3, <3>4 DEF Sentinels
  <2> QED BY <2>3, <2>5, <2>6, <2>7, <2>8 DEF IInv
<1>6. CASE Handle(t, q, p)
  <2> DEFINE m == Head(q[t])
  <2>1. /\ state' = [state EXCEPT ![t] = "handling"] /\ permits' = p
        /\ current' = [current EXCEPT ![t] = m]
        /\ queue' = [q EXCEPT ![t] = Tail(q[t])]
        /\ convQueues' = convQueues /\ started' = [started EXCEPT ![c] = m.id]
        /\ q[t] # <<>> /\ m # None
    BY <1>6 DEF Handle
  <2>2. /\ Tail(q[t]) \in Seq(Item) /\ Len(Tail(q[t])) < Len(q[t])
        /\ Within(Tail(q[t]), m.id, received[c]) /\ Sorted(Tail(q[t]))
        /\ Behind(Tail(q[t]), e) /\ (HasSentinel(Tail(q[t])) => HasSentinel(q[t]))
        /\ m \in Item /\ m.id \in started[c] + 1 .. received[c]
        /\ loop # Ready /\ loop.task = t => m.id < loop.msg.id /\ Below(Tail(q[t]), loop.msg.id)
    <3>1. loop # Ready => loop.msg.id \in Nat
      BY ItemFacts DEF IInv, TypeOK, Item
    <3>2. q[t] \in Seq(Item) /\ q[t] # <<>>
      BY <1>8, <2>1
    <3>3. Tail(q[t]) \in Seq(Item) /\ Len(Tail(q[t])) < Len(q[t]) /\ m \in Item
      BY <3>2, GetFirst
    <3>4. Within(Tail(q[t]), m.id, received[c]) /\ m.id \in started[c] + 1 .. received[c]
      BY <1>0, <2>1, <3>2, GetFirst
    <3>5. Sorted(Tail(q[t])) /\ Behind(Tail(q[t]), e)
      BY <3>2, GetFirst
    <3>6. HasSentinel(Tail(q[t])) => HasSentinel(q[t])
      BY <3>2, GetFirst
    <3>7. loop # Ready /\ loop.task = t => m.id < loop.msg.id /\ Below(Tail(q[t]), loop.msg.id)
      BY <3>1, <3>2, GetFirst
    <3> QED BY <3>3, <3>4, <3>5, <3>6, <3>7
  <2>3. m \in Message /\ m.id \in Nat
    BY <2>1, <2>2, ItemFacts
  <2>4. TypeOK'
    <3>1. /\ state' \in [Tasks -> {"unborn", "waiting", "idle", "handling", "ending", "dead"}]
          /\ current' \in [Tasks -> Item]
      BY <2>1, <2>2 DEF IInv, TypeOK, Item
    <3>2. queue' \in [Tasks -> Seq(Item)] /\ \A u \in Tasks : Len(queue'[u]) <= MaxQueueSize
      <4>1. Len(Tail(q[t])) \in Nat /\ Len(q[t]) \in Nat /\ Len(q[t]) <= MaxQueueSize
        BY <1>8, <2>2
      <4>2. Len(Tail(q[t])) <= MaxQueueSize
        BY <2>2, <4>1, Assumptions
      <4> QED BY <2>1, <2>2, <4>2
    <3>3. permits' \in 0 .. MaxConcurrentConvs
      BY <1>7, <2>1, Assumptions
    <3>4. started' \in [Conversations -> 0 .. MaxMessages]
      <4>1. m.id \in 0 .. MaxMessages
        BY <1>0, <2>2, <2>3, Assumptions
      <4> QED BY <2>1, <4>1 DEF IInv, TypeOK
    <3> QED BY <1>1, <1>9, <2>1, <3>1, <3>2, <3>3, <3>4 DEF IInv, TypeOK, Item
  <2>5. /\ state[t] # "unborn" /\ state'[t] = "handling" /\ Live(t)'
        /\ \A u \in Tasks \ {t} : /\ state'[u] = state[u] /\ (Live(u)' <=> Live(u))
                                  /\ queue'[u] = queue[u] /\ current'[u] = current[u]
        /\ queue'[t] = Tail(q[t]) /\ current'[t] = m
    BY <2>1 DEF IInv, TypeOK, Live, HoldsPermit
  <2>6. /\ started'[c] = m.id /\ started[c] < started'[c]
        /\ \A d \in Conversations \ {c} : started'[d] = started[d]
        /\ \A u \in Tasks \ {t} : Live(u) => started'[owner[u]] = started[owner[u]]
    <3>1. started[c] < m.id
      BY <1>0, <2>2, <2>3
    <3>2. started'[c] = m.id /\ \A d \in Conversations \ {c} : started'[d] = started[d]
      BY <1>0, <2>1 DEF IInv, TypeOK
    <3>3. owner \in [Tasks -> Conversations]
      BY DEF IInv, TypeOK
    <3> QED BY <1>3, <3>1, <3>2, <3>3
  <2>7. Permits'
    <3>1. Holders' = (Holders \ {t}) \cup {t}
      BY <2>5 DEF Holders, HoldsPermit
    <3> QED BY <1>7, <2>1, <3>1 DEF Permits
  <2>8. Entries'
    BY <1>0, <1>1, <2>1, <2>5 DEF IInv, TypeOK, Entries
  <2>9. Order'
    <3>1. \A d \in Conversations : started'[d] <= received'[d]
      BY <1>0, <1>1, <2>2, <2>6 DEF IInv, Order
    <3>2. \A u \in Tasks : state'[u] = "handling" =>
             current'[u] \in Message /\ current'[u].id = started'[owner'[u]]
      BY <1>1, <2>3, <2>5, <2>6 DEF IInv, Order, Live, HoldsPermit
    <3>3. \A u \in Tasks : Live(u)' =>
             Within(queue'[u], started'[owner'[u]], received'[owner'[u]]) /\ Sorted(queue'[u])
      <4>1. Within(queue'[t], started'[owner[t]], received[owner[t]]) /\ Sorted(queue'[t])
        BY <2>2, <2>5, <2>6
      <4>2. \A u \in Tasks \ {t} : Live(u)' =>
               Within(queue'[u], started'[owner[u]], received[owner[u]]) /\ Sorted(queue'[u])
        BY <2>5, <2>6 DEF IInv, Order
      <4> QED BY <1>1, <4>1, <4>2
    <3>4. (loop # Ready =>
             /\ loop.msg.id = received[owner[loop.task]]
             /\ Live(loop.task) => /\ started[owner[loop.task]] < loop.msg.id
                                   /\ Below(queue[loop.task], loop.msg.id))'
      <4>1. loop # Ready => loop.task \in Tasks
        BY DEF IInv, TypeOK
      <4> SUFFICES ASSUME NEW u \in Tasks, loop # Ready, u = loop.task
                   PROVE  /\ loop.msg.id = received[owner[u]]
                          /\ Live(u)' => /\ started'[owner[u]] < loop.msg.id
                                         /\ Below(queue'[u], loop.msg.id)
        BY <1>1, <4>1
      <4>2. CASE u = t
        BY <2>2, <2>5, <2>6, <4>2 DEF IInv, Order
      <4>3. CASE u # t
        <5>1. /\ loop.msg.id = received[owner[u]]
              /\ Live(u) => /\ started[owner[u]] < loop.msg.id
                            /\ Below(queue[u], loop.msg.id)
          BY DEF IInv, Order
        <5> QED BY <2>5, <2>6, <4>3, <5>1
      <4> QED BY <4>2, <4>3
    <3> QED BY <3>1, <3>2, <3>3, <3>4 DEF Order
  <2>10. Sentinels'
    <3>1. \A u \in Tasks : /\ state'[u] = "unborn" => ended'[u] = 0
                           /\ ended'[u] <= received'[owner'[u]]
      <4>1. \A u \in Tasks \ {t} : /\ state[u] = "unborn" => ended[u] = 0
                                   /\ ended[u] <= received[owner[u]]
        BY DEF IInv, Sentinels
      <4>2. e <= received[owner[t]]
        BY <1>0
      <4> QED BY <1>1, <1>9, <2>5, <4>1, <4>2
    <3>2. \A u \in Tasks : Live(u)' => /\ ended'[u] <= started'[owner'[u]]
                                       /\ Behind(queue'[u], ended'[u])
                                       /\ phase' = "running" /\ HasSentinel(queue'[u]) => ended'[u] # 0
      <4>1. /\ ended'[t] <= started'[owner[t]]
            /\ Behind(queue'[t], ended'[t])
            /\ phase = "running" /\ HasSentinel(queue'[t]) => ended'[t] # 0
        BY <1>0, <1>9, <2>2, <2>3, <2>5, <2>6
      <4>2. \A u \in Tasks \ {t} : Live(u)' =>
               /\ ended'[u] <= started'[owner[u]]
               /\ Behind(queue'[u], ended'[u])
               /\ phase = "running" /\ HasSentinel(queue'[u]) => ended'[u] # 0
        BY <1>9, <2>5, <2>6 DEF IInv, Sentinels
      <4> QED BY <1>1, <4>1, <4>2
    <3>3. \A u \in Tasks : state'[u] = "dead" => After(queue'[u], ended'[u])
      BY <1>1, <1>9, <2>5 DEF IInv, Sentinels
    <3>4. loop' # Ready => /\ ended'[loop'.task] < loop'.msg.id
                           /\ state'[loop'.task] = "dead" => ended'[loop'.task] # 0
      <4> SUFFICES ASSUME loop # Ready
                   PROVE  /\ ended'[loop.task] < loop.msg.id
                          /\ state'[loop.task] = "dead" => ended'[loop.task] # 0
        BY <1>1
      <4>1. loop.task \in Tasks
        BY DEF IInv, TypeOK
      <4>2. CASE loop.task = t
        <5>1. m.id < loop.msg.id /\ loop.msg.id = received[c]
          BY <1>0, <2>2, <4>2 DEF IInv, Order
        <5>2. ended'[t] = e /\ e \in Nat /\ e <= started[c] /\ started[c] < m.id
          BY <1>0, <1>9, <2>2, <2>3
        <5>3. e < loop.msg.id
          BY <1>0, <2>3, <5>1, <5>2
        <5> QED BY <2>5, <4>2, <5>2, <5>3
      <4>3. CASE loop.task # t
        BY <1>9, <2>5, <4>1, <4>3 DEF IInv, Sentinels
      <4> QED BY <4>2, <4>3
    <3> QED BY <3>1, <3>2, <3>3, <3>4 DEF Sentinels
  <2> QED BY <2>4, <2>7, <2>8, <2>9, <2>10 DEF IInv
<1> QED BY <1>4, <1>5, <1>6 DEF GetNext

\* Removing a permit holder from the count, and a task that is none
LEMMA HolderCount ==
  ASSUME IInv, NEW t \in Tasks
  PROVE  /\ HoldsPermit(t) => permits + Cardinality(Holders \ {t}) + 1 = MaxConcurrentConvs
         /\ ~HoldsPermit(t) => permits + Cardinality(Holders \ {t}) = MaxConcurrentConvs
         /\ permits \in Nat /\ Cardinality(Holders \ {t}) \in Nat
<1>1. IsFiniteSet(Holders)
  <2>1. IsFiniteSet(Tasks)
    BY FS_Interval, Assumptions DEF Tasks
  <2> QED BY <2>1, FS_Subset, Holders \subseteq Tasks DEF Holders
<1>2. Cardinality(Holders) \in Nat /\ IsFiniteSet(Holders \ {t})
  BY <1>1, FS_CardinalityType, FS_Subset
<1>3. permits \in Nat /\ permits + Cardinality(Holders) = MaxConcurrentConvs
  BY Assumptions DEF IInv, TypeOK, Permits
<1>4. Cardinality(Holders \ {t}) \in Nat
  BY <1>2, FS_CardinalityType
<1>5. CASE HoldsPermit(t)
  <2>1. t \in Holders
    BY <1>5 DEF Holders
  <2>2. Cardinality(Holders \ {t}) = Cardinality(Holders) - 1
    BY <1>1, <2>1, FS_RemoveElement
  <2> QED BY <1>2, <1>3, <1>4, <1>5, <2>2, Assumptions
<1>6. CASE ~HoldsPermit(t)
  <2>1. Holders \ {t} = Holders
    BY <1>6 DEF Holders
  <2> QED BY <1>2, <1>3, <1>4, <1>6, <2>1
<1> QED BY <1>5, <1>6

\* What IInv says of one live task, as GetNextInv and the puts need it
LEMMA LiveTask ==
  ASSUME IInv, NEW t \in Tasks, Live(t)
  PROVE  /\ owner[t] \in Conversations /\ convQueues[owner[t]] = t /\ t # NoTask
         /\ started[owner[t]] \in Nat /\ received[owner[t]] \in 0 .. MaxMessages
         /\ started[owner[t]] <= received[owner[t]]
         /\ ended[t] \in Nat /\ ended[t] <= started[owner[t]]
         /\ queue[t] \in Seq(Item) /\ Len(queue[t]) <= MaxQueueSize
         /\ Within(queue[t], started[owner[t]], received[owner[t]]) /\ Sorted(queue[t])
         /\ Behind(queue[t], ended[t])
         /\ phase = "running" /\ HasSentinel(queue[t]) => ended[t] # 0
         /\ loop # Ready /\ loop.task = t => Below(queue[t], loop.msg.id)
<1>1. owner[t] \in Conversations /\ queue[t] \in Seq(Item) /\ Len(queue[t]) <= MaxQueueSize
  BY DEF IInv, TypeOK, Item
<1>2. /\ started[owner[t]] \in Nat /\ received[owner[t]] \in 0 .. MaxMessages
      /\ ended[t] \in Nat /\ t # NoTask
  BY <1>1, Assumptions DEF IInv, TypeOK, Tasks, NoTask
<1>3. convQueues[owner[t]] = t
  BY DEF IInv, Entries
<1>4. /\ started[owner[t]] <= received[owner[t]]
      /\ Within(queue[t], started[owner[t]], received[owner[t]]) /\ Sorted(queue[t])
      /\ loop # Ready /\ loop.task = t => Below(queue[t], loop.msg.id)
  BY <1>1 DEF IInv, Order
<1>5. /\ ended[t] <= started[owner[t]] /\ Behind(queue[t], ended[t])
      /\ phase = "running" /\ HasSentinel(queue[t]) => ended[t] # 0
  BY DEF IInv, Sentinels
<1> QED BY <1>1, <1>2, <1>3, <1>4, <1>5

LEMMA QueueType ==
  ASSUME IInv
  PROVE  /\ queue \in [Tasks -> Seq(Item)]
         /\ \A u \in Tasks : Len(queue[u]) <= MaxQueueSize
         /\ ended \in [Tasks -> Nat]
BY Assumptions DEF IInv, TypeOK, Item

LEMMA AcquireSemaphoreInv ==
  ASSUME IInv, NEW t \in Tasks, AcquireSemaphore(t)
  PROVE  IInv'
<1>1. /\ state[t] = "waiting" /\ permits > 0 /\ GetNext(t, queue, permits - 1)
      /\ ended' = ended
  BY DEF AcquireSemaphore
<1>2. Live(t) /\ ~HoldsPermit(t)
  BY <1>1 DEF Live, HoldsPermit
<1>3. /\ permits - 1 \in Nat
      /\ (permits - 1) + Cardinality(Holders \ {t}) + 1 = MaxConcurrentConvs
  BY <1>1, <1>2, HolderCount
<1>4. ended' = [ended EXCEPT ![t] = ended[t]]
  BY <1>1, QueueType
<1>5. ended[t] \in Nat
  BY <1>2, LiveTask
<1> QED BY <1>1, <1>2, <1>3, <1>4, <1>5, LiveTask, QueueType, GetNextInv

LEMMA WakeUpInv ==
  ASSUME IInv, NEW t \in Tasks, WakeUp(t)
  PROVE  IInv'
<1>1. state[t] = "idle" /\ GetNext(t, queue, permits) /\ ended' = ended
  BY DEF WakeUp
<1>2. Live(t) /\ HoldsPermit(t)
  BY <1>1 DEF Live, HoldsPermit
<1>3. permits \in Nat /\ permits + Cardinality(Holders \ {t}) + 1 = MaxConcurrentConvs
  BY <1>2, HolderCount
<1>4. ended' = [ended EXCEPT ![t] = ended[t]]
  BY <1>1, QueueType
<1>5. ended[t] \in Nat
  BY <1>2, LiveTask
<1> QED BY <1>1, <1>2, <1>3, <1>4, <1>5, LiveTask, QueueType, GetNextInv

LEMMA HandlerSettlesInv ==
  ASSUME IInv, NEW t \in Tasks, HandlerSettles(t)
  PROVE  IInv'
<1>1. state[t] = "handling" /\ GetNext(t, queue, permits) /\ ended' = ended
  BY DEF HandlerSettles
<1>2. Live(t) /\ HoldsPermit(t)
  BY <1>1 DEF Live, HoldsPermit
<1>3. permits \in Nat /\ permits + Cardinality(Holders \ {t}) + 1 = MaxConcurrentConvs
  BY <1>2, HolderCount
<1>4. ended' = [ended EXCEPT ![t] = ended[t]]
  BY <1>1, QueueType
<1>5. ended[t] \in Nat
  BY <1>2, LiveTask
<1> QED BY <1>1, <1>2, <1>3, <1>4, <1>5, LiveTask, QueueType, GetNextInv

\* The worker puts a sentinel into its own queue and goes on, or blocks in that put.
LEMMA ChatEndReturnsInv ==
  ASSUME IInv, NEW t \in Tasks, ChatEndReturns(t)
  PROVE  IInv'
<1>1. state[t] = "handling" /\ current[t].kind = "chat_end"
      /\ ended' = [ended EXCEPT ![t] = current[t].id]
  BY DEF ChatEndReturns
<1>2. Live(t) /\ HoldsPermit(t)
  BY <1>1 DEF Live, HoldsPermit
<1>3. current[t].id = started[owner[t]] /\ current[t].id \in 1 .. MaxMessages
  BY <1>1, ItemFacts DEF IInv, Order, Item, Message, Kinds
<1>4. convQueues[owner[t]] = t /\ t # NoTask
  BY <1>2, LiveTask
<1> DEFINE e == current[t].id
           q == [queue EXCEPT ![t] = Put(queue[t], None)]
<1>5. CASE ~Full(t) /\ GetNext(t, q, permits)
  <2>1. None \in Item /\ queue[t] \in Seq(Item)
    BY QueueType DEF Item
  <2>2. /\ Put(queue[t], None) \in Seq(Item) /\ Len(Put(queue[t], None)) = Len(queue[t]) + 1
        /\ Len(queue[t]) \in Nat
    BY <2>1, AppendFacts DEF Put
  <2>3. /\ q \in [Tasks -> Seq(Item)] /\ q[t] = Put(queue[t], None)
        /\ \A u \in Tasks \ {t} : q[u] = queue[u]
    BY <2>2, QueueType
  <2>4. \A u \in Tasks : Len(q[u]) <= MaxQueueSize
    <3>1. Len(q[t]) <= MaxQueueSize
      BY <1>5, <2>2, <2>3, Assumptions DEF Full
    <3> QED BY <2>3, <3>1, QueueType
  <2>5. permits \in Nat /\ permits + Cardinality(Holders \ {t}) + 1 = MaxConcurrentConvs
    BY <1>2, HolderCount
  <2>6. e \in Nat /\ e # 0 /\ e <= started[owner[t]]
    BY <1>3, Assumptions
  <2>7. /\ Within(q[t], started[owner[t]], received[owner[t]]) /\ Sorted(q[t])
    BY <1>2, <2>1, <2>3, LiveTask, PutSentinel, Assumptions
  <2>8. Behind(q[t], e)
    \* every event still queued has a number above the one just handled
    <3>1. Within(q[t], e, received[owner[t]])
      BY <1>3, <2>7
    <3>2. \A i \in 1 .. Len(q[t]) : q[t][i] # None => e \in 1 .. q[t][i].id - 1
      <4>1. \A n \in e + 1 .. received[owner[t]] : e \in 1 .. n - 1
        <5>1. received[owner[t]] \in Nat
          BY <1>2, LiveTask, Assumptions
        <5> QED BY <2>6, <5>1
      <4> QED BY <3>1, <4>1 DEF Within
    <3> QED BY <3>2 DEF Behind
  <2>9. loop # Ready /\ loop.task = t => Below(q[t], loop.msg.id)
    <3> SUFFICES ASSUME loop # Ready, loop.task = t
                 PROVE  Below(q[t], loop.msg.id)
      OBVIOUS
    <3>1. loop.msg \in Message
      BY DEF IInv, TypeOK
    <3>2. loop.msg.id \in Nat /\ loop.msg.id > 0
      BY <3>1, Assumptions DEF Message
    <3> QED BY <1>2, <2>1, <2>3, <3>2, LiveTask, PutSentinel
  <2> HIDE DEF q, e
  <2> QED BY <1>1, <1>2, <1>5, <2>3, <2>4, <2>5, <2>6, <2>7, <2>8, <2>9, GetNextInv DEF e
<1>6. CASE /\ state' = [state EXCEPT ![t] = "ending"]
           /\ UNCHANGED <<convQueues, created, owner, queue, current, permits,
                          loop, phase, pending, received, started>>
  <2>1. /\ state'[t] = "ending" /\ \A u \in Tasks \ {t} : state'[u] = state[u]
        /\ \A u \in Tasks : (Live(u)' <=> Live(u)) /\ (HoldsPermit(u)' <=> HoldsPermit(u))
        /\ \A u \in Tasks : (state'[u] = "unborn" <=> state[u] = "unborn")
                            /\ (state'[u] = "dead" <=> state[u] = "dead")
    BY <1>1, <1>6 DEF IInv, TypeOK, Live, HoldsPermit
  <2>2. /\ ended'[t] = e /\ \A u \in Tasks \ {t} : ended'[u] = ended[u]
        /\ ended' \in [Tasks -> 0 .. MaxMessages]
    BY <1>1, <1>3, Assumptions DEF IInv, TypeOK
  <2>3. TypeOK'
    <3>1. state' \in [Tasks -> {"unborn", "waiting", "idle", "handling", "ending", "dead"}]
      BY <1>6 DEF IInv, TypeOK
    <3> QED BY <1>6, <2>2, <3>1 DEF IInv, TypeOK
  <2>4. Permits'
    <3>1. Holders' = Holders
      BY <2>1 DEF Holders
    <3> QED BY <1>6, <3>1 DEF IInv, Permits
  <2>5. Entries'
    <3>1. \A c \in Conversations : (convQueues[c] # NoTask =>
             Live(convQueues[c]) /\ owner[convQueues[c]] = c)'
      BY <1>6, <2>1 DEF IInv, TypeOK, Entries
    <3> QED BY <1>6, <2>1, <3>1 DEF IInv, Entries
  <2>6. Order'
    <3>1. \A u \in Tasks : state'[u] = "handling" =>
             current'[u] \in Message /\ current'[u].id = started'[owner'[u]]
      BY <1>6, <2>1 DEF IInv, Order
    <3>2. loop' # Ready => (Live(loop.task)' <=> Live(loop.task))
      BY <1>6, <2>1 DEF IInv, TypeOK
    <3> QED BY <1>6, <2>1, <3>1, <3>2 DEF IInv, Order
  <2>7. Sentinels'
    <3>1. \A u \in Tasks : /\ state'[u] = "unborn" => ended'[u] = 0
                           /\ ended'[u] <= received'[owner'[u]]
      <4>1. e <= received[owner[t]]
        BY <1>2, <1>3, LiveTask, Assumptions
      <4>2. \A u \in Tasks \ {t} : /\ state'[u] = "unborn" => ended'[u] = 0
                                   /\ ended'[u] <= received[owner[u]]
        BY <2>1, <2>2 DEF IInv, Sentinels
      <4> QED BY <1>6, <2>1, <2>2, <4>1, <4>2
    <3>2. \A u \in Tasks : Live(u)' => /\ ended'[u] <= started'[owner'[u]]
                                       /\ Behind(queue'[u], ended'[u])
                                       /\ phase' = "running" /\ HasSentinel(queue'[u]) => ended'[u] # 0
      <4>1. e <= started[owner[t]] /\ e # 0
        BY <1>3, Assumptions
      <4>2. Behind(queue[t], e)
        BY <1>2, <1>3, LiveTask, Assumptions DEF Behind, Within
      <4>3. \A u \in Tasks \ {t} : Live(u)' =>
               /\ ended'[u] <= started[owner[u]] /\ Behind(queue[u], ended'[u])
               /\ phase = "running" /\ HasSentinel(queue[u]) => ended'[u] # 0
        BY <2>1, <2>2 DEF IInv, Sentinels
      <4> QED BY <1>6, <2>2, <4>1, <4>2, <4>3
    <3>3. \A u \in Tasks : state'[u] = "dead" => After(queue'[u], ended'[u])
      BY <1>6, <2>1, <2>2 DEF IInv, Sentinels
    <3>4. (loop # Ready => /\ ended[loop.task] < loop.msg.id
                           /\ state[loop.task] = "dead" => ended[loop.task] # 0)'
      <4>1. loop # Ready => loop.task \in Tasks
        BY DEF IInv, TypeOK
      <4> SUFFICES ASSUME NEW u \in Tasks, loop # Ready, u = loop.task
                   PROVE  /\ ended'[u] < loop.msg.id
                          /\ state'[u] = "dead" => ended'[u] # 0
        BY <1>6, <4>1
      <4>2. CASE u = t
        BY <1>2, <1>3, <2>1, <2>2, <4>2 DEF IInv, Order
      <4>3. CASE u # t
        BY <2>1, <2>2, <4>3 DEF IInv, Sentinels
      <4> QED BY <4>2, <4>3
    <3> QED BY <3>1, <3>2, <3>3, <3>4 DEF Sentinels
  <2> QED BY <2>3, <2>4, <2>5, <2>6, <2>7 DEF IInv
<1> QED BY <1>4, <1>5, <1>6 DEF ChatEndReturns

\* An event for a conversation without a queue
LEMMA SpawnInv ==
  ASSUME IInv, NEW c \in Conversations, NEW m \in Message, NEW t \in Tasks,
         phase = "running", loop = Ready, m.id = received[c] + 1, t = created + 1,
         received' = [received EXCEPT ![c] = @ + 1], ~HasQueue(c), Spawn(c, m),
         UNCHANGED <<current, permits, phase, pending, started, ended>>
  PROVE  IInv'
<1>1. /\ t \in Tasks /\ created' = t /\ convQueues' = [convQueues EXCEPT ![c] = t]
      /\ owner' = [owner EXCEPT ![t] = c] /\ state' = [state EXCEPT ![t] = "waiting"]
      /\ queue' = [queue EXCEPT ![t] = <<m>>] /\ loop' = loop
  BY DEF Spawn
<1>2. created \in Nat /\ convQueues[c] = NoTask /\ state[t] = "unborn" /\ t # NoTask
  <2>1. created \in Nat
    BY Assumptions DEF IInv, TypeOK
  <2> QED BY <1>1, <2>1, Assumptions DEF IInv, Entries, HasQueue, Tasks, NoTask
<1>3. /\ state'[t] = "waiting" /\ Live(t)' /\ owner'[t] = c /\ queue'[t] = <<m>>
      /\ \A u \in Tasks \ {t} : /\ state'[u] = state[u] /\ (Live(u)' <=> Live(u))
                                /\ owner'[u] = owner[u] /\ queue'[u] = queue[u]
  BY <1>1 DEF IInv, TypeOK, Live, HoldsPermit
<1>4. /\ received'[c] = m.id /\ m.id \in 1 .. MaxMessages
      /\ \A d \in Conversations \ {c} : received'[d] = received[d]
      /\ received[c] \in Nat /\ received[c] < m.id
      /\ started[c] \in Nat /\ started[c] < m.id /\ started[c] <= received[c]
  <2>1. m.id \in 1 .. MaxMessages /\ received'[c] = m.id
    BY DEF IInv, TypeOK, Message
  <2>2. received[c] \in Nat /\ started[c] \in Nat /\ started[c] <= received[c]
    BY Assumptions DEF IInv, TypeOK, Order
  <2> QED BY <2>1, <2>2 DEF IInv, TypeOK
<1>5. \A u \in Tasks \ {t} : Live(u) => owner[u] # c /\ owner[u] \in Conversations
  BY <1>2, Assumptions DEF IInv, TypeOK, Entries, Tasks, NoTask
<1>6. /\ <<m>> \in Seq(Item) /\ Len(<<m>>) = 1 /\ Within(<<m>>, started[c], m.id)
      /\ Sorted(<<m>>) /\ ~HasSentinel(<<m>>) /\ Behind(<<m>>, ended[t])
  <2>1. ended[t] \in Nat
    BY <1>1, QueueType
  <2> QED BY <1>4, <2>1, NewQueue
<1>7. TypeOK'
  <2>1. queue' \in [Tasks -> Seq(Item)] /\ \A u \in Tasks : Len(queue'[u]) <= MaxQueueSize
    BY <1>1, <1>6, QueueType, Assumptions
  <2>2. received' \in [Conversations -> 0 .. MaxMessages]
    BY <1>4 DEF IInv, TypeOK
  <2>3. /\ state' \in [Tasks -> {"unborn", "waiting", "idle", "handling", "ending", "dead"}]
        /\ convQueues' \in [Conversations -> Tasks \cup {NoTask}]
        /\ owner' \in [Tasks -> Conversations]
    BY <1>1 DEF IInv, TypeOK
  <2>4. created' \in 0 .. MaxTasks
    BY <1>1, Assumptions DEF Tasks
  <2> QED BY <1>1, <2>1, <2>2, <2>3, <2>4 DEF IInv, TypeOK, Item
<1>8. Permits'
  <2>1. Holders' = Holders
    BY <1>2, <1>3 DEF Holders, HoldsPermit
  <2> QED BY <2>1 DEF IInv, Permits
<1>9. Entries'
  <2>1. \A u \in Tasks : u > created' <=> state'[u] = "unborn"
    BY <1>1, <1>2, <1>3, Assumptions DEF IInv, Entries, Tasks
  <2>2. \A u \in Tasks : (Live(u) => convQueues[owner[u]] = u)'
    <3>1. \A u \in Tasks \ {t} : Live(u) => convQueues'[owner[u]] = u
      BY <1>1, <1>5 DEF IInv, TypeOK, Entries
    <3>2. convQueues'[c] = t
      BY <1>1 DEF IInv, TypeOK
    <3> QED BY <1>3, <3>1, <3>2
  <2>3. \A d \in Conversations :
           (convQueues[d] # NoTask => Live(convQueues[d]) /\ owner[convQueues[d]] = d)'
    <3>1. convQueues'[c] = t /\ \A d \in Conversations \ {c} : convQueues'[d] = convQueues[d]
      BY <1>1 DEF IInv, TypeOK
    <3>2. ASSUME NEW d \in Conversations \ {c}, NEW u \in Tasks, convQueues[d] = u
          PROVE  Live(u)' /\ owner'[u] = d
      <4>1. u # NoTask
        BY Assumptions DEF Tasks, NoTask
      <4>2. Live(u) /\ owner[u] = d
        BY <3>2, <4>1 DEF IInv, Entries
      <4>3. u # t
        BY <1>2, <4>2 DEF Live, HoldsPermit
      <4> QED BY <1>3, <4>2, <4>3
    <3>3. \A d \in Conversations : convQueues[d] \in Tasks \cup {NoTask}
      BY DEF IInv, TypeOK
    <3>4. ASSUME NEW d \in Conversations, convQueues'[d] # NoTask
          PROVE  (Live(convQueues[d]) /\ owner[convQueues[d]] = d)'
      <4>1. CASE d = c
        BY <1>3, <3>1, <4>1
      <4>2. CASE d # c
        <5>1. convQueues'[d] = convQueues[d] /\ convQueues[d] \in Tasks
          BY <3>1, <3>3, <3>4, <4>2
        <5> QED BY <3>2, <4>2, <5>1
      <4> QED BY <4>1, <4>2
    <3> QED BY <3>4
  <2>4. pending' = {}
    BY DEF IInv, Entries
  <2> QED BY <1>1, <2>1, <2>2, <2>3, <2>4 DEF Entries
<1>10. Order'
  <2>1. \A d \in Conversations : started'[d] <= received'[d]
    BY <1>4 DEF IInv, Order
  <2>2. \A u \in Tasks : (state[u] = "handling" =>
             current[u] \in Message /\ current[u].id = started[owner[u]])'
    BY <1>3 DEF IInv, Order
  <2>3. \A u \in Tasks : (Live(u) =>
             Within(queue[u], started[owner[u]], received[owner[u]]) /\ Sorted(queue[u]))'
    <3>1. \A u \in Tasks \ {t} : Live(u) =>
             Within(queue[u], started[owner[u]], received'[owner[u]]) /\ Sorted(queue[u])
      BY <1>4, <1>5 DEF IInv, Order
    <3> QED BY <1>3, <1>4, <1>6, <3>1
  <2> QED BY <1>1, <2>1, <2>2, <2>3 DEF Order
<1>11. Sentinels'
  <2>1. ended[t] = 0
    BY <1>1, <1>2 DEF IInv, Sentinels
  <2>2. \A u \in Tasks : ended[u] <= received'[owner'[u]]
    <3>1. \A u \in Tasks \ {t} : ended[u] <= received'[owner[u]]
      <4>1. ASSUME NEW u \in Tasks \ {t}
            PROVE  ended[u] <= received'[owner[u]]
        <5>1. /\ owner[u] \in Conversations /\ ended[u] <= received[owner[u]] /\ ended[u] \in Nat
              /\ received[owner[u]] \in Nat
          BY Assumptions DEF IInv, TypeOK, Sentinels
        <5> QED BY <1>4, <5>1
      <4> QED BY <4>1
    <3> QED BY <1>3, <1>4, <2>1, <3>1
  <2>3. \A u \in Tasks : (Live(u) => ended[u] <= started[owner[u]] /\ Behind(queue[u], ended[u]))'
    BY <1>3, <1>4, <1>6, <2>1 DEF IInv, Sentinels
  <2>4. \A u \in Tasks : (Live(u) /\ HasSentinel(queue[u]) => ended[u] # 0)'
    BY <1>3, <1>6 DEF IInv, Sentinels
  <2>5. \A u \in Tasks : /\ state'[u] = "unborn" => ended'[u] = 0
                         /\ state'[u] = "dead" => After(queue'[u], ended'[u])
    BY <1>3 DEF IInv, Sentinels
  <2> QED BY <1>1, <2>2, <2>3, <2>4, <2>5 DEF Sentinels
<1> QED BY <1>7, <1>8, <1>9, <1>10, <1>11 DEF IInv

\* A put of x into the queue of t, which is not full, keeps the types.
LEMMA PutType ==
  ASSUME IInv, NEW t \in Tasks, NEW x \in Item, ~Full(t),
         queue' = [queue EXCEPT ![t] = Put(@, x)]
  PROVE  /\ queue' \in [Tasks -> Seq(Item)]
         /\ \A u \in Tasks : Len(queue'[u]) <= MaxQueueSize
         /\ queue'[t] = Put(queue[t], x)
         /\ \A u \in Tasks \ {t} : queue'[u] = queue[u]
<1>1. queue[t] \in Seq(Item) /\ Len(queue[t]) \in Nat
  BY QueueType
<1>2. /\ Put(queue[t], x) \in Seq(Item) /\ Len(Put(queue[t], x)) = Len(queue[t]) + 1
  BY <1>1, AppendFacts DEF Put
<1>3. Len(Put(queue[t], x)) <= MaxQueueSize
  BY <1>1, <1>2, Assumptions DEF Full
<1> QED BY <1>2, <1>3, QueueType

\* An event for a conversation with a queue that has room
LEMMA EnqueueInv ==
  ASSUME IInv, NEW c \in Conversations, NEW m \in Message, NEW t \in Tasks,
         phase = "running", loop = Ready, m.id = received[c] + 1, t = convQueues[c],
         received' = [received EXCEPT ![c] = @ + 1],
         ~Full(t), queue' = [queue EXCEPT ![t] = Put(@, m)],
         UNCHANGED <<convQueues, created, owner, state, current, permits, loop, phase,
                     pending, started, ended>>
  PROVE  IInv'
<1>1. Live(t) /\ owner[t] = c
  BY Assumptions DEF IInv, Entries, Tasks, NoTask
<1>2. /\ \A u \in Tasks : Live(u)' <=> Live(u)
      /\ \A u \in Tasks \ {t} : Live(u) => owner[u] # c /\ owner[u] \in Conversations
  BY <1>1 DEF IInv, TypeOK, Entries, Live, HoldsPermit
<1>3. m \in Item /\ m.id \in 1 .. MaxMessages /\ m.id \in Nat
  BY Assumptions DEF Item, Message
<1>4. /\ queue' \in [Tasks -> Seq(Item)]
      /\ \A u \in Tasks : Len(queue'[u]) <= MaxQueueSize
      /\ queue'[t] = Put(queue[t], m)
      /\ \A u \in Tasks \ {t} : queue'[u] = queue[u]
  BY <1>3, PutType
<1>5. /\ received[c] \in Nat /\ started[c] \in Nat /\ started[c] <= received[c]
      /\ ended[t] \in Nat /\ ended[t] <= started[c] /\ queue[t] \in Seq(Item)
      /\ Within(queue[t], started[c], received[c]) /\ Sorted(queue[t])
      /\ Behind(queue[t], ended[t])
      /\ HasSentinel(queue[t]) => ended[t] # 0
  BY <1>1, LiveTask, Assumptions
<1>6. received'[c] = m.id /\ \A d \in Conversations \ {c} : received'[d] = received[d]
  BY DEF IInv, TypeOK
<1>7. Below(queue[t], m.id)
  BY <1>3, <1>5, WithinBelow
<1>8. /\ Within(queue'[t], started[c], m.id) /\ Sorted(queue'[t])
      /\ Behind(queue'[t], ended[t])
      /\ HasSentinel(queue'[t]) => HasSentinel(queue[t])
  <2>1. Within(Put(queue[t], m), started[c], m.id)
    BY <1>3, <1>5, <1>7, PutEvent
  <2>2. Behind(Put(queue[t], m), ended[t])
    BY <1>3, <1>5, <1>7, PutEvent
  <2>3. /\ Sorted(Put(queue[t], m))
        /\ HasSentinel(Put(queue[t], m)) => HasSentinel(queue[t])
    BY <1>5, <1>7, PutEvent
  <2> QED BY <1>4, <2>1, <2>2, <2>3
<1>9. TypeOK'
  <2>1. received' \in [Conversations -> 0 .. MaxMessages]
    BY <1>3, <1>6 DEF IInv, TypeOK
  <2> QED BY <1>4, <2>1 DEF IInv, TypeOK, Item
<1>10. Permits' /\ Entries'
  BY DEF IInv, Permits, Entries, Holders, HoldsPermit, Live
<1>11. Order'
  <2>1. \A d \in Conversations : started[d] <= received'[d]
    BY <1>3, <1>5, <1>6 DEF IInv, Order
  <2>2. \A u \in Tasks : Live(u) =>
             Within(queue'[u], started[owner[u]], received'[owner[u]]) /\ Sorted(queue'[u])
    BY <1>1, <1>2, <1>4, <1>6, <1>8 DEF IInv, Order
  <2> QED BY <1>2, <2>1, <2>2 DEF IInv, Order
<1>12. Sentinels'
  <2>1. \A u \in Tasks : ended[u] <= received'[owner[u]]
    <3>1. ASSUME NEW u \in Tasks
          PROVE  ended[u] <= received'[owner[u]]
      <4>1. /\ owner[u] \in Conversations /\ ended[u] <= received[owner[u]] /\ ended[u] \in Nat
            /\ received[owner[u]] \in Nat
        BY Assumptions DEF IInv, TypeOK, Sentinels
      <4> QED BY <1>3, <1>6, <4>1
    <3> QED BY <3>1
  <2>2. \A u \in Tasks : Live(u) =>
           /\ ended[u] <= started[owner[u]] /\ Behind(queue'[u], ended[u])
           /\ HasSentinel(queue'[u]) => ended[u] # 0
    BY <1>1, <1>4, <1>5, <1>8 DEF IInv, Sentinels
  <2>3. \A u \in Tasks : state[u] = "dead" => After(queue'[u], ended[u])
    BY <1>1, <1>4 DEF IInv, Sentinels, Live, HoldsPermit
  <2> QED BY <1>2, <2>1, <2>2, <2>3 DEF IInv, Sentinels
<1> QED BY <1>9, <1>10, <1>11, <1>12 DEF IInv

\* An event for a conversation whose queue is full: the loop blocks.
LEMMA BlockInv ==
  ASSUME IInv, NEW c \in Conversations, NEW m \in Message, NEW t \in Tasks,
         phase = "running", loop = Ready, m.id = received[c] + 1, t = convQueues[c],
         received' = [received EXCEPT ![c] = @ + 1],
         loop' = [task |-> t, msg |-> m],
         UNCHANGED <<convQueues, created, owner, state, queue, current, permits, phase,
                     pending, started, ended>>
  PROVE  IInv'
<1>1. Live(t) /\ owner[t] = c
  BY Assumptions DEF IInv, Entries, Tasks, NoTask
<1>2. /\ \A u \in Tasks : Live(u)' <=> Live(u)
      /\ \A u \in Tasks \ {t} : Live(u) => owner[u] # c /\ owner[u] \in Conversations
  BY <1>1 DEF IInv, TypeOK, Entries, Live, HoldsPermit
<1>3. m.id \in 1 .. MaxMessages /\ m.id \in Nat
  BY Assumptions DEF Message
<1>4. /\ received[c] \in Nat /\ started[c] \in Nat /\ started[c] <= received[c]
      /\ ended[t] \in Nat /\ ended[t] <= started[c] /\ queue[t] \in Seq(Item)
      /\ Within(queue[t], started[c], received[c])
  BY <1>1, LiveTask, Assumptions
<1>5. received'[c] = m.id /\ \A d \in Conversations \ {c} : received'[d] = received[d]
  BY DEF IInv, TypeOK
<1>6. Below(queue[t], m.id)
  BY <1>3, <1>4, WithinBelow
<1>7. loop'.task = t /\ loop'.msg = m
  OBVIOUS
<1>8. TypeOK'
  <2>1. received' \in [Conversations -> 0 .. MaxMessages]
    BY <1>3, <1>5 DEF IInv, TypeOK
  <2>2. loop' \in [task : Tasks, msg : Message]
    OBVIOUS
  <2> QED BY <2>1, <2>2 DEF IInv, TypeOK
<1>9. Permits'
  BY DEF IInv, Permits, Holders, HoldsPermit
<1>10. Entries'
  <2>1. t <= created
    BY <1>1, LiveIsBorn
  <2>2. (/\ \A u \in Tasks : u > created <=> state[u] = "unborn"
         /\ \A u \in Tasks : Live(u) => convQueues[owner[u]] = u
         /\ \A d \in Conversations :
              convQueues[d] # NoTask => Live(convQueues[d]) /\ owner[convQueues[d]] = d
         /\ pending # {} => phase = "stopping"
         /\ \A u \in pending : u <= created)'
    BY DEF IInv, Entries, Live, HoldsPermit
  <2> QED BY <1>7, <2>1, <2>2 DEF Entries
<1>11. Order'
  <2>1. \A d \in Conversations : started[d] <= received'[d]
    BY <1>3, <1>4, <1>5 DEF IInv, Order
  <2>2. \A u \in Tasks : Live(u) =>
             Within(queue[u], started[owner[u]], received'[owner[u]]) /\ Sorted(queue[u])
    <3>1. Within(queue[t], started[c], m.id)
      BY <1>3, <1>4, WithinGrows
    <3> QED BY <1>1, <1>2, <1>5, <3>1 DEF IInv, Order
  <2>3. /\ loop'.msg.id = received'[owner[t]]
        /\ started[owner[t]] < loop'.msg.id
        /\ Below(queue[t], loop'.msg.id)
    BY <1>1, <1>3, <1>4, <1>5, <1>6, <1>7
  <2>4. \A u \in Tasks : state[u] = "handling" =>
           current[u] \in Message /\ current[u].id = started[owner[u]]
    BY DEF IInv, Order
  <2> QED BY <1>2, <1>7, <2>1, <2>2, <2>3, <2>4 DEF Order
<1>12. Sentinels'
  <2>1. \A u \in Tasks : ended[u] <= received'[owner[u]]
    <3>1. ASSUME NEW u \in Tasks
          PROVE  ended[u] <= received'[owner[u]]
      <4>1. /\ owner[u] \in Conversations /\ ended[u] <= received[owner[u]] /\ ended[u] \in Nat
            /\ received[owner[u]] \in Nat
        BY Assumptions DEF IInv, TypeOK, Sentinels
      <4> QED BY <1>3, <1>5, <4>1
    <3> QED BY <3>1
  <2>2. ended[t] < m.id /\ state[t] # "dead"
    BY <1>1, <1>3, <1>4 DEF Live, HoldsPermit
  <2>3. (/\ \A u \in Tasks : state[u] = "unborn" => ended[u] = 0
         /\ \A u \in Tasks : Live(u) =>
               ended[u] <= started[owner[u]] /\ Behind(queue[u], ended[u])
         /\ \A u \in Tasks : Live(u) /\ HasSentinel(queue[u]) => ended[u] # 0
         /\ \A u \in Tasks : state[u] = "dead" => After(queue[u], ended[u]))'
    BY <1>2 DEF IInv, Sentinels
  <2> QED BY <1>7, <2>1, <2>2, <2>3 DEF Sentinels
<1> QED BY <1>8, <1>9, <1>10, <1>11, <1>12 DEF IInv

LEMMA ReceiveInv ==
  ASSUME IInv, NEW c \in Conversations, NEW kind \in Kinds, Receive(c, kind)
  PROVE  IInv'
<1> DEFINE m == [id |-> received[c] + 1, kind |-> kind]
<1>1. /\ phase = "running" /\ loop = Ready /\ received[c] < MaxMessages
      /\ received' = [received EXCEPT ![c] = @ + 1]
      /\ \/ ~HasQueue(c) /\ Spawn(c, m)
         \/ HasQueue(c) /\ Enqueue(convQueues[c], m)
      /\ UNCHANGED <<current, permits, phase, pending, started, ended>>
  BY DEF Receive
<1>2. m \in Message /\ m.id = received[c] + 1
  BY <1>1, Assumptions DEF IInv, TypeOK, Message
<1> HIDE DEF m
<1>3. CASE ~HasQueue(c) /\ Spawn(c, m)
  <2>1. created + 1 \in Tasks
    BY <1>3 DEF Spawn
  <2> QED BY <1>1, <1>2, <1>3, <2>1, SpawnInv
<1>4. CASE HasQueue(c) /\ Enqueue(convQueues[c], m)
  <2>1. convQueues[c] \in Tasks
    BY <1>4 DEF IInv, TypeOK, HasQueue
  <2>2. CASE /\ ~Full(convQueues[c])
             /\ queue' = [queue EXCEPT ![convQueues[c]] = Put(@, m)]
             /\ UNCHANGED loop
    BY <1>1, <1>2, <1>4, <2>1, <2>2, EnqueueInv DEF Enqueue
  <2>3. CASE loop' = [task |-> convQueues[c], msg |-> m] /\ UNCHANGED queue
    BY <1>1, <1>2, <1>4, <2>1, <2>3, BlockInv DEF Enqueue
  <2> QED BY <1>4, <2>2, <2>3 DEF Enqueue
<1> QED BY <1>1, <1>3, <1>4

\* The blocked put goes through, whether its queue still has a reader or not.
LEMMA LoopResumesInv ==
  ASSUME IInv, LoopResumes
  PROVE  IInv'
<1>1. loop.task \in Tasks /\ loop.msg \in Message /\ loop # Ready
  BY DEF LoopResumes, IInv, TypeOK
<1> SUFFICES ASSUME NEW t \in Tasks, t = loop.task, NEW m \in Message, m = loop.msg
             PROVE  IInv'
  BY <1>1
<1>2. /\ ~Full(t) /\ queue' = [queue EXCEPT ![t] = Put(@, m)] /\ loop' = Ready
      /\ UNCHANGED <<convQueues, created, owner, state, current, permits, phase,
                     pending, received, started, ended>>
  BY DEF LoopResumes
<1>3. m \in Item /\ m.id \in 1 .. MaxMessages /\ m.id \in Nat
  BY Assumptions DEF Item, Message
<1>4. /\ queue' \in [Tasks -> Seq(Item)]
      /\ \A u \in Tasks : Len(queue'[u]) <= MaxQueueSize
      /\ queue'[t] = Put(queue[t], m)
      /\ \A u \in Tasks \ {t} : queue'[u] = queue[u]
  BY <1>2, <1>3, PutType
<1>5. queue[t] \in Seq(Item) /\ ended[t] \in Nat
  BY QueueType
<1>6. phase = "running" /\ m.id = received[owner[t]] /\ ended[t] < m.id
      /\ (state[t] = "dead" => ended[t] # 0)
  BY <1>1 DEF IInv, Entries, Order, Sentinels
<1>7. \A u \in Tasks : Live(u)' <=> Live(u)
  BY <1>2 DEF Live, HoldsPermit
<1>8. ASSUME Live(t)
      PROVE  /\ Within(queue'[t], started[owner[t]], received[owner[t]])
             /\ Sorted(queue'[t]) /\ Behind(queue'[t], ended[t])
             /\ HasSentinel(queue'[t]) => ended[t] # 0
  <2>1. /\ started[owner[t]] \in Nat /\ received[owner[t]] \in Nat
        /\ Within(queue[t], started[owner[t]], received[owner[t]]) /\ Sorted(queue[t])
        /\ Behind(queue[t], ended[t]) /\ (HasSentinel(queue[t]) => ended[t] # 0)
        /\ Below(queue[t], m.id)
    BY <1>1, <1>6, <1>8, LiveTask, Assumptions
  <2>2. started[owner[t]] < m.id
    BY <1>1, <1>8 DEF IInv, Order
  <2>3. Within(Put(queue[t], m), started[owner[t]], m.id)
    BY <1>3, <1>5, <1>6, <2>1, <2>2, PutEvent
  <2>4. Behind(Put(queue[t], m), ended[t])
    BY <1>5, <1>6, <2>1, PutEvent
  <2>5. Sorted(Put(queue[t], m)) /\ (HasSentinel(Put(queue[t], m)) => HasSentinel(queue[t]))
    BY <1>5, <2>1, PutEvent
  <2> QED BY <1>4, <1>6, <2>1, <2>3, <2>4, <2>5
<1>9. ASSUME state[t] = "dead"
      PROVE  After(queue'[t], ended[t])
  <2>1. After(queue[t], ended[t]) /\ ended[t] \in 1 .. m.id - 1
    BY <1>3, <1>5, <1>6, <1>9 DEF IInv, Sentinels
  <2>2. m # None /\ Len(queue[t]) \in Nat /\ Len(queue'[t]) = Len(queue[t]) + 1
        /\ queue'[t][Len(queue[t]) + 1] = m
        /\ \A i \in 1 .. Len(queue[t]) : queue'[t][i] = queue[t][i]
    BY <1>3, <1>4, <1>5, ItemFacts, AppendFacts DEF Put
  <2>3. ASSUME NEW i \in 1 .. Len(queue'[t]), queue'[t][i] # None
        PROVE  ended[t] \in 1 .. queue'[t][i].id - 1
    <3>1. CASE i = Len(queue[t]) + 1
      BY <2>1, <2>2, <3>1
    <3>2. CASE i # Len(queue[t]) + 1
      <4>1. i \in 1 .. Len(queue[t])
        BY <2>2, <3>2
      <4> QED BY <2>1, <2>2, <2>3, <4>1 DEF After
    <3> QED BY <3>1, <3>2
  <2> QED BY <2>3 DEF After
<1>10. TypeOK'
  BY <1>2, <1>4 DEF IInv, TypeOK, Item
<1>11. Permits' /\ Entries'
  BY <1>2 DEF IInv, Permits, Entries, Holders, HoldsPermit, Live
<1>12. Order'
  BY <1>2, <1>4, <1>7, <1>8 DEF IInv, Order
<1>13. Sentinels'
  <2>1. \A u \in Tasks : Live(u) =>
           /\ ended[u] <= started[owner[u]] /\ Behind(queue'[u], ended[u])
           /\ HasSentinel(queue'[u]) => ended[u] # 0
    BY <1>4, <1>6, <1>8 DEF IInv, Sentinels
  <2>2. \A u \in Tasks : state[u] = "dead" => After(queue'[u], ended[u])
    BY <1>4, <1>9 DEF IInv, Sentinels
  <2> QED BY <1>2, <1>7, <2>1, <2>2 DEF IInv, Sentinels
<1> QED BY <1>10, <1>11, <1>12, <1>13 DEF IInv

\* The loop is cancelled, with what it was blocked on.
LEMMA StopInv ==
  ASSUME IInv, Stop
  PROVE  IInv'
<1>1. /\ phase' = "stopping" /\ loop' = Ready
      /\ pending' = {convQueues[c] : c \in Conversations} \ {NoTask}
      /\ UNCHANGED <<convQueues, created, owner, state, queue, current, permits,
                     received, started, ended>>
  BY DEF Stop
<1>2. \A t \in pending' : t \in Tasks /\ t <= created
  <2>1. ASSUME NEW c \in Conversations, NEW t \in Tasks, t = convQueues[c]
        PROVE  t <= created
    <3>1. Live(t)
      BY <2>1, Assumptions DEF IInv, Entries, Tasks, NoTask
    <3> QED BY <3>1, LiveIsBorn
  <2>2. \A c \in Conversations : convQueues[c] \in Tasks \cup {NoTask}
    BY DEF IInv, TypeOK
  <2> QED BY <1>1, <2>1, <2>2
<1>3. TypeOK'
  BY <1>1, <1>2 DEF IInv, TypeOK
<1>4. Permits'
  BY <1>1 DEF IInv, Permits, Holders, HoldsPermit
<1>5. Entries'
  BY <1>1, <1>2 DEF IInv, Entries, Live, HoldsPermit
<1>6. Order' /\ Sentinels'
  BY <1>1 DEF IInv, Order, Sentinels, Live, HoldsPermit
<1> QED BY <1>3, <1>4, <1>5, <1>6 DEF IInv

LEMMA StopPutsInv ==
  ASSUME IInv, NEW t \in Tasks, StopPuts(t)
  PROVE  IInv'
<1>1. /\ t \in pending /\ ~Full(t)
      /\ queue' = [queue EXCEPT ![t] = Put(@, None)]
      /\ pending' = pending \ {t}
      /\ UNCHANGED <<convQueues, created, owner, state, current, permits, loop,
                     phase, received, started, ended>>
  BY DEF StopPuts
<1>2. phase = "stopping" /\ loop = Ready
  BY <1>1 DEF IInv, Entries
<1>3. /\ queue' \in [Tasks -> Seq(Item)]
      /\ \A u \in Tasks : Len(queue'[u]) <= MaxQueueSize
      /\ queue'[t] = Put(queue[t], None)
      /\ \A u \in Tasks \ {t} : queue'[u] = queue[u]
  BY <1>1, PutType DEF Item
<1>4. queue[t] \in Seq(Item) /\ ended[t] \in Nat
  BY QueueType
<1>5. \A u \in Tasks : Live(u)' <=> Live(u)
  BY <1>1 DEF Live, HoldsPermit
<1>6. ASSUME Live(t)
      PROVE  /\ Within(queue'[t], started[owner[t]], received[owner[t]])
             /\ Sorted(queue'[t]) /\ Behind(queue'[t], ended[t])
  BY <1>3, <1>4, <1>6, LiveTask, PutSentinel, Assumptions
<1>7. state[t] = "dead" => After(queue'[t], ended[t])
  BY <1>3, <1>4, PutSentinel DEF IInv, Sentinels
<1>8. TypeOK'
  BY <1>1, <1>3 DEF IInv, TypeOK, Item
<1>9. Permits' /\ Entries'
  BY <1>1 DEF IInv, Permits, Entries, Holders, HoldsPermit, Live
<1>10. Order'
  BY <1>1, <1>2, <1>3, <1>5, <1>6 DEF IInv, Order
<1>11. Sentinels'
  BY <1>1, <1>2, <1>3, <1>5, <1>6, <1>7 DEF IInv, Sentinels
<1> QED BY <1>8, <1>9, <1>10, <1>11 DEF IInv

LEMMA StutterInv ==
  ASSUME IInv, UNCHANGED <<convQueues, created, owner, state, queue, current, permits,
                           loop, pending, received, started, ended>>,
         phase' = phase \/ (phase = "stopping" /\ phase' = "stopped" /\ pending = {})
  PROVE  IInv'
<1>1. TypeOK' /\ Permits'
  BY DEF IInv, TypeOK, Permits, Holders, HoldsPermit
<1>2. Entries'
  BY DEF IInv, Entries, Live, HoldsPermit
<1>3. Order' /\ Sentinels'
  BY DEF IInv, Entries, Order, Sentinels, Live, HoldsPermit
<1> QED BY <1>1, <1>2, <1>3 DEF IInv

\* Every step keeps the invariant.
LEMMA NextInv == IInv /\ [Next]_vars => IInv'
<1> SUFFICES ASSUME IInv, [Next]_vars
             PROVE  IInv'
  OBVIOUS
<1>1. CASE \E c \in Conversations, kind \in Kinds : Receive(c, kind)
  BY <1>1, ReceiveInv
<1>2. CASE LoopResumes
  BY <1>2, LoopResumesInv
<1>3. ASSUME NEW t \in Tasks, AcquireSemaphore(t)
      PROVE  IInv'
  BY <1>3, AcquireSemaphoreInv
<1>4. ASSUME NEW t \in Tasks, WakeUp(t)
      PROVE  IInv'
  BY <1>4, WakeUpInv
<1>5. ASSUME NEW t \in Tasks, HandlerSettles(t)
      PROVE  IInv'
  BY <1>5, HandlerSettlesInv
<1>6. ASSUME NEW t \in Tasks, ChatEndReturns(t)
      PROVE  IInv'
  BY <1>6, ChatEndReturnsInv
<1>7. ASSUME NEW t \in Tasks, StopPuts(t)
      PROVE  IInv'
  BY <1>7, StopPutsInv
<1>8. CASE Stop
  BY <1>8, StopInv
<1>9. CASE Stopped
  BY <1>9, StutterInv DEF Stopped
<1>10. CASE UNCHANGED vars
  <2>1. phase' = phase /\ UNCHANGED <<convQueues, created, owner, state, queue, current,
                                      permits, loop, pending, received, started, ended>>
    BY <1>10 DEF vars
  <2> QED BY <2>1, StutterInv
<1> QED BY <1>1, <1>2, <1>3, <1>4, <1>5, <1>6, <1>7, <1>8, <1>9, <1>10 DEF Next

LEMMA Invariance == Spec => []IInv
<1>1. Init => IInv
  BY InitInv
<1>2. IInv /\ [Next]_vars => IInv'
  BY NextInv
<1> QED BY <1>1, <1>2, PTL DEF Spec

-----------------------------------------------------------------------------
(* The theorems *)

\* In every reachable state every variable has its type: among other things no queue
\* is longer than _MAX_QUEUE_SIZE and the semaphore never exceeds its initial value.
THEOREM TypeCorrect == Spec => []TypeOK
<1>1. IInv => TypeOK
  BY DEF IInv
<1> QED BY <1>1, Invariance, PTL

\* A conversation never has two workers: a worker that has not finished is the one in
\* the dictionaries (kafka_consumer.py, _conversation_worker's docstring).
THEOREM NeverParallelHolds == Spec => []NeverParallel
<1>1. IInv => NeverParallel
  BY DEF IInv, Entries, NeverParallel
<1> QED BY <1>1, Invariance, PTL

\* A worker that finished left behind only events that came after a chat_end it had
\* handled: neither backpressure nor shutdown makes it drop anything else.
THEOREM LostOnlyBehindChatEndHolds == Spec => []LostOnlyBehindChatEnd
<1>1. ASSUME IInv
      PROVE  LostOnlyBehindChatEnd
  <2>1. \A t \in Tasks : DOMAIN queue[t] = 1 .. Len(queue[t])
    BY <1>1, QueueType
  <2> QED BY <1>1, <2>1 DEF IInv, Sentinels, After, LostOnlyBehindChatEnd
<1> QED BY <1>1, Invariance, PTL

-----------------------------------------------------------------------------
(* The dispatcher implements OrderedDispatch *)

\* The event in service of one conversation
Serving(c) == IF HasQueue(c) /\ state[convQueues[c]] = "handling"
              THEN current[convQueues[c]].id ELSE 0

LEMMA InServiceFacts ==
  /\ InService = [c \in Conversations |-> Serving(c)]
  /\ InService' = [c \in Conversations |-> Serving(c)']
BY DEF InService, Serving

\* A step that changes the event in service of no conversation
LEMMA SameService ==
  ASSUME \A c \in Conversations : Serving(c)' = Serving(c)
  PROVE  InService' = InService
BY InServiceFacts

\* A step in which only conversation c changes the event it has in service
LEMMA OneService ==
  ASSUME NEW c \in Conversations, NEW n, Serving(c)' = n,
         \A d \in Conversations \ {c} : Serving(d)' = Serving(d)
  PROVE  InService' = [InService EXCEPT ![c] = n]
<1>1. InService' = [d \in Conversations |-> IF d = c THEN n ELSE Serving(d)]
  BY InServiceFacts
<1> QED BY <1>1, InServiceFacts

\* A step of a live task t that leaves other tasks and entries alone leaves the
\* service of other conversations alone.
LEMMA OtherService ==
  ASSUME IInv, NEW t \in Tasks, Live(t), NEW d \in Conversations, d # owner[t],
         convQueues'[d] = convQueues[d],
         \A u \in Tasks \ {t} : state'[u] = state[u] /\ current'[u] = current[u]
  PROVE  Serving(d)' = Serving(d)
<1>1. CASE convQueues[d] = NoTask
  BY <1>1 DEF Serving, HasQueue
<1>2. CASE convQueues[d] # NoTask
  <2>1. convQueues[d] \in Tasks \ {t}
    BY <1>2 DEF IInv, TypeOK, Entries
  <2> QED BY <2>1 DEF Serving, HasQueue
<1> QED BY <1>1, <1>2

\* The end of a service is a Finish step or, when there was none, no step.
LEMMA EndOfService ==
  ASSUME NEW c \in Conversations, Serving(c)' = 0, UNCHANGED <<received, started>>,
         \A d \in Conversations \ {c} : Serving(d)' = Serving(d)
  PROVE  [Contract!AbsNext]_Contract!absVars
<1>1. InService' = [InService EXCEPT ![c] = 0]
  BY OneService
<1>2. CASE Serving(c) = 0
  <2>1. InService' = InService
    BY <1>2, SameService
  <2> QED BY <2>1 DEF Contract!absVars
<1>3. CASE Serving(c) # 0
  <2>1. InService[c] # 0
    BY <1>3, InServiceFacts
  <2>2. Contract!Finish(c)
    BY <1>1, <2>1 DEF Contract!Finish
  <2> QED BY <2>2 DEF Contract!AbsNext
<1> QED BY <1>2, <1>3

\* A worker that takes its next item begins a service, ends one, or does neither.
LEMMA GetNextImplements ==
  ASSUME IInv, NEW t \in Tasks, Live(t), NEW q, q[t] \in Seq(Item), NEW p,
         Within(q[t], started[owner[t]], received[owner[t]]),
         GetNext(t, q, p)
  PROVE  [Contract!AbsNext]_Contract!absVars
<1> SUFFICES ASSUME NEW c, c = owner[t]
             PROVE  [Contract!AbsNext]_Contract!absVars
  OBVIOUS
<1>1. /\ c \in Conversations /\ convQueues[c] = t /\ t # NoTask
      /\ started[c] \in Nat /\ received[c] \in 0 .. MaxMessages
  BY LiveTask
<1>2. received' = received
  BY DEF GetNext
<1>3. ASSUME NEW x, NEW y, state' = [state EXCEPT ![t] = x], current' = [current EXCEPT ![t] = y],
             \A d \in Conversations \ {c} : convQueues'[d] = convQueues[d]
      PROVE  \A d \in Conversations \ {c} : Serving(d)' = Serving(d)
  <2>1. \A u \in Tasks \ {t} : state'[u] = state[u] /\ current'[u] = current[u]
    BY <1>3 DEF IInv, TypeOK
  <2> QED BY <1>3, <2>1, OtherService
<1>4. CASE Park(t, q, p)
  <2>1. \A d \in Conversations \ {c} : Serving(d)' = Serving(d)
    BY <1>3, <1>4 DEF Park
  <2>2. Serving(c)' = 0
    <3>1. convQueues' = convQueues /\ owner' = owner /\ state'[t] = "idle"
      BY <1>4 DEF Park, GetNext, IInv, TypeOK
    <3>2. convQueues'[c] = t
      BY <1>1, <3>1
    <3> QED BY <3>1, <3>2 DEF Serving, GetNext
  <2>3. started' = started
    BY <1>4 DEF Park
  <2> QED BY <1>1, <1>2, <2>1, <2>2, <2>3, EndOfService
<1>5. CASE Retire(t, q, p)
  <2>1. convQueues' = [convQueues EXCEPT ![c] = NoTask] /\ started' = started
    BY <1>5 DEF Retire
  <2>2. \A d \in Conversations \ {c} : Serving(d)' = Serving(d)
    BY <1>3, <1>5, <2>1 DEF Retire, IInv, TypeOK
  <2>3. Serving(c)' = 0
    <3>1. convQueues'[c] = NoTask
      BY <1>1, <2>1 DEF IInv, TypeOK
    <3> QED BY <3>1 DEF Serving, HasQueue, GetNext
  <2> QED BY <1>1, <1>2, <2>1, <2>2, <2>3, EndOfService
<1>6. CASE Handle(t, q, p)
  <2> DEFINE n == Head(q[t]).id
  <2>1. /\ state' = [state EXCEPT ![t] = "handling"] /\ convQueues' = convQueues
        /\ current' = [current EXCEPT ![t] = Head(q[t])]
        /\ started' = [started EXCEPT ![c] = n]
        /\ q[t] # <<>> /\ Head(q[t]) # None
    BY <1>6 DEF Handle
  <2>2. n \in started[c] + 1 .. received[c]
    BY <1>1, <2>1, GetFirst
  <2>3. \A d \in Conversations \ {c} : Serving(d)' = Serving(d)
    BY <1>3, <2>1
  <2>4. Serving(c)' = n
    <3>1. state'[t] = "handling" /\ current'[t].id = n /\ convQueues'[c] = t
      BY <1>1, <2>1 DEF IInv, TypeOK
    <3> QED BY <1>1, <3>1 DEF Serving, HasQueue, GetNext
  <2>5. InService' = [InService EXCEPT ![c] = n]
    BY <1>1, <2>3, <2>4, OneService
  <2>6. Contract!Begin(c, n)
    BY <1>2, <2>1, <2>2, <2>5 DEF Contract!Begin
  <2>7. n \in 1 .. MaxMessages
    BY <1>1, <2>2, Assumptions
  <2> QED BY <1>1, <2>6, <2>7 DEF Contract!AbsNext
<1> QED BY <1>4, <1>5, <1>6 DEF GetNext

LEMMA ChatEndImplements ==
  ASSUME IInv, NEW t \in Tasks, ChatEndReturns(t)
  PROVE  [Contract!AbsNext]_Contract!absVars
<1>1. state[t] = "handling" /\ Live(t)
  BY DEF ChatEndReturns, Live, HoldsPermit
<1>2. /\ owner[t] \in Conversations /\ convQueues[owner[t]] = t /\ t # NoTask
      /\ started[owner[t]] \in Nat /\ received[owner[t]] \in Nat
      /\ queue[t] \in Seq(Item)
      /\ Within(queue[t], started[owner[t]], received[owner[t]])
  BY <1>1, LiveTask, Assumptions
<1> DEFINE q == [queue EXCEPT ![t] = Put(queue[t], None)]
<1>3. CASE GetNext(t, q, permits)
  <2>1. q[t] = Put(queue[t], None) /\ None \in Item
    BY QueueType DEF Item
  <2>2. q[t] \in Seq(Item) /\ Within(q[t], started[owner[t]], received[owner[t]])
    BY <1>2, <2>1, PutSentinel, AppendFacts DEF Put
  <2> HIDE DEF q
  <2> QED BY <1>1, <1>3, <2>2, GetNextImplements
<1>4. CASE /\ state' = [state EXCEPT ![t] = "ending"]
           /\ UNCHANGED <<convQueues, created, owner, queue, current, permits,
                          loop, phase, pending, received, started>>
  <2>1. ASSUME NEW d \in Conversations, d # owner[t]
        PROVE  Serving(d)' = Serving(d)
    <3>1. \A u \in Tasks \ {t} : state'[u] = state[u] /\ current'[u] = current[u]
      BY <1>4 DEF IInv, TypeOK
    <3> QED BY <1>1, <1>4, <2>1, <3>1, OtherService
  <2>3. PICK c \in Conversations : c = owner[t]
    BY <1>2
  <2>4. Serving(c)' = 0
    <3>1. convQueues'[c] = t /\ state'[t] = "ending"
      BY <1>2, <1>4, <2>3 DEF IInv, TypeOK
    <3> QED BY <3>1 DEF Serving
  <2> QED BY <1>4, <2>1, <2>3, <2>4, EndOfService
<1> QED BY <1>2, <1>3, <1>4 DEF ChatEndReturns

LEMMA ReceiveImplements ==
  ASSUME IInv, NEW c \in Conversations, NEW kind \in Kinds, Receive(c, kind)
  PROVE  Contract!Accept(c)
<1>1. /\ received[c] < MaxMessages /\ received' = [received EXCEPT ![c] = @ + 1]
      /\ UNCHANGED <<current, permits, phase, pending, started, ended>>
  BY DEF Receive
<1>2. PICK m : \/ ~HasQueue(c) /\ Spawn(c, m)
               \/ HasQueue(c) /\ Enqueue(convQueues[c], m)
  BY DEF Receive
<1>3. \A d \in Conversations : Serving(d)' = Serving(d)
  <2>1. CASE ~HasQueue(c) /\ Spawn(c, m)
    <3> SUFFICES ASSUME NEW t \in Tasks, t = created + 1, NEW d \in Conversations
                 PROVE  Serving(d)' = Serving(d)
      BY <2>1 DEF Spawn
    <3>1. /\ convQueues' = [convQueues EXCEPT ![c] = t] /\ state[t] = "unborn"
          /\ state' = [state EXCEPT ![t] = "waiting"]
      BY <2>1, Assumptions DEF Spawn, IInv, TypeOK, Entries, Tasks
    <3>2. CASE d = c
      <4>1. Serving(d) = 0
        BY <2>1, <3>2 DEF Serving
      <4>2. convQueues'[d] = t /\ state'[t] = "waiting"
        BY <3>1, <3>2 DEF IInv, TypeOK
      <4> QED BY <4>1, <4>2 DEF Serving
    <3>3. CASE d # c
      <4>1. convQueues'[d] = convQueues[d] /\ \A u \in Tasks \ {t} : state'[u] = state[u]
        BY <3>1, <3>3 DEF IInv, TypeOK
      <4>2. convQueues[d] # NoTask => convQueues[d] \in Tasks \ {t}
        <5>1. convQueues[d] # NoTask => convQueues[d] \in Tasks /\ Live(convQueues[d])
          BY DEF IInv, TypeOK, Entries
        <5>2. ~Live(t)
          BY <3>1 DEF Live, HoldsPermit
        <5> QED BY <5>1, <5>2
      <4> QED BY <1>1, <4>1, <4>2 DEF Serving, HasQueue
    <3> QED BY <3>2, <3>3
  <2>2. CASE HasQueue(c) /\ Enqueue(convQueues[c], m)
    BY <1>1, <2>2 DEF Enqueue, Serving, HasQueue
  <2> QED BY <1>2, <2>1, <2>2
<1> QED BY <1>1, <1>3, SameService DEF Contract!Accept

\* Every step of the dispatcher is a step of its contract or changes nothing there.
LEMMA NextImplements ==
  IInv /\ [Next]_vars => [Contract!AbsNext]_Contract!absVars
<1> SUFFICES ASSUME IInv, [Next]_vars
             PROVE  [Contract!AbsNext]_Contract!absVars
  OBVIOUS
<1>1. CASE \E c \in Conversations, kind \in Kinds : Receive(c, kind)
  BY <1>1, ReceiveImplements DEF Contract!AbsNext
<1>2. ASSUME NEW t \in Tasks, AcquireSemaphore(t) \/ WakeUp(t) \/ HandlerSettles(t)
      PROVE  [Contract!AbsNext]_Contract!absVars
  <2>1. Live(t) /\ \E p : GetNext(t, queue, p)
    BY <1>2 DEF AcquireSemaphore, WakeUp, HandlerSettles, Live, HoldsPermit
  <2> QED BY <2>1, LiveTask, GetNextImplements
<1>3. ASSUME NEW t \in Tasks, ChatEndReturns(t)
      PROVE  [Contract!AbsNext]_Contract!absVars
  BY <1>3, ChatEndImplements
<1>4. ASSUME UNCHANGED <<convQueues, state, current, received, started>>
      PROVE  [Contract!AbsNext]_Contract!absVars
  <2>1. InService' = InService
    BY <1>4 DEF InService, HasQueue
  <2> QED BY <1>4, <2>1 DEF Contract!absVars
<1>5. LoopResumes \/ Stop \/ Stopped \/ (\E t \in Tasks : StopPuts(t)) \/ UNCHANGED vars
         => UNCHANGED <<convQueues, state, current, received, started>>
  BY DEF LoopResumes, Stop, Stopped, StopPuts, vars
<1> QED BY <1>1, <1>2, <1>3, <1>4, <1>5 DEF Next

\* At most one event of a conversation is in service, and events enter service in the
\* order of their reception, whatever queues, tasks and semaphore do.
THEOREM Implements == Spec => OrderedService
<1>1. Init => Contract!AbsInit
  <2>1. Init => InService = [c \in Conversations |-> 0]
    BY DEF Init, InService, HasQueue
  <2> QED BY <2>1 DEF Init, Contract!AbsInit
<1>2. IInv /\ [Next]_vars => [Contract!AbsNext]_Contract!absVars
  BY NextImplements
<1> QED BY <1>1, <1>2, Invariance, PTL DEF Spec, OrderedService, Contract!AbsSpec

-----------------------------------------------------------------------------
(* While the consumer runs, a worker has all of its events before it *)

\* Every number in lo .. hi is that of an event of s.
Contains(s, lo, hi) == \A n \in lo .. hi : \E i \in 1 .. Len(s) : s[i].id = n

\* The last event that is in the queue of t, or was: all that were received except one
\* the loop is blocked on.
InQueueUpTo(t) == IF loop.task = t THEN received[owner[t]] - 1 ELSE received[owner[t]]

\* The queue of a worker that runs has no gap behind the last event started; that of a
\* worker waiting for the semaphore has none behind its first item, an event.
HasAll(t) ==
  /\ HoldsPermit(t) => Contains(queue[t], started[owner[t]] + 1, InQueueUpTo(t))
  /\ state[t] = "waiting" =>
       queue[t] # <<>> /\ ended[t] = 0 /\ Contains(queue[t], queue[t][1].id, InQueueUpTo(t))

Covers == phase = "running" => \A t \in Tasks : HasAll(t)

\* Put keeps what a queue contains, and adds the item put.
LEMMA PutContains ==
  ASSUME NEW s \in Seq(Item), NEW x \in Item, NEW lo \in Nat, NEW hi \in Int,
         Contains(s, lo, hi)
  PROVE  /\ Contains(Put(s, x), lo, hi)
         /\ x.id = hi + 1 => Contains(Put(s, x), lo, hi + 1)
         /\ Put(s, x) # <<>>
         /\ s # <<>> => Put(s, x)[1] = s[1]
<1>1. /\ Len(Put(s, x)) = Len(s) + 1 /\ Len(s) \in Nat
      /\ \A i \in 1 .. Len(s) : Put(s, x)[i] = s[i]
      /\ Put(s, x)[Len(s) + 1] = x
  BY AppendFacts DEF Put
<1>2. Contains(Put(s, x), lo, hi)
  <2>1. ASSUME NEW n \in lo .. hi
        PROVE  \E i \in 1 .. Len(Put(s, x)) : Put(s, x)[i].id = n
    <3>1. PICK i \in 1 .. Len(s) : s[i].id = n
      BY DEF Contains
    <3>2. i \in 1 .. Len(Put(s, x)) /\ Put(s, x)[i].id = n
      BY <1>1, <3>1
    <3> QED BY <3>2
  <2> QED BY <2>1 DEF Contains
<1>3. ASSUME x.id = hi + 1
      PROVE  Contains(Put(s, x), lo, hi + 1)
  <2>1. ASSUME NEW n \in lo .. hi + 1
        PROVE  \E i \in 1 .. Len(Put(s, x)) : Put(s, x)[i].id = n
    <3>1. CASE n = hi + 1
      <4>1. Len(s) + 1 \in 1 .. Len(Put(s, x)) /\ Put(s, x)[Len(s) + 1].id = n
        BY <1>1, <1>3, <3>1
      <4> QED BY <4>1
    <3>2. CASE n # hi + 1
      <4>1. n \in lo .. hi
        BY <3>2
      <4> QED BY <1>2, <4>1 DEF Contains
    <3> QED BY <3>1, <3>2
  <2> QED BY <2>1 DEF Contains
<1>4. Put(s, x) # <<>> /\ (s # <<>> => Put(s, x)[1] = s[1])
  <2>1. s # <<>> => 1 \in 1 .. Len(s)
    BY <1>1
  <2> QED BY <1>1, <2>1
<1> QED BY <1>2, <1>3, <1>4

\* get() leaves what comes behind the item it takes.
LEMMA TailContains ==
  ASSUME NEW s \in Seq(Item), s # <<>>, NEW lo \in Nat, NEW hi \in Int,
         Contains(s, lo, hi), lo <= Head(s).id
  PROVE  Contains(Tail(s), Head(s).id + 1, hi)
<1>1. /\ Len(s) \in Nat \ {0} /\ Len(Tail(s)) = Len(s) - 1 /\ Head(s) = s[1]
      /\ \A i \in 1 .. Len(s) : s[i] \in Item
      /\ \A i \in 1 .. Len(Tail(s)) : Tail(s)[i] = s[i + 1]
  BY TailFacts
<1>2. Head(s).id \in Nat
  <2>1. Head(s) \in Item
    BY <1>1
  <2> QED BY <2>1, ItemFacts
<1>3. ASSUME NEW n \in Head(s).id + 1 .. hi
      PROVE  \E i \in 1 .. Len(Tail(s)) : Tail(s)[i].id = n
  <2>1. n \in lo .. hi /\ n # s[1].id
    BY <1>1, <1>2
  <2>2. PICK i \in 1 .. Len(s) : s[i].id = n
    BY <2>1 DEF Contains
  <2>3. i # 1
    BY <2>1, <2>2
  <2>4. i - 1 \in 1 .. Len(Tail(s)) /\ Tail(s)[i - 1] = s[(i - 1) + 1] /\ (i - 1) + 1 = i
    BY <1>1, <2>3
  <2> QED BY <2>2, <2>4
<1> QED BY <1>3 DEF Contains

\* A task that a step leaves alone
LEMMA SameTask ==
  ASSUME NEW t \in Tasks, HasAll(t), state'[t] = state[t],
         Live(t) => /\ owner'[t] = owner[t] /\ queue'[t] = queue[t]
                    /\ started'[owner[t]] = started[owner[t]] /\ ended'[t] = ended[t]
                    /\ InQueueUpTo(t)' = InQueueUpTo(t)
  PROVE  HasAll(t)'
<1>1. CASE Live(t)
  BY <1>1 DEF HasAll, HoldsPermit
<1>2. CASE ~Live(t)
  BY <1>2 DEF HasAll, HoldsPermit, Live
<1> QED BY <1>1, <1>2

\* InQueueUpTo has its type.
LEMMA UpToType ==
  ASSUME IInv, NEW t \in Tasks
  PROVE  InQueueUpTo(t) \in Int /\ owner[t] \in Conversations /\ received[owner[t]] \in Nat
<1>1. owner[t] \in Conversations /\ received[owner[t]] \in Nat
  BY Assumptions DEF IInv, TypeOK
<1> QED BY <1>1 DEF InQueueUpTo

\* A task takes its next item from queues q, in which its own contains all events from
\* lo on; the first of them, if there is one, is the next to be started.
LEMMA GetNextCovers ==
  ASSUME IInv, NEW t \in Tasks, Live(t), \A u \in Tasks \ {t} : HasAll(u),
         NEW q \in [Tasks -> Seq(Item)], \A u \in Tasks \ {t} : q[u] = queue[u],
         NEW p, NEW lo \in Nat, Contains(q[t], lo, InQueueUpTo(t)),
         q[t] = <<>> => lo <= started[owner[t]] + 1,
         q[t] # <<>> /\ Head(q[t]) # None => lo <= Head(q[t]).id,
         \A u \in Tasks \ {t} : ended'[u] = ended[u],
         GetNext(t, q, p)
  PROVE  \A u \in Tasks : HasAll(u)'
<1>1. /\ owner' = owner /\ loop' = loop /\ received' = received /\ created' = created
      /\ \A u \in Tasks : InQueueUpTo(u)' = InQueueUpTo(u)
  BY DEF GetNext, InQueueUpTo
<1>2. /\ owner[t] \in Conversations /\ started[owner[t]] \in Nat /\ q[t] \in Seq(Item)
      /\ \A u \in Tasks \ {t} : Live(u) => owner[u] \in Conversations \ {owner[t]}
  BY Assumptions DEF IInv, TypeOK, Entries
<1>3. /\ \A u \in Tasks \ {t} : state'[u] = state[u] /\ queue'[u] = queue[u]
      /\ \A c \in Conversations \ {owner[t]} : started'[c] = started[c]
  BY <1>2 DEF GetNext, Park, Retire, Handle, IInv, TypeOK
<1>4. \A u \in Tasks \ {t} : HasAll(u)'
  BY <1>1, <1>2, <1>3, SameTask
<1>5. HasAll(t)'
  <2>1. CASE Park(t, q, p)
    <3>1. /\ queue'[t] = q[t] /\ q[t] = <<>> /\ state'[t] = "idle"
          /\ started'[owner[t]] = started[owner[t]]
      BY <2>1 DEF Park, IInv, TypeOK
    <3>2. Contains(q[t], started[owner[t]] + 1, InQueueUpTo(t))
      BY <1>2, <3>1, UpToType DEF Contains
    <3> QED BY <1>1, <3>1, <3>2 DEF HasAll, HoldsPermit
  <2>2. CASE Retire(t, q, p)
    <3>1. state'[t] = "dead"
      BY <2>2 DEF Retire, IInv, TypeOK
    <3> QED BY <3>1 DEF HasAll, HoldsPermit
  <2>3. CASE Handle(t, q, p)
    <3>1. /\ queue'[t] = Tail(q[t]) /\ q[t] # <<>> /\ Head(q[t]) # None
          /\ state'[t] = "handling" /\ started'[owner[t]] = Head(q[t]).id
      BY <1>2, <2>3 DEF Handle, IInv, TypeOK
    <3>2. Contains(Tail(q[t]), Head(q[t]).id + 1, InQueueUpTo(t))
      BY <1>2, <3>1, UpToType, TailContains
    <3> QED BY <1>1, <3>1, <3>2 DEF HasAll, HoldsPermit
  <2> QED BY <2>1, <2>2, <2>3 DEF GetNext
<1> QED BY <1>4, <1>5

\* The next item of a worker that runs is the event after the one it handled last.
LEMMA NextOfRunning ==
  ASSUME IInv, NEW t \in Tasks, Live(t), NEW s \in Seq(Item), s # <<>>, Head(s) # None,
         Within(s, started[owner[t]], received[owner[t]])
  PROVE  started[owner[t]] + 1 <= Head(s).id
<1>1. started[owner[t]] \in Nat /\ received[owner[t]] \in Nat
  BY LiveTask
<1>2. Head(s).id \in started[owner[t]] + 1 .. received[owner[t]]
  BY <1>1, GetFirst
<1> QED BY <1>1, <1>2

LEMMA WorkerCovers ==
  ASSUME IInv, \A u \in Tasks : HasAll(u), NEW t \in Tasks,
         AcquireSemaphore(t) \/ WakeUp(t) \/ HandlerSettles(t)
  PROVE  \A u \in Tasks : HasAll(u)'
<1>1. /\ queue \in [Tasks -> Seq(Item)] /\ queue[t] \in Seq(Item) /\ ended' = ended
      /\ Live(t)
  BY QueueType DEF AcquireSemaphore, WakeUp, HandlerSettles, Live, HoldsPermit
<1>2. CASE AcquireSemaphore(t)
  <2>1. state[t] = "waiting" /\ GetNext(t, queue, permits - 1)
    BY <1>2 DEF AcquireSemaphore
  <2>2. queue[t] # <<>> /\ Contains(queue[t], queue[t][1].id, InQueueUpTo(t))
    BY <2>1 DEF HasAll
  <2>3. Head(queue[t]) = queue[t][1] /\ queue[t][1].id \in Nat
    <3>1. Head(queue[t]) = queue[t][1] /\ Head(queue[t]) \in Item
      BY <1>1, <2>2, TailFacts, GetFirst
    <3> QED BY <3>1, ItemFacts
  <2> QED BY <1>1, <2>1, <2>2, <2>3, GetNextCovers
<1>3. CASE WakeUp(t) \/ HandlerSettles(t)
  <2>1. HoldsPermit(t) /\ GetNext(t, queue, permits)
    BY <1>3 DEF WakeUp, HandlerSettles, HoldsPermit
  <2>2. Contains(queue[t], started[owner[t]] + 1, InQueueUpTo(t))
    BY <2>1 DEF HasAll
  <2>3. /\ started[owner[t]] + 1 \in Nat /\ started[owner[t]] + 1 <= started[owner[t]] + 1
        /\ Within(queue[t], started[owner[t]], received[owner[t]])
    BY <1>1, LiveTask
  <2>4. queue[t] # <<>> /\ Head(queue[t]) # None => started[owner[t]] + 1 <= Head(queue[t]).id
    BY <1>1, <2>3, NextOfRunning
  <2> QED BY <1>1, <2>1, <2>2, <2>3, <2>4, GetNextCovers
<1> QED BY <1>2, <1>3

LEMMA ChatEndCovers ==
  ASSUME IInv, \A u \in Tasks : HasAll(u), NEW t \in Tasks, ChatEndReturns(t)
  PROVE  \A u \in Tasks : HasAll(u)'
<1>1. /\ state[t] = "handling" /\ ended' = [ended EXCEPT ![t] = current[t].id]
      /\ HoldsPermit(t) /\ Live(t)
  BY DEF ChatEndReturns, HoldsPermit, Live
<1>2. /\ owner[t] \in Conversations /\ convQueues[owner[t]] = t /\ t # NoTask
      /\ started[owner[t]] \in Nat /\ received[owner[t]] \in Nat /\ queue[t] \in Seq(Item)
      /\ Within(queue[t], started[owner[t]], received[owner[t]])
  BY <1>1, LiveTask
<1>3. \A u \in Tasks \ {t} : ended'[u] = ended[u]
  BY <1>1, QueueType
<1>4. Contains(queue[t], started[owner[t]] + 1, InQueueUpTo(t))
  BY <1>1 DEF HasAll
<1> DEFINE q == [queue EXCEPT ![t] = Put(queue[t], None)]
<1>5. CASE ~Full(t) /\ GetNext(t, q, permits)
  <2>1. None \in Item /\ Put(queue[t], None) \in Seq(Item) /\ Put(queue[t], None) # <<>>
    <3>1. None \in Item
      BY DEF Item
    <3> QED BY <1>2, <1>4, <3>1, AppendFacts, PutContains, UpToType DEF Put
  <2>2. /\ q \in [Tasks -> Seq(Item)] /\ q[t] = Put(queue[t], None)
        /\ \A u \in Tasks \ {t} : q[u] = queue[u]
    BY <2>1, QueueType
  <2>3. Contains(q[t], started[owner[t]] + 1, InQueueUpTo(t))
    BY <1>2, <1>4, <2>1, <2>2, PutContains, UpToType
  <2>4. Within(q[t], started[owner[t]], received[owner[t]])
    BY <1>2, <2>2, PutSentinel
  <2>5. Head(q[t]) # None => started[owner[t]] + 1 <= Head(q[t]).id
    BY <1>1, <2>1, <2>2, <2>4, NextOfRunning
  <2>6. started[owner[t]] + 1 \in Nat /\ q[t] # <<>>
    BY <1>2, <2>1, <2>2
  <2> HIDE DEF q
  <2> QED BY <1>1, <1>3, <1>5, <2>2, <2>3, <2>5, <2>6, GetNextCovers
<1>6. CASE /\ state' = [state EXCEPT ![t] = "ending"]
           /\ UNCHANGED <<convQueues, created, owner, queue, current, permits,
                          loop, phase, pending, received, started>>
  <2>1. /\ \A u \in Tasks \ {t} : state'[u] = state[u]
        /\ \A u \in Tasks : InQueueUpTo(u)' = InQueueUpTo(u)
        /\ state'[t] = "ending"
    BY <1>6 DEF InQueueUpTo, IInv, TypeOK
  <2>2. \A u \in Tasks \ {t} : HasAll(u)'
    BY <1>3, <1>6, <2>1, SameTask
  <2>3. HasAll(t)'
    BY <1>4, <1>6, <2>1 DEF HasAll, HoldsPermit
  <2> QED BY <2>2, <2>3
<1>7. \/ /\ ~Full(t)
         /\ GetNext(t, q, permits)
      \/ /\ state' = [state EXCEPT ![t] = "ending"]
         /\ UNCHANGED <<convQueues, created, owner, queue, current, permits,
                        loop, phase, pending, received, started>>
  BY <1>2, QueueType DEF ChatEndReturns
<1> QED BY <1>5, <1>6, <1>7

LEMMA ReceiveCovers ==
  ASSUME IInv, \A u \in Tasks : HasAll(u),
         NEW c \in Conversations, NEW kind \in Kinds, Receive(c, kind)
  PROVE  \A u \in Tasks : HasAll(u)'
<1> DEFINE m == [id |-> received[c] + 1, kind |-> kind]
<1>1. /\ loop = Ready /\ received[c] \in Nat /\ received[c] < MaxMessages
      /\ received' = [received EXCEPT ![c] = @ + 1] /\ received'[c] = received[c] + 1
      /\ \A d \in Conversations \ {c} : received'[d] = received[d]
      /\ ended' = ended /\ started' = started
      /\ \/ ~HasQueue(c) /\ Spawn(c, m)
         \/ HasQueue(c) /\ Enqueue(convQueues[c], m)
  BY DEF Receive, IInv, TypeOK
<1>2. /\ m \in Item /\ m \in Message /\ m.id = received[c] + 1
  BY <1>1, Assumptions DEF Item, Message
<1> HIDE DEF m
<1>3. \A u \in Tasks : /\ u # NoTask /\ owner[u] \in Conversations
                       /\ InQueueUpTo(u) = received[owner[u]]
  BY <1>1, Assumptions DEF InQueueUpTo, Ready, Tasks, NoTask, IInv, TypeOK
<1>4. CASE ~HasQueue(c) /\ Spawn(c, m)
  <2> SUFFICES ASSUME NEW t \in Tasks, t = created + 1
               PROVE  \A u \in Tasks : HasAll(u)'
    BY <1>4 DEF Spawn
  <2>1. /\ owner'[t] = c /\ state'[t] = "waiting" /\ queue'[t] = <<m>>
        /\ loop' = Ready
        /\ \A u \in Tasks \ {t} : owner'[u] = owner[u] /\ state'[u] = state[u]
                                  /\ queue'[u] = queue[u]
    BY <1>1, <1>4 DEF Spawn, IInv, TypeOK
  <2>2. \A u \in Tasks : InQueueUpTo(u)' = received'[owner'[u]]
    BY <2>1, Assumptions DEF InQueueUpTo, Ready, Tasks, NoTask
  <2>3. \A u \in Tasks : Live(u) => owner[u] # c
    BY <1>3, <1>4 DEF HasQueue, IInv, Entries
  <2>4. ASSUME NEW u \in Tasks \ {t}
        PROVE  HasAll(u)'
    <3>1. Live(u) => InQueueUpTo(u)' = InQueueUpTo(u)
      BY <1>1, <1>3, <2>1, <2>2, <2>3
    <3> QED BY <1>1, <2>1, <3>1, SameTask
  <2>5. HasAll(t)'
    <3>1. ended'[t] = 0
      <4>1. t > created
        BY DEF IInv, TypeOK
      <4> QED BY <1>1, <2>1, <4>1 DEF IInv, Entries, Sentinels
    <3>2. InQueueUpTo(t)' = m.id /\ m.id \in Nat
      BY <1>1, <1>2, <2>1, <2>2
    <3>3. <<m>> # <<>> /\ <<m>>[1] = m /\ Contains(<<m>>, m.id, m.id)
      BY <3>2 DEF Contains
    <3> QED BY <2>1, <3>1, <3>2, <3>3 DEF HasAll, HoldsPermit
  <2> QED BY <2>4, <2>5
<1>5. CASE HasQueue(c) /\ Enqueue(convQueues[c], m)
  <2> SUFFICES ASSUME NEW t \in Tasks, t = convQueues[c]
               PROVE  \A u \in Tasks : HasAll(u)'
    BY <1>5 DEF HasQueue, IInv, TypeOK
  <2>1. /\ Live(t) /\ owner[t] = c /\ owner' = owner /\ state' = state
        /\ queue[t] \in Seq(Item)
    BY <1>5 DEF HasQueue, Enqueue, IInv, TypeOK, Entries, Item
  <2>2. \A u \in Tasks \ {t} : Live(u) => owner[u] # c
    BY DEF IInv, Entries
  <2>3. CASE /\ ~Full(t) /\ queue' = [queue EXCEPT ![t] = Put(@, m)]
             /\ UNCHANGED loop
    <3>1. /\ queue'[t] = Put(queue[t], m)
          /\ \A u \in Tasks \ {t} : queue'[u] = queue[u]
      BY <1>2, <2>1, <2>3, PutType
    <3>2. \A u \in Tasks : InQueueUpTo(u)' = received'[owner[u]]
      BY <1>1, <2>1, <2>3, Assumptions DEF InQueueUpTo, Ready, Tasks, NoTask
    <3>3. ASSUME NEW u \in Tasks \ {t}
          PROVE  HasAll(u)'
      <4>1. Live(u) => InQueueUpTo(u)' = InQueueUpTo(u)
        BY <1>1, <1>3, <2>2, <3>2 DEF IInv, TypeOK
      <4> QED BY <1>1, <2>1, <3>1, <4>1, SameTask
    <3>4. HasAll(t)'
      <4>1. InQueueUpTo(t) = received[c] /\ InQueueUpTo(t)' = received[c] + 1
        BY <1>1, <1>3, <2>1, <3>2
      <4>2. ASSUME HoldsPermit(t)
            PROVE  Contains(Put(queue[t], m), started[c] + 1, received[c] + 1)
        <5>1. started[c] + 1 \in Nat
          BY <2>1, LiveTask
        <5>2. Contains(queue[t], started[c] + 1, received[c])
          BY <2>1, <4>1, <4>2 DEF HasAll
        <5> QED BY <1>1, <1>2, <2>1, <5>1, <5>2, PutContains
      <4>3. ASSUME state[t] = "waiting"
            PROVE  /\ Put(queue[t], m) # <<>> /\ ended[t] = 0
                   /\ Contains(Put(queue[t], m), Put(queue[t], m)[1].id, received[c] + 1)
        <5>1. /\ queue[t] # <<>> /\ ended[t] = 0
              /\ Contains(queue[t], queue[t][1].id, received[c])
          BY <2>1, <4>1, <4>3 DEF HasAll
        <5>2. queue[t][1] \in Item
          BY <2>1, <5>1, TailFacts
        <5>3. queue[t][1].id \in Nat
          BY <5>2, ItemFacts
        <5> QED BY <1>1, <1>2, <2>1, <5>1, <5>3, PutContains
      <4> QED BY <1>1, <2>1, <3>1, <4>1, <4>2, <4>3 DEF HasAll, HoldsPermit
    <3> QED BY <3>3, <3>4
  <2>4. CASE loop' = [task |-> t, msg |-> m] /\ UNCHANGED queue
    <3>1. ASSUME NEW u \in Tasks, Live(u)
          PROVE  InQueueUpTo(u)' = InQueueUpTo(u)
      <4>1. received[c] + 1 - 1 = received[c]
        BY <1>1
      <4>2. InQueueUpTo(t)' = InQueueUpTo(t)
        BY <1>1, <1>3, <2>1, <2>4, <4>1 DEF InQueueUpTo
      <4>3. ASSUME u # t
            PROVE  InQueueUpTo(u)' = InQueueUpTo(u)
        <5>1. owner[u] # c
          BY <2>2, <3>1, <4>3
        <5> QED BY <1>1, <1>3, <2>1, <2>4, <4>3, <5>1 DEF InQueueUpTo
      <4>4. CASE u = t
        BY <4>2, <4>4
      <4> QED BY <4>3, <4>4
    <3> QED BY <1>1, <2>1, <2>2, <2>4, <3>1, SameTask
  <2> QED BY <1>5, <2>3, <2>4 DEF Enqueue
<1> QED BY <1>1, <1>4, <1>5

LEMMA LoopResumesCovers ==
  ASSUME IInv, \A u \in Tasks : HasAll(u), LoopResumes
  PROVE  \A u \in Tasks : HasAll(u)'
<1>1. loop.task \in Tasks /\ loop.msg \in Message /\ loop # Ready
  BY DEF LoopResumes, IInv, TypeOK
<1> SUFFICES ASSUME NEW t \in Tasks, t = loop.task, NEW m \in Message, m = loop.msg
             PROVE  \A u \in Tasks : HasAll(u)'
  BY <1>1
<1>2. /\ ~Full(t) /\ queue' = [queue EXCEPT ![t] = Put(@, m)] /\ loop' = Ready
      /\ UNCHANGED <<owner, state, received, started, ended>>
  BY DEF LoopResumes
<1>3. /\ queue'[t] = Put(queue[t], m) /\ m \in Item /\ queue[t] \in Seq(Item)
      /\ \A u \in Tasks \ {t} : queue'[u] = queue[u]
  <2>1. m \in Item /\ queue[t] \in Seq(Item)
    BY QueueType DEF Item
  <2> QED BY <1>2, <2>1, PutType
<1>4. \A u \in Tasks : InQueueUpTo(u)' = received[owner[u]]
  BY <1>2, Assumptions DEF InQueueUpTo, Ready, Tasks, NoTask
<1>5. ASSUME NEW u \in Tasks \ {t}
      PROVE  HasAll(u)'
  <2>1. InQueueUpTo(u)' = InQueueUpTo(u)
    BY <1>4 DEF InQueueUpTo
  <2> QED BY <1>2, <1>3, <2>1, SameTask
<1>6. HasAll(t)'
  <2>1. /\ InQueueUpTo(t) \in Int /\ InQueueUpTo(t)' = InQueueUpTo(t) + 1
        /\ m.id = InQueueUpTo(t) + 1
    <3>1. received[owner[t]] \in Nat /\ m.id = received[owner[t]]
      BY <1>1, UpToType DEF IInv, Order
    <3>2. InQueueUpTo(t) = received[owner[t]] - 1
      BY DEF InQueueUpTo
    <3> QED BY <1>4, <3>1, <3>2
  <2>2. ASSUME HoldsPermit(t)
        PROVE  Contains(Put(queue[t], m), started[owner[t]] + 1, InQueueUpTo(t) + 1)
    <3>1. started[owner[t]] + 1 \in Nat
      BY <2>2, LiveTask DEF Live
    <3>2. Contains(queue[t], started[owner[t]] + 1, InQueueUpTo(t))
      BY <2>2 DEF HasAll
    <3> QED BY <1>3, <2>1, <3>1, <3>2, PutContains
  <2>3. ASSUME state[t] = "waiting"
        PROVE  /\ Put(queue[t], m) # <<>> /\ ended[t] = 0
               /\ Contains(Put(queue[t], m), Put(queue[t], m)[1].id, InQueueUpTo(t) + 1)
    <3>1. /\ queue[t] # <<>> /\ ended[t] = 0
          /\ Contains(queue[t], queue[t][1].id, InQueueUpTo(t))
      BY <2>3 DEF HasAll
    <3>2. queue[t][1] \in Item
      BY <1>3, <3>1, TailFacts
    <3>3. queue[t][1].id \in Nat
      BY <3>2, ItemFacts
    <3> QED BY <1>3, <2>1, <3>1, <3>3, PutContains
  <2> QED BY <1>2, <1>3, <2>1, <2>2, <2>3 DEF HasAll, HoldsPermit
<1> QED BY <1>5, <1>6

\* Every step keeps both invariants.
LEMMA NextCovers == IInv /\ Covers /\ [Next]_vars => Covers'
<1> SUFFICES ASSUME IInv, Covers, [Next]_vars, phase' = "running"
             PROVE  \A u \in Tasks : HasAll(u)'
  BY DEF Covers
<1>1. phase = "running" /\ pending = {}
  <2>1. Next => phase' = phase \/ phase' # "running"
    BY DEF Next, Receive, LoopResumes, AcquireSemaphore, WakeUp, HandlerSettles,
           ChatEndReturns, GetNext, StopPuts, Stop, Stopped
  <2> QED BY <2>1 DEF vars, IInv, Entries
<1>2. \A u \in Tasks : HasAll(u)
  BY <1>1 DEF Covers
<1>3. CASE \E c \in Conversations, kind \in Kinds : Receive(c, kind)
  BY <1>2, <1>3, ReceiveCovers
<1>4. CASE LoopResumes
  BY <1>2, <1>4, LoopResumesCovers
<1>5. ASSUME NEW t \in Tasks, AcquireSemaphore(t) \/ WakeUp(t) \/ HandlerSettles(t)
      PROVE  \A u \in Tasks : HasAll(u)'
  BY <1>2, <1>5, WorkerCovers
<1>6. ASSUME NEW t \in Tasks, ChatEndReturns(t)
      PROVE  \A u \in Tasks : HasAll(u)'
  BY <1>2, <1>6, ChatEndCovers
<1>7. ~Stop /\ ~Stopped /\ \A t \in Tasks : ~StopPuts(t)
  BY <1>1 DEF Stop, Stopped, StopPuts
<1>8. CASE UNCHANGED vars
  <2>1. UNCHANGED <<owner, state, queue, started, ended, loop, received>>
    BY <1>8 DEF vars
  <2>2. \A u \in Tasks : InQueueUpTo(u)' = InQueueUpTo(u)
    BY <2>1 DEF InQueueUpTo
  <2> QED BY <1>2, <2>1, <2>2, SameTask
<1> QED BY <1>3, <1>4, <1>5, <1>6, <1>7, <1>8 DEF Next

\* The queue of a live task and what the loop is blocked on, index by index
LEMMA UpcomingFacts ==
  ASSUME IInv, NEW t \in Tasks, Live(t)
  PROVE  /\ loop.task # t => Upcoming(t) = queue[t]
         /\ loop.task = t => /\ loop.msg \in Message /\ loop.msg \in Item
                             /\ loop.msg.id = received[owner[t]]
                             /\ started[owner[t]] < loop.msg.id
                             /\ Below(queue[t], loop.msg.id)
                             /\ Upcoming(t) = Put(queue[t], loop.msg)
         /\ queue[t] \in Seq(Item) /\ Upcoming(t) \in Seq(Item)
         /\ DOMAIN Upcoming(t) = 1 .. Len(Upcoming(t))
         /\ Sorted(Upcoming(t))
         /\ Within(Upcoming(t), started[owner[t]], received[owner[t]])
<1>1. /\ queue[t] \in Seq(Item) /\ Sorted(queue[t]) /\ t # NoTask
      /\ started[owner[t]] \in Nat /\ received[owner[t]] \in Nat
      /\ Within(queue[t], started[owner[t]], received[owner[t]])
  BY LiveTask, Assumptions
<1>2. CASE loop.task # t
  BY <1>1, <1>2 DEF Upcoming
<1>3. CASE loop.task = t
  <2>1. loop # Ready
    BY <1>1, <1>3 DEF Ready
  <2>2. /\ loop.msg \in Message /\ loop.msg.id = received[owner[t]]
        /\ started[owner[t]] < loop.msg.id /\ Below(queue[t], loop.msg.id)
    BY <1>3, <2>1 DEF IInv, TypeOK, Order
  <2>3. loop.msg \in Item
    BY <2>2 DEF Item
  <2>4. Upcoming(t) = Put(queue[t], loop.msg)
    BY <1>3 DEF Upcoming, Put
  <2>5. Put(queue[t], loop.msg) \in Seq(Item)
    BY <1>1, <2>3, AppendFacts DEF Put
  <2>6. /\ Sorted(Put(queue[t], loop.msg))
        /\ Within(Put(queue[t], loop.msg), started[owner[t]], received[owner[t]])
    BY <1>1, <2>2, PutEvent
  <2> QED BY <1>1, <1>3, <2>2, <2>3, <2>4, <2>5, <2>6
<1> QED BY <1>2, <1>3

\* In what is on its way to a live task there is no gap up to the last event received.
LEMMA UpcomingContains ==
  ASSUME IInv, NEW t \in Tasks, Live(t), NEW lo \in Nat,
         Contains(queue[t], lo, InQueueUpTo(t))
  PROVE  Contains(Upcoming(t), lo, received[owner[t]])
<1>1. /\ queue[t] \in Seq(Item) /\ received[owner[t]] \in Nat /\ InQueueUpTo(t) \in Int
  BY UpToType, UpcomingFacts
<1>2. CASE loop.task # t
  BY <1>2, UpcomingFacts DEF InQueueUpTo
<1>3. CASE loop.task = t
  <2>1. /\ InQueueUpTo(t) + 1 = received[owner[t]] /\ loop.msg \in Item
        /\ loop.msg.id = InQueueUpTo(t) + 1 /\ Upcoming(t) = Put(queue[t], loop.msg)
    BY <1>1, <1>3, UpcomingFacts DEF InQueueUpTo
  <2>2. Contains(Put(queue[t], loop.msg), lo, InQueueUpTo(t) + 1)
    BY <1>1, <2>1, PutContains
  <2> QED BY <2>1, <2>2
<1> QED BY <1>2, <1>3

\* While the consumer runs, what is on its way to a worker is what came after the event
\* it handles or handled last, each event once and in order, or the most recent events
\* if it has not handled any: whatever the queue sizes, the number of conversations and
\* the number of permits, backpressure loses and reorders nothing (kafka_consumer.py,
\* _consume_loop and _conversation_worker).
THEOREM NothingSkippedHolds == Spec => []NothingSkipped
<1>1. Init => Covers
  BY DEF Init, Covers, HasAll, HoldsPermit
<1>2. IInv /\ Covers /\ [Next]_vars => Covers'
  BY NextCovers
<1>3. IInv /\ Covers => NothingSkipped
  <2> SUFFICES ASSUME IInv, Covers, phase = "running", NEW t \in Tasks, Live(t)
               PROVE  LET u   == Upcoming(t)
                          c   == owner[t]
                          ids == {u[i].id : i \in DOMAIN u} \ {None.id}
                      IN  /\ \A i, j \in DOMAIN u :
                               i < j /\ u[i] # None /\ u[j] # None => u[i].id < u[j].id
                          /\ HoldsPermit(t) => ids = started[c] + 1 .. received[c]
                          /\ ~HoldsPermit(t) =>
                               received[c] \in ids /\ \A n \in ids : n .. received[c] \subseteq ids
    BY DEF NothingSkipped
  <2> DEFINE u   == Upcoming(t)
             c   == owner[t]
             ids == {u[i].id : i \in DOMAIN u} \ {None.id}
  <2>1. /\ u \in Seq(Item) /\ DOMAIN u = 1 .. Len(u) /\ Sorted(u)
        /\ Within(u, started[c], received[c])
    BY UpcomingFacts
  <2>2. started[c] \in Nat /\ received[c] \in Nat /\ started[c] <= received[c]
    BY LiveTask, Assumptions
  <2>3. HasAll(t)
    BY DEF Covers
  <2>4. \A i, j \in DOMAIN u : i < j /\ u[i] # None /\ u[j] # None => u[i].id < u[j].id
    BY <2>1 DEF Sorted
  <2>5. \A n \in ids : n \in started[c] + 1 .. received[c]
    <3>1. ASSUME NEW i \in DOMAIN u, u[i].id # None.id
          PROVE  u[i].id \in started[c] + 1 .. received[c]
      BY <2>1, <3>1 DEF Within
    <3> QED BY <3>1
  <2>6. ASSUME NEW lo \in Nat, lo > 0, Contains(u, lo, received[c])
        PROVE  \A n \in lo .. received[c] : n \in ids
    <3>1. ASSUME NEW n \in lo .. received[c]
          PROVE  n \in ids
      <4>1. PICK i \in DOMAIN u : u[i].id = n
        BY <2>1, <2>6 DEF Contains
      <4>2. n # None.id
        BY <2>6 DEF None
      <4> QED BY <4>1, <4>2
    <3> QED BY <3>1
  <2>7. ASSUME HoldsPermit(t)
        PROVE  ids = started[c] + 1 .. received[c]
    <3>1. Contains(u, started[c] + 1, received[c])
      BY <2>2, <2>3, <2>7, UpcomingContains DEF HasAll
    <3> HIDE DEF ids, u
    <3>2. \A n \in started[c] + 1 .. received[c] : n \in ids
      BY <2>2, <2>6, <3>1
    <3> QED BY <2>5, <3>2
  <2>8. ASSUME ~HoldsPermit(t)
        PROVE  received[c] \in ids /\ \A n \in ids : n .. received[c] \subseteq ids
    <3>1. /\ queue[t] # <<>> /\ queue[t] \in Seq(Item) /\ ended[t] = 0
          /\ Contains(queue[t], queue[t][1].id, InQueueUpTo(t))
      BY <2>3, <2>8, UpcomingFacts DEF HasAll, Live
    <3> DEFINE first == queue[t][1].id
    <3>2. 1 \in 1 .. Len(queue[t]) /\ queue[t][1] \in Item
      BY <3>1, TailFacts
    <3>3. queue[t][1] # None
      BY <3>1, <3>2, LiveTask DEF HasSentinel
    <3>4. u[1] = queue[t][1] /\ 1 \in DOMAIN u
      <4>1. CASE loop.task = t
        BY <3>1, <3>2, <4>1, UpcomingFacts, AppendFacts DEF Put
      <4>2. CASE loop.task # t
        BY <3>2, <4>2, UpcomingFacts
      <4> QED BY <4>1, <4>2
    <3>5. first \in started[c] + 1 .. received[c]
      BY <2>1, <3>3, <3>4 DEF Within
    <3>6. first \in Nat /\ first > 0
      BY <2>2, <3>5
    <3>7. Contains(u, first, received[c])
      BY <3>1, <3>6, UpcomingContains
    <3>8. \A n \in first .. received[c] : n \in ids
      BY <2>6, <3>6, <3>7
    <3>9. received[c] \in ids
      BY <2>2, <3>5, <3>8
    <3>10. \A n \in ids : first <= n
      <4>1. ASSUME NEW i \in DOMAIN u, u[i].id # None.id
            PROVE  first <= u[i].id
        <5>1. CASE i = 1
          BY <3>4, <3>6, <5>1
        <5>2. CASE i # 1
          <6>1. first < u[i].id
            BY <2>1, <2>4, <3>3, <3>4, <4>1, <5>2
          <6>2. u[i] \in Item
            BY <2>1
          <6> QED BY <3>6, <6>1, <6>2, ItemFacts
        <5> QED BY <5>1, <5>2
      <4> QED BY <4>1
    <3> HIDE DEF ids, u, first
    <3>11. ASSUME NEW n \in ids
           PROVE  n .. received[c] \subseteq first .. received[c]
      <4>1. first <= n /\ n \in Nat
        BY <2>2, <2>5, <3>10, <3>11
      <4> QED BY <3>6, <4>1
    <3> QED BY <3>8, <3>9, <3>11
  <2> QED BY <2>4, <2>7, <2>8
<1> QED BY <1>1, <1>2, <1>3, Invariance, PTL DEF Spec
=============================================================================
