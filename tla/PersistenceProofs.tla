------------------------- MODULE PersistenceProofs -------------------------
(***************************************************************************)
(* Theorems about Persistence for any records and any numbers of failures, *)
(* stops and crashes.                                                      *)
(***************************************************************************)
EXTENDS Persistence, FiniteSetTheorems, TLAPS

\* The statements of the record in hand before the one that comes next were executed,
\* another attempt is left, and it begins with the first statement.
InHand ==
  /\ phase = "writing" => \A i \in 1 .. step - 1 : <<Current, i>> \in written
  /\ phase \in {"writing", "waiting"} => attempt < MaxRetries
  /\ phase = "waiting" => step = 1

\* What the consumer has left behind, wherever it resumed since, is accounted for.
Accounted ==
  /\ \A r \in 1 .. position - 1 :
       (Handling /\ r = Current) \/ Complete(r) \/ r \in dead \cup abandoned
  /\ Cardinality(abandoned) <= restarts + failures

\* The delivery in hand has not been counted yet, unless a count raised.
Counting ==
  \A r \in Records :
    /\ counted[r] <= delivered[r] + uncertain[r]
    /\ Handling /\ r = Current => counted[r] < delivered[r] + uncertain[r]

\* The preview is not older than any message left behind since the consumer last resumed.
Previews ==
  /\ preview \in Messages \cup {0}
  /\ \A r \in Messages :
       r < position /\ ~ (Handling /\ r = Current) => preview >= r \/ r \in dead \cup abandoned
  /\ phase = "writing" /\ Current \in Messages /\ step > 2 => preview >= Current

IInv == TypeOK /\ InHand /\ Accounted /\ Counting /\ Previews
-----------------------------------------------------------------------------
(* The handlers' statements and the record in hand *)

\* Only unknown records have no statements; the count of a message is the last one of
\* its handler, the preview of a message the second.
LEMMA Kinds ==
  ASSUME NEW k \in DOMAIN Writes
  PROVE  /\ Len(Writes[k]) \in 0 .. 3
         /\ k = "unknown" <=> Len(Writes[k]) = 0
         /\ \A i \in 1 .. Len(Writes[k]) :
              /\ Writes[k][i] = "unread" => i = Len(Writes[k])
              /\ Writes[k][i] = "preview" <=> k \in {"incoming", "outgoing"} /\ i = 2
<1>1. CASE k = "incoming"
  <2>1. Writes[k] = <<"messages", "preview", "unread">>
    BY <1>1 DEF Writes
  <2> QED BY <1>1, <2>1
<1>2. CASE k = "outgoing"
  <2>1. Writes[k] = <<"messages", "preview", "unread_of_nobody">>
    BY <1>2 DEF Writes
  <2> QED BY <1>2, <2>1
<1>3. CASE k = "chat_start"
  <2>1. Writes[k] = <<"conversations_by_user", "agent_queue">>
    BY <1>3 DEF Writes
  <2> QED BY <1>3, <2>1
<1>4. CASE k = "read"
  <2>1. Writes[k] = <<"message_acks", "unread">>
    BY <1>4 DEF Writes
  <2> QED BY <1>4, <2>1
<1>5. CASE k \in {"chat_end", "delivered", "assignment"}
  <2>1. /\ k = "chat_end" => Writes[k] = <<"conversations">>
        /\ k = "delivered" => Writes[k] = <<"message_acks">>
        /\ k = "assignment" => Writes[k] = <<"agent_assignments">>
    BY <1>5 DEF Writes
  <2> QED BY <1>5, <2>1
<1>6. CASE k = "unknown"
  BY <1>6 DEF Writes
<1>7. k \in {"incoming", "outgoing", "chat_start", "chat_end", "delivered", "read",
             "assignment", "unknown"}
  BY DEF Writes
<1> QED BY <1>1, <1>2, <1>3, <1>4, <1>5, <1>6, <1>7

LEMMA MessageRows == Len(Writes["incoming"]) = 3 /\ Len(Writes["outgoing"]) = 3
<1>1. Writes["incoming"] = <<"messages", "preview", "unread">>
  BY DEF Writes
<1>2. Writes["outgoing"] = <<"messages", "preview", "unread_of_nobody">>
  BY DEF Writes
<1> QED BY <1>1, <1>2

LEMMA RecordInHand ==
  ASSUME TypeOK, Handling
  PROVE  /\ Current \in 1 .. Len(topic) /\ Current \in Records
         /\ topic[Current] \in DOMAIN Writes /\ topic[Current] # "unknown"
         /\ Len(Writes[topic[Current]]) \in 1 .. 3 /\ 1 <= Len(Writes[topic[Current]])
         /\ step \in 1 .. Len(Writes[topic[Current]]) /\ step \in 1 .. 3
         /\ Statement = "unread" => step = Len(Writes[topic[Current]])
         /\ Statement = "preview" <=> Current \in Messages /\ step = 2
<1>1. /\ Current \in 1 .. Len(topic) /\ Current \in Records
      /\ step \in 1 .. 3 /\ step <= Len(Writes[topic[Current]])
  BY Assumptions DEF TypeOK, Records, Assumptions
<1>2. topic[Current] \in DOMAIN Writes
  BY <1>1 DEF TypeOK
<1>3. Current \in Messages <=> topic[Current] \in {"incoming", "outgoing"}
  BY <1>1 DEF Messages
<1> HIDE DEF Current
<1> QED BY <1>1, <1>2, <1>3, Kinds DEF Statement

\* What a statement changes
LEMMA Executed ==
  ASSUME TypeOK, Handling, Execute
  PROVE  /\ written' = written \cup {<<Current, step>>}
         /\ written' \subseteq Records \X (1 .. 3)
         /\ counted' \in [Records -> Nat]
         /\ \A r \in Records : r # Current => counted'[r] = counted[r]
         /\ counted'[Current] <= counted[Current] + 1
         /\ Statement # "unread" => counted' = counted
         /\ Statement = "preview" => preview' = Current /\ Current \in Messages
         /\ Statement # "preview" => preview' = preview
<1>1. /\ Current \in Records /\ step \in 1 .. 3
      /\ Statement = "preview" => Current \in Messages
  BY RecordInHand
<1>2. /\ written \subseteq Records \X (1 .. 3) /\ counted \in [Records -> Nat]
  BY DEF TypeOK
<1> HIDE DEF Current, Statement, Records
<1> QED BY <1>1, <1>2 DEF Execute

LEMMA Below ==
  ASSUME NEW m \in Nat, NEW n \in Nat, m <= n, NEW r \in 1 .. m - 1
  PROVE  r \in 1 .. n - 1
OBVIOUS

LEMMA AbandonedCount ==
  ASSUME TypeOK, NEW r \in 1 .. Len(topic)
  PROVE  /\ Cardinality(abandoned) \in Nat
         /\ Cardinality(abandoned \cup {r}) \in Nat
         /\ Cardinality(abandoned \cup {r}) <= Cardinality(abandoned) + 1
<1>1. IsFiniteSet(1 .. Len(topic))
  BY FS_Interval DEF TypeOK
<1>2. IsFiniteSet(abandoned)
  BY <1>1, FS_Subset DEF TypeOK
<1>3. IsFiniteSet(abandoned \cup {r})
  BY <1>2, FS_AddElement
<1> QED BY <1>2, <1>3, FS_AddElement, FS_CardinalityType

-----------------------------------------------------------------------------
(* Every action preserves IInv. *)

LEMMA InitInv == Init => IInv
<1> SUFFICES ASSUME Init PROVE IInv
  OBVIOUS
<1>1. TypeOK
  BY Assumptions DEF Init, TypeOK, Records, Handling, MaxRetries, Assumptions
<1>2. Accounted
  BY FS_EmptySet DEF Init, Accounted
<1>3. InHand /\ Counting /\ Previews
  BY DEF Init, InHand, Counting, Previews, Handling, Messages, MaxRetries
<1> QED BY <1>1, <1>2, <1>3 DEF IInv

LEMMA PublishInv ==
  ASSUME IInv, NEW kind \in Published, Publish(kind)
  PROVE  IInv'
<1>1. /\ topic \in Seq(DOMAIN Writes) /\ Len(topic) \in Nat /\ kind \in DOMAIN Writes
      /\ Len(topic) < MaxRecords
  BY Assumptions DEF IInv, TypeOK, Publish, Assumptions
<1>2. /\ topic' \in Seq(DOMAIN Writes) /\ Len(topic') = Len(topic) + 1
      /\ \A r \in 1 .. Len(topic) : topic'[r] = topic[r]
  BY <1>1 DEF Publish
<1>3. /\ Current' = Current /\ Handling' = Handling
      /\ UNCHANGED <<position, committed, phase, step, attempt, written, counted, preview, dead,
                     failures, restarts, delivered, uncertain, abandoned>>
  BY DEF Publish, Current, Handling, tables, history
<1>4. position \in 1 .. Len(topic) + 1
  BY DEF IInv, TypeOK
<1>5. TypeOK'
  <2>1. Handling' => Current' \in 1 .. Len(topic') /\ step' <= Len(Writes[topic'[Current']])
    BY <1>2, <1>3, RecordInHand DEF IInv
  <2>2. /\ Len(topic') <= MaxRecords /\ position' \in 1 .. Len(topic') + 1
        /\ preview' \in 0 .. Len(topic') /\ dead' \subseteq 1 .. Len(topic')
        /\ abandoned' \subseteq 1 .. Len(topic')
    BY <1>1, <1>2, <1>3, Assumptions DEF IInv, TypeOK, Assumptions
  <2> QED BY <1>2, <1>3, <2>1, <2>2 DEF IInv, TypeOK, Records
<1>6. InHand' /\ Counting'
  BY <1>3 DEF IInv, InHand, Counting
<1>7. Accounted'
  <2>1. ASSUME NEW r \in 1 .. position - 1 PROVE Complete(r)' = Complete(r)
    <3>1. r \in 1 .. Len(topic)
      BY <1>1, <1>4
    <3>2. topic'[r] = topic[r] /\ written' = written
      BY <1>2, <1>3, <3>1
    <3> QED BY <3>2 DEF Complete
  <2> QED BY <1>3, <2>1 DEF IInv, Accounted
<1>8. Previews'
  <2>1. \A r \in 1 .. Len(topic) : r \in Messages' <=> r \in Messages
    BY <1>1, <1>2 DEF Messages
  <2>2. preview \in Messages' \cup {0}
    BY <2>1 DEF IInv, Previews, Messages
  <2>3. \A r \in Messages' : r < position => r \in Messages
    BY <1>4, <2>1, <1>1, <1>2 DEF Messages
  <2>4. phase = "writing" /\ Current \in Messages' => Current \in Messages
    BY <2>1, RecordInHand DEF IInv, Handling
  <2> QED BY <1>3, <2>2, <2>3, <2>4 DEF IInv, Previews
<1> QED BY <1>5, <1>6, <1>7, <1>8 DEF IInv
LEMMA TakeInv ==
  ASSUME IInv, Take
  PROVE  IInv'
<1>1. /\ phase = "idle" /\ position \in 1 .. Len(topic) /\ position \in Records
      /\ Len(topic) \in Nat /\ topic[position] \in DOMAIN Writes
  <2>1. /\ phase = "idle" /\ position <= Len(topic) /\ position \in 1 .. Len(topic) + 1
        /\ topic \in Seq(DOMAIN Writes) /\ Len(topic) <= MaxRecords /\ MaxRecords \in Nat
    BY Assumptions DEF IInv, TypeOK, Take, Assumptions
  <2>2. position \in 1 .. Len(topic) /\ position \in Records /\ Len(topic) \in Nat
    BY <2>1 DEF Records
  <2> QED BY <2>1, <2>2
<1>2. /\ position' = position + 1 /\ step' = 1 /\ attempt' = 0
      /\ phase' = IF topic[position] = "unknown" THEN "idle" ELSE "writing"
      /\ delivered' = [delivered EXCEPT ![position] = @ + 1]
      /\ UNCHANGED <<topic, committed, written, counted, preview, dead, failures, restarts,
                     uncertain, abandoned>>
  BY DEF Take, tables
<1>3. Current' = position /\ ~ Handling
  BY <1>1, <1>2 DEF Current, Handling
<1>4. Len(Writes[topic[position]]) \in 0 .. 3
      /\ (topic[position] = "unknown" <=> Len(Writes[topic[position]]) = 0)
  BY <1>1, Kinds
<1>5. Handling' <=> topic[position] # "unknown"
  BY <1>2 DEF Handling
<1>6. TypeOK'
  <2>1. Handling' => Current' \in 1 .. Len(topic') /\ step' <= Len(Writes[topic'[Current']])
    BY <1>1, <1>2, <1>3, <1>4, <1>5
  <2>2. /\ position' \in 1 .. Len(topic') + 1 /\ committed' \in 1 .. position'
        /\ delivered' \in [Records -> Nat]
    BY <1>1, <1>2 DEF IInv, TypeOK
  <2> QED BY <1>2, <2>1, <2>2 DEF IInv, TypeOK, MaxRetries, Records
<1>7. InHand'
  BY <1>2 DEF InHand, MaxRetries
<1>8. Accounted'
  <2>1. \A r \in 1 .. position - 1 : Complete(r)' \/ r \in dead' \cup abandoned'
    BY <1>2, <1>3 DEF IInv, Accounted, Complete
  <2>2. Handling' \/ Complete(Current)'
    <3>1. CASE topic[position] = "unknown"
      <4>1. 1 .. Len(Writes[topic[position]]) = {}
        BY <1>4, <3>1
      <4> QED BY <1>2, <1>3, <4>1 DEF Complete
    <3> QED BY <1>5, <3>1
  <2>3. \A r \in 1 .. position : r = position \/ r \in 1 .. position - 1
    BY <1>1
  <2>4. Cardinality(abandoned) <= restarts + failures
    BY DEF IInv, Accounted
  <2>5. position' - 1 = position
    BY <1>1, <1>2
  <2> QED BY <1>2, <1>3, <2>1, <2>2, <2>3, <2>4, <2>5 DEF Accounted
<1>9. Counting'
  <2>1. \A r \in Records : counted[r] \in Nat /\ delivered[r] \in Nat /\ uncertain[r] \in Nat
    BY DEF IInv, TypeOK
  <2>2. \A r \in Records : delivered'[r] = IF r = position THEN delivered[r] + 1 ELSE delivered[r]
    BY <1>2 DEF IInv, TypeOK
  <2>3. ASSUME NEW r \in Records
        PROVE  /\ counted'[r] <= delivered'[r] + uncertain'[r]
               /\ r = position => counted'[r] < delivered'[r] + uncertain'[r]
    BY <1>2, <2>1, <2>2 DEF IInv, Counting
  <2> QED BY <1>3, <2>3 DEF Counting
<1>10. Previews'
  <2>1. Messages' = Messages /\ Messages \subseteq 1 .. Len(topic)
    BY <1>2 DEF Messages
  <2>2. ASSUME NEW r \in Messages, r < position + 1, ~ (Handling' /\ r = position)
        PROVE  preview >= r \/ r \in dead \cup abandoned
    <3>1. r # position
      BY <1>1, <1>5, <2>2 DEF Messages
    <3> QED BY <1>1, <1>3, <2>1, <2>2, <3>1 DEF IInv, Previews
  <2> QED BY <1>2, <1>3, <2>1, <2>2 DEF IInv, Previews
<1> QED BY <1>6, <1>7, <1>8, <1>9, <1>10 DEF IInv

LEMMA WriteInv ==
  ASSUME IInv, Write
  PROVE  IInv'
<1> DEFINE n == Len(Writes[topic[Current]])
           last == step = n
<1>1. phase = "writing" /\ Handling /\ Execute
  BY DEF Write, Handling
<1>2. /\ phase' = IF last THEN "idle" ELSE "writing"
      /\ step' = IF last THEN 1 ELSE step + 1
      /\ UNCHANGED <<topic, position, committed, attempt, dead, failures, restarts, delivered,
                     uncertain, abandoned>>
  BY DEF Write, history
<1>3. Current' = Current /\ (Handling' <=> ~ last)
  BY <1>2 DEF Current, Handling
<1>9. /\ Current \in 1 .. Len(topic) /\ Current \in Records
      /\ n \in 1 .. 3 /\ step \in 1 .. 3 /\ step <= n
      /\ Statement = "unread" => last
  BY <1>1, RecordInHand DEF IInv
<1>10. /\ written' = written \cup {<<Current, step>>}
       /\ written' \subseteq Records \X (1 .. 3) /\ counted' \in [Records -> Nat]
       /\ \A r \in Records : r # Current => counted'[r] = counted[r]
       /\ counted'[Current] <= counted[Current] + 1
       /\ Statement # "unread" => counted' = counted
       /\ preview' = preview \/ preview' = Current
  BY <1>1, Executed DEF IInv
<1> HIDE DEF n
<1>4. TypeOK'
  <2>1. Handling' => Current' \in 1 .. Len(topic') /\ step' <= Len(Writes[topic'[Current']])
    BY <1>2, <1>3, <1>9 DEF n
  <2>2. step' \in 1 .. 3
    BY <1>2, <1>9
  <2>3. preview' \in 0 .. Len(topic)
    BY <1>9, <1>10 DEF IInv, TypeOK
  <2>5. phase' \in {"idle", "writing"}
    BY <1>2
  <2> QED BY <1>2, <1>10, <2>1, <2>2, <2>3, <2>5 DEF IInv, TypeOK, Records
<1>5. InHand'
  <2>1. \A i \in 1 .. step : <<Current, i>> \in written'
    BY <1>1, <1>9, <1>10 DEF IInv, InHand
  <2>2. step' \in 1 .. step + 1
    BY <1>2, <1>9
  <2> QED BY <1>1, <1>2, <1>3, <1>9, <2>1, <2>2 DEF IInv, InHand
<1>6. Accounted'
  <2>1. \A r : Complete(r) => Complete(r)'
    BY <1>2, <1>10 DEF Complete
  <2>2. ASSUME last PROVE Complete(Current)'
    <3>1. \A i \in 1 .. n : <<Current, i>> \in written'
      BY <1>1, <1>9, <1>10, <2>2 DEF IInv, InHand
    <3> QED BY <1>2, <1>3, <3>1 DEF Complete, n
  <2> QED BY <1>1, <1>2, <1>3, <2>1, <2>2 DEF IInv, Accounted
<1>7. Counting'
  <2>1. ~ last => counted' = counted
    BY <1>9, <1>10
  <2>2. \A r \in Records : /\ counted[r] \in Nat /\ delivered[r] \in Nat
                            /\ uncertain[r] \in Nat /\ counted'[r] \in Nat
    BY <1>10 DEF IInv, TypeOK
  <2>3. ASSUME NEW r \in Records
        PROVE  /\ counted'[r] <= delivered[r] + uncertain[r]
               /\ ~ last /\ r = Current => counted'[r] < delivered[r] + uncertain[r]
    <3>1. CASE r = Current
      BY <1>1, <1>10, <2>1, <2>2, <3>1 DEF IInv, Counting
    <3>2. CASE r # Current
      BY <1>10, <2>2, <3>2 DEF IInv, Counting
    <3> QED BY <3>1, <3>2
  <2> QED BY <1>2, <1>3, <2>3 DEF Counting
<1>8. Previews'
  <2>1. /\ Messages' = Messages /\ Messages \subseteq Nat
        /\ position \in Nat /\ Current = position - 1 /\ preview \in Nat /\ step \in Nat
    BY <1>2 DEF Messages, Current, IInv, TypeOK
  <2>2. /\ preview' \in Messages \cup {0} /\ preview' \in Nat
        /\ preview' = preview \/ preview' = Current
    BY <1>1, <2>1, Executed DEF IInv, Previews
  <2>3. ASSUME Current \in Messages, step >= 2
        PROVE  preview' >= Current
    BY <1>1, <2>1, <2>3, Executed, RecordInHand DEF IInv, Previews
  <2>4. last /\ Current \in Messages => step >= 2
    <3>1. Current \in Messages => n = 3
      BY MessageRows DEF Messages, n
    <3> QED BY <1>9, <3>1
  <2>5. ASSUME NEW r \in Messages, r < position, r # Current \/ last
        PROVE  preview' >= r \/ r \in dead \cup abandoned
    <3>1. CASE r = Current
      BY <2>3, <2>4, <2>5, <3>1
    <3>2. CASE r # Current
      BY <2>1, <2>2, <2>5, <3>2 DEF IInv, Previews
    <3> QED BY <3>1, <3>2
  <2>6. step' > 2 => step >= 2
    BY <1>2, <2>1
  <2> QED BY <1>2, <1>3, <2>1, <2>2, <2>3, <2>5, <2>6 DEF Previews
<1> QED BY <1>4, <1>5, <1>6, <1>7, <1>8 DEF IInv
\* A statement raises, executed or not.
LEMMA RaisedInv ==
  ASSUME IInv, phase = "writing", Retry,
         failures' = failures \/ Failure,
         UNCHANGED <<topic, position, committed, dead, restarts, delivered, abandoned>>,
         \/ UNCHANGED <<tables, uncertain>>
         \/ /\ Execute
            /\ uncertain' = IF Statement = "unread" THEN [uncertain EXCEPT ![Current] = @ + 1]
                                                     ELSE uncertain
  PROVE  IInv'
<1>1. /\ Handling /\ Handling' /\ Current' = Current
      /\ phase' \in {"waiting", "burying"} /\ step' = 1 /\ attempt' = attempt + 1
      /\ phase' = "waiting" <=> attempt + 1 < MaxRetries
  BY DEF Handling, Retry, Current
<1>2. /\ Current \in 1 .. Len(topic) /\ Current \in Records
      /\ 1 <= Len(Writes[topic[Current]])
  BY <1>1, RecordInHand DEF IInv
<1>3. /\ written' \subseteq Records \X (1 .. 3) /\ counted' \in [Records -> Nat]
      /\ written \subseteq written'
      /\ \A r \in Records : r # Current => counted'[r] = counted[r]
      /\ preview' = preview \/ preview' = Current
  <2>1. CASE UNCHANGED <<tables, uncertain>>
    BY <2>1 DEF tables, IInv, TypeOK
  <2>2. CASE Execute
    BY <1>1, <2>2, Executed DEF IInv
  <2> QED BY <2>1, <2>2
<1>4. /\ uncertain' \in [Records -> Nat]
      /\ \A r \in Records : uncertain'[r] >= uncertain[r]
      /\ \/ counted'[Current] <= counted[Current]
         \/ /\ uncertain'[Current] = uncertain[Current] + 1
            /\ counted'[Current] <= counted[Current] + 1
  <2>1. uncertain \in [Records -> Nat] /\ counted \in [Records -> Nat]
    BY DEF IInv, TypeOK
  <2>2. CASE UNCHANGED <<tables, uncertain>>
    BY <1>2, <2>1, <2>2 DEF tables
  <2>3. CASE Execute /\ Statement # "unread" /\ uncertain' = uncertain
    <3>1. counted' = counted
      BY <2>3 DEF Execute
    <3> QED BY <1>2, <2>1, <2>3, <3>1
  <2>4. CASE Execute /\ uncertain' = [uncertain EXCEPT ![Current] = @ + 1]
    <3>1. counted'[Current] <= counted[Current] + 1
      BY <1>1, <2>4, Executed DEF IInv
    <3> HIDE DEF Current
    <3> QED BY <1>2, <2>1, <2>4, <3>1
  <2> QED BY <2>2, <2>3, <2>4
<1>5. attempt + 1 \in 0 .. MaxRetries /\ failures' \in 0 .. MaxFailures /\ failures' >= failures
  BY Assumptions DEF IInv, TypeOK, InHand, MaxRetries, Failure, Assumptions
<1>6. TypeOK'
  <2>1. preview' \in 0 .. Len(topic)
    <3>1. preview \in 0 .. Len(topic)
      BY DEF IInv, TypeOK
    <3>2. Current \in 0 .. Len(topic)
      BY <1>2
    <3> QED BY <1>3, <3>1, <3>2
  <2>2. Handling' => Current' \in 1 .. Len(topic') /\ step' <= Len(Writes[topic'[Current']])
    <3>1. topic' = topic
      OBVIOUS
    <3> QED BY <1>1, <1>2, <3>1
  <2>3. phase' \in {"waiting", "burying"} /\ step' \in 1 .. 3 /\ attempt' \in 0 .. MaxRetries
    BY <1>1, <1>5
  <2> QED BY <1>3, <1>4, <1>5, <2>1, <2>2, <2>3 DEF IInv, TypeOK, Records
<1>7. InHand'
  BY <1>1 DEF InHand
<1>8. Accounted'
  <2>1. \A r : Complete(r) => Complete(r)'
    BY <1>3 DEF Complete
  <2>2. restarts \in Nat /\ failures \in Nat /\ failures' \in Nat
    BY <1>5, Assumptions DEF IInv, TypeOK, Assumptions
  <2>3. Cardinality(abandoned') <= restarts' + failures'
    <3>1. Cardinality(abandoned) \in Nat
      BY <1>2, AbandonedCount DEF IInv
    <3>2. Cardinality(abandoned) <= restarts + failures
      BY DEF IInv, Accounted
    <3> QED BY <1>5, <2>2, <3>1, <3>2
  <2> QED BY <1>1, <2>1, <2>3 DEF IInv, Accounted
<1>9. Counting'
  <2>1. \A r \in Records : /\ counted[r] \in Nat /\ delivered[r] \in Nat /\ uncertain[r] \in Nat
                            /\ counted'[r] \in Nat /\ uncertain'[r] \in Nat
    BY <1>3, <1>4 DEF IInv, TypeOK
  <2>2. ASSUME NEW r \in Records
        PROVE  /\ counted'[r] <= delivered[r] + uncertain'[r]
               /\ r = Current => counted'[r] < delivered[r] + uncertain'[r]
    <3>1. CASE r = Current
      BY <1>1, <1>4, <2>1, <3>1 DEF IInv, Counting
    <3>2. CASE r # Current
      BY <1>3, <1>4, <2>1, <3>2 DEF IInv, Counting
    <3> QED BY <3>1, <3>2
  <2> QED BY <1>1, <2>2 DEF Counting
<1>10. Previews'
  <2>1. Messages' = Messages /\ Messages \subseteq Nat /\ position \in Nat /\ preview \in Nat
    BY DEF Messages, IInv, TypeOK
  <2>2. preview' \in Messages \cup {0}
    <3>1. CASE UNCHANGED <<tables, uncertain>>
      BY <3>1 DEF IInv, Previews, tables
    <3>2. CASE Execute
      BY <1>1, <3>2, Executed DEF IInv, Previews
    <3> QED BY <3>1, <3>2
  <2>3. ASSUME NEW r \in Messages, r < position, r # Current
        PROVE  preview' >= r \/ r \in dead \cup abandoned
    <3>1. Current >= r /\ r \in Nat
      BY <2>1, <2>3 DEF Current
    <3> QED BY <1>3, <2>1, <2>3, <3>1 DEF IInv, Previews
  <2> QED BY <1>1, <2>1, <2>2, <2>3 DEF Previews
<1> QED BY <1>6, <1>7, <1>8, <1>9, <1>10 DEF IInv

\* A stop or a crash, wherever the consumer will resume
LEMMA InterruptedInv ==
  ASSUME IInv, InFlight,
         Interruption \/ (~ Handling /\ UNCHANGED <<restarts, abandoned>>),
         phase' \in {"cancelled", "down"}, step' = 1, attempt' = 0,
         position' \in {position, committed},
         UNCHANGED <<topic, committed, failures, delivered, uncertain>>
  PROVE  IInv'
<1>2. /\ Len(topic) \in Nat /\ position \in 1 .. Len(topic) + 1 /\ committed \in 1 .. position
      /\ position' \in 1 .. position /\ committed \in 1 .. position'
  BY DEF IInv, TypeOK
<1>3. Handling => Current \in 1 .. Len(topic) /\ Current \in Records
  BY RecordInHand DEF IInv
<1>4. /\ abandoned \subseteq abandoned' /\ abandoned' \subseteq 1 .. Len(topic)
      /\ Handling => Current \in abandoned'
      /\ restarts' \in 0 .. MaxRestarts
      /\ Cardinality(abandoned') <= restarts' + failures
  <2>1. /\ abandoned \subseteq 1 .. Len(topic) /\ restarts \in Nat /\ failures \in Nat
        /\ restarts \in 0 .. MaxRestarts /\ MaxRestarts \in Nat
        /\ Cardinality(abandoned) <= restarts + failures
    BY Assumptions DEF IInv, TypeOK, Accounted, Assumptions
  <2>2. CASE ~ Handling /\ UNCHANGED <<restarts, abandoned>>
    BY <2>1, <2>2
  <2>3. CASE Interruption /\ ~ Handling
    <3>1. abandoned' = abandoned /\ restarts' = restarts + 1 /\ restarts < MaxRestarts
      BY <2>3 DEF Interruption
    <3>2. Cardinality(abandoned) \in Nat
      <4>1. IsFiniteSet(1 .. Len(topic))
        BY <1>2, FS_Interval
      <4> QED BY <2>1, <4>1, FS_Subset, FS_CardinalityType
    <3> QED BY <2>1, <2>3, <3>1, <3>2
  <2>4. CASE Interruption /\ Handling
    <3>1. /\ abandoned' = abandoned \cup {Current}
          /\ restarts' = restarts + 1 /\ restarts < MaxRestarts
      BY <2>4 DEF Interruption
    <3>2. /\ Cardinality(abandoned) \in Nat
          /\ Cardinality(abandoned \cup {Current}) \in Nat
          /\ Cardinality(abandoned \cup {Current}) <= Cardinality(abandoned) + 1
      BY <1>3, <2>4, AbandonedCount DEF IInv
    <3>3. Cardinality(abandoned') <= restarts' + failures /\ restarts' \in 0 .. MaxRestarts
      BY <2>1, <3>1, <3>2
    <3>4. /\ abandoned \subseteq abandoned' /\ abandoned' \subseteq 1 .. Len(topic)
          /\ Current \in abandoned'
      BY <1>3, <2>1, <2>4, <3>1
    <3> QED BY <3>3, <3>4
  <2> QED BY <2>2, <2>3, <2>4
<1>5. UNCHANGED tables \/ (Handling /\ Execute)
  BY DEF InFlight, Handling
<1>6. /\ written \subseteq written' /\ written' \subseteq Records \X (1 .. 3)
      /\ counted' \in [Records -> Nat]
      /\ \A r \in Records : ~ (Handling /\ r = Current) => counted'[r] = counted[r]
      /\ Handling => counted'[Current] <= counted[Current] + 1
      /\ preview' = preview \/ (Handling /\ preview' = Current)
      /\ preview' \in Messages \cup {0}
  <2>1. CASE UNCHANGED tables
    BY <1>3, <2>1 DEF tables, IInv, TypeOK, Previews
  <2>2. CASE Handling /\ Execute
    BY <2>2, Executed DEF IInv, Previews
  <2> QED BY <1>5, <2>1, <2>2
<1>7. dead \subseteq dead' /\ dead' \subseteq 1 .. Len(topic)
  <2>1. dead \subseteq 1 .. Len(topic)
    BY DEF IInv, TypeOK
  <2>2. CASE UNCHANGED dead
    BY <2>1, <2>2
  <2>3. CASE phase = "burying" /\ dead' = dead \cup {Current}
    BY <1>3, <2>1, <2>3 DEF Handling
  <2> QED BY <2>2, <2>3 DEF InFlight
<1>8. TypeOK'
  <2>1. preview' \in 0 .. Len(topic)
    BY <1>2, <1>3, <1>6 DEF IInv, TypeOK
  <2>2. ~ Handling'
    BY DEF Handling
  <2>3. phase' \in {"cancelled", "down"} /\ step' \in 1 .. 3 /\ attempt' \in 0 .. MaxRetries
    BY DEF MaxRetries
  <2>4. position' \in 1 .. Len(topic) + 1
    BY <1>2
  <2> QED BY <1>2, <1>4, <1>6, <1>7, <2>1, <2>2, <2>3, <2>4 DEF IInv, TypeOK, Records
<1>9. InHand'
  BY DEF InHand, MaxRetries
<1>10. Accounted'
  <2>1. \A r : Complete(r) => Complete(r)'
    BY <1>6 DEF Complete
  <2>2. ASSUME NEW r \in 1 .. position' - 1
        PROVE  Complete(r)' \/ r \in dead' \cup abandoned'
    <3>1. position' <= position /\ position \in Nat /\ position' \in Nat
      BY <1>2
    <3>2. r \in 1 .. position - 1
      BY <2>2, <3>1, Below
    <3> QED BY <1>4, <1>7, <2>1, <3>2 DEF IInv, Accounted
  <2> QED BY <1>4, <2>2 DEF Accounted
<1>11. Counting'
  <2>1. ~ Handling'
    BY DEF Handling
  <2>2. \A r \in Records : /\ counted[r] \in Nat /\ delivered[r] \in Nat /\ uncertain[r] \in Nat
                            /\ counted'[r] \in Nat
    BY <1>6 DEF IInv, TypeOK
  <2>3. ASSUME NEW r \in Records
        PROVE  counted'[r] <= delivered[r] + uncertain[r]
    BY <1>6, <2>2 DEF IInv, Counting
  <2> QED BY <2>1, <2>3 DEF Counting
<1>12. Previews'
  <2>1. Messages' = Messages /\ Messages \subseteq Nat /\ preview \in Nat
    BY DEF Messages, IInv, TypeOK
  <2>2. ASSUME NEW r \in Messages, r < position'
        PROVE  preview' >= r \/ r \in dead' \cup abandoned'
    <3>1. r < position /\ r \in Nat /\ r <= Current
      BY <1>2, <2>1, <2>2 DEF Current
    <3>2. CASE Handling /\ r = Current
      BY <1>4, <3>2
    <3>3. CASE ~ (Handling /\ r = Current)
      BY <1>4, <1>6, <1>7, <2>1, <3>1, <3>3 DEF IInv, Previews
    <3> QED BY <3>2, <3>3
  <2>3. phase' # "writing"
    OBVIOUS
  <2> QED BY <1>6, <2>1, <2>2, <2>3 DEF Previews
<1> QED BY <1>8, <1>9, <1>10, <1>11, <1>12 DEF IInv
\* The record in hand is left behind in the dead-letter topic, or abandoned.
LEMMA BuriedInv ==
  ASSUME IInv, phase = "burying", phase' = "idle",
         dead' \in {dead, dead \cup {Current}},
         \/ Current \in dead' /\ UNCHANGED <<failures, abandoned>>
         \/ Failure /\ abandoned' = abandoned \cup {Current},
         UNCHANGED <<topic, position, committed, step, attempt, tables, restarts, delivered,
                     uncertain>>
  PROVE  IInv'
<1>1. Handling /\ ~ Handling' /\ Current' = Current
  BY DEF Handling, Current
<1>2. Current \in 1 .. Len(topic) /\ Len(topic) \in Nat
  BY <1>1, RecordInHand DEF IInv, TypeOK
<1>3. /\ dead \subseteq dead' /\ dead' \subseteq 1 .. Len(topic)
      /\ abandoned \subseteq abandoned' /\ abandoned' \subseteq 1 .. Len(topic)
      /\ Current \in dead' \cup abandoned'
  <2>1. dead \subseteq 1 .. Len(topic) /\ abandoned \subseteq 1 .. Len(topic)
    BY DEF IInv, TypeOK
  <2> HIDE DEF Current
  <2> QED BY <1>2, <2>1
<1>4. /\ failures' \in 0 .. MaxFailures
      /\ Cardinality(abandoned') <= restarts + failures'
  <2>1. /\ failures \in 0 .. MaxFailures /\ MaxFailures \in Nat /\ restarts \in Nat
        /\ Cardinality(abandoned) <= restarts + failures
    BY Assumptions DEF IInv, TypeOK, Accounted, Assumptions
  <2>2. CASE UNCHANGED <<failures, abandoned>>
    BY <2>1, <2>2
  <2>3. CASE Failure /\ abandoned' = abandoned \cup {Current}
    <3>1. failures < MaxFailures /\ failures' = failures + 1
      BY <2>3 DEF Failure
    <3>2. /\ Cardinality(abandoned) \in Nat /\ Cardinality(abandoned') \in Nat
          /\ Cardinality(abandoned') <= Cardinality(abandoned) + 1
      BY <1>2, <2>3, AbandonedCount DEF IInv
    <3> QED BY <2>1, <3>1, <3>2
  <2> QED BY <2>2, <2>3
<1>5. written' = written /\ counted' = counted /\ preview' = preview
  BY DEF tables
<1>6. TypeOK'
  BY <1>1, <1>3, <1>4, <1>5 DEF IInv, TypeOK, Records
<1>7. InHand'
  BY DEF InHand
<1>8. Accounted'
  <2>1. \A r : Complete(r)' = Complete(r)
    BY <1>5 DEF Complete
  <2> QED BY <1>1, <1>3, <1>4, <2>1 DEF IInv, Accounted
<1>9. Counting'
  BY <1>1, <1>5 DEF IInv, Counting
<1>10. Previews'
  <2>1. Messages' = Messages
    BY DEF Messages
  <2> QED BY <1>1, <1>3, <1>5, <2>1 DEF IInv, Previews
<1> QED BY <1>6, <1>7, <1>8, <1>9, <1>10 DEF IInv

\* Steps that only move the process or its committed position
LEMMA MovedInv ==
  ASSUME IInv,
         \/ phase = "waiting" /\ phase' = "writing" /\ step = 1 /\ UNCHANGED <<position, committed>>
         \/ phase' = phase /\ position' = position /\ committed' = position
         \/ /\ phase = "cancelled" /\ phase' = "down"
            /\ position' \in {position, committed} /\ committed' = position'
         \/ phase = "down" /\ phase' = "idle" /\ UNCHANGED <<position, committed>>,
         UNCHANGED <<topic, step, attempt, tables, dead, failures, restarts, history>>
  PROVE  IInv'
<1>1. UNCHANGED <<written, counted, preview, delivered, uncertain, abandoned>>
  BY DEF tables, history
<1>2. /\ position \in Nat /\ position' \in Nat /\ position' <= position
      /\ position' \in 1 .. Len(topic) + 1 /\ committed' \in 1 .. position'
  BY DEF IInv, TypeOK
<1>3. /\ Handling' = Handling
      /\ Handling => position' = position /\ Current' = Current
  BY DEF Handling, Current
<1>4. TypeOK'
  <2>1. Handling' => Current' \in 1 .. Len(topic') /\ step' <= Len(Writes[topic'[Current']])
    BY <1>3 DEF IInv, TypeOK
  <2>2. phase' \in {"down", "idle", "writing", "waiting", "burying", "cancelled"}
    BY DEF IInv, TypeOK
  <2> QED BY <1>1, <1>2, <2>1, <2>2 DEF IInv, TypeOK, Records
<1>5. InHand'
  <2>1. phase = "writing" => position' = position
    BY DEF Handling
  <2>2. phase' = "writing" => phase = "writing" \/ (phase = "waiting" /\ step = 1)
    OBVIOUS
  <2> QED BY <1>1, <1>3, <2>1, <2>2 DEF IInv, InHand, Current
<1>6. Accounted'
  <2>1. \A r : Complete(r)' = Complete(r)
    BY <1>1 DEF Complete
  <2>2. \A r \in 1 .. position' - 1 : r \in 1 .. position - 1
    BY <1>2, Below
  <2> QED BY <1>1, <1>3, <2>1, <2>2 DEF IInv, Accounted
<1>7. Counting'
  BY <1>1, <1>3 DEF IInv, Counting
<1>8. Previews'
  <2>1. Messages' = Messages /\ Messages \subseteq Nat
    BY DEF Messages
  <2>2. \A r \in Messages : r < position' => r < position
    BY <1>2, <2>1
  <2>3. phase' = "writing" /\ step > 2 => phase = "writing" /\ Current' = Current
    BY <1>3 DEF Handling
  <2> QED BY <1>1, <1>3, <2>1, <2>2, <2>3 DEF IInv, Previews
<1> QED BY <1>4, <1>5, <1>6, <1>7, <1>8 DEF IInv

LEMMA StutterInv ==
  ASSUME IInv, UNCHANGED vars
  PROVE  IInv'
BY DEF vars, tables, history, IInv, TypeOK, InHand, Accounted, Counting, Previews, Records,
       Handling, Current, Complete, Messages
LEMMA NextInv ==
  ASSUME IInv, [Next]_vars
  PROVE  IInv'
<1>1. CASE \E kind \in Published : Publish(kind)
  BY <1>1, PublishInv
<1>2. CASE Take
  BY <1>2, TakeInv
<1>3. CASE Write
  BY <1>3, WriteInv
<1>4. CASE WriteRefused
  BY <1>4, RaisedInv DEF WriteRefused, history
<1>5. CASE WriteFails
  BY <1>5, RaisedInv DEF WriteFails, history
<1>6. CASE WriteTimesOut
  BY <1>6, RaisedInv DEF WriteTimesOut
<1>7. CASE BackoffEnds
  <2>1. step = 1
    BY <1>7 DEF BackoffEnds, IInv, InHand
  <2> QED BY <1>7, <2>1, MovedInv DEF BackoffEnds
<1>8. CASE Bury
  BY <1>8, BuriedInv DEF Bury, history
<1>9. CASE BuryFails
  BY <1>9, BuriedInv DEF BuryFails
<1>10. CASE AutoCommit
  BY <1>10, MovedInv DEF AutoCommit
<1>11. CASE StopTask
  BY <1>11, InterruptedInv DEF StopTask
<1>12. CASE StopConsumer
  BY <1>12, MovedInv DEF StopConsumer
<1>13. CASE Crash
  BY <1>13, InterruptedInv DEF Crash, Handling
<1>14. CASE Start
  BY <1>14, MovedInv DEF Start
<1>15. CASE UNCHANGED vars
  BY <1>15, StutterInv
<1> QED BY <1>1, <1>2, <1>3, <1>4, <1>5, <1>6, <1>7, <1>8, <1>9, <1>10, <1>11, <1>12, <1>13,
           <1>14, <1>15 DEF Next

LEMMA Invariance == Spec => []IInv
BY InitInv, NextInv, PTL DEF Spec

-----------------------------------------------------------------------------
(* Theorems *)

\* The worker's state has its types, whatever is published and however often it stops.
THEOREM TypeCorrect == Spec => []TypeOK
<1>1. IInv => TypeOK
  BY DEF IInv
<1> QED BY <1>1, Invariance, PTL

\* No record is lost but the one in hand at a stop or a crash, or one whose dead letter
\* failed: never more of them than there were of these.
THEOREM OnlyAbandonedMissingHolds == Spec => []OnlyAbandonedMissing
<1>1. ASSUME IInv PROVE OnlyAbandonedMissing
  <2>1. Missing \subseteq abandoned
    BY <1>1 DEF IInv, Accounted, Missing
  <2>2. IsFiniteSet(abandoned)
    <3>1. IsFiniteSet(1 .. Len(topic)) /\ abandoned \subseteq 1 .. Len(topic)
      BY <1>1, FS_Interval DEF IInv, TypeOK
    <3> QED BY <3>1, FS_Subset
  <2>3. /\ Cardinality(Missing) <= Cardinality(abandoned)
        /\ Cardinality(Missing) \in Nat /\ Cardinality(abandoned) \in Nat
    BY <2>1, <2>2, FS_Subset, FS_CardinalityType
  <2>4. Cardinality(abandoned) <= restarts + failures /\ restarts \in Nat /\ failures \in Nat
    BY <1>1, Assumptions DEF IInv, TypeOK, Accounted, Assumptions
  <2> QED BY <2>1, <2>3, <2>4 DEF OnlyAbandonedMissing
<1> QED BY <1>1, Invariance, PTL

\* A message adds to the unread count at most once for each time it was delivered and
\* each count that was executed and raised.
THEOREM CountedOncePerDeliveryHolds == Spec => []CountedOncePerDelivery
<1>1. IInv => CountedOncePerDelivery
  BY DEF IInv, Counting, CountedOncePerDelivery
<1> QED BY <1>1, Invariance, PTL

\* When the worker has caught up, the preview is the newest message's, unless that one was
\* given up.
THEOREM PreviewIsNewestHolds == Spec => []PreviewIsNewest
<1>1. ASSUME IInv PROVE PreviewIsNewest
  <2> SUFFICES ASSUME phase = "idle", position = Len(topic) + 1,
                      NEW r \in Messages, \A q \in Messages : q <= r
               PROVE  preview = r \/ r \in dead \cup abandoned
    BY DEF PreviewIsNewest
  <2>1. r \in 1 .. Len(topic) /\ Len(topic) \in Nat
    BY <1>1 DEF Messages, IInv, TypeOK
  <2>2. preview >= r \/ r \in dead \cup abandoned
    BY <1>1, <2>1 DEF IInv, Previews, Handling
  <2>3. preview \in Nat /\ preview \in Messages \cup {0}
    BY <1>1 DEF IInv, Previews, TypeOK
  <2> QED BY <2>1, <2>2, <2>3
<1> QED BY <1>1, Invariance, PTL
=============================================================================
