------------------------- MODULE BotChannelProofs -------------------------
(***************************************************************************)
(* Theorems about BotChannel for any number of overlapping requests and    *)
(* failures and any limit and window.                                      *)
(***************************************************************************)
EXTENDS BotChannel, TLAPS

\* A longer stretch has seen no fewer events.
Growing == \A n \in Ages : n # 0 => recent[n - 1] <= recent[n]

\* Since its window began, Redis has let through no more events than it counted and than
\* the limit; in what is left of the stretch of Window ticks, which is at most one earlier
\* window, no more than the limit.  Without a window there is but the earlier one.
Windows ==
  /\ ttl = 0 => recent[0] = 0 /\ recent[Window - 1] <= Limit
  /\ ttl # 0 => /\ recent[Window - ttl] <= count
                /\ recent[Window - ttl] <= Limit
                /\ recent[Window - 1] <= recent[Window - ttl] + Limit

Counted == Growing /\ Windows

\* One request creates the bot, all others come when it exists.
Creation ==
  /\ \A r, q \in Requests : Op(r) = "create" /\ Op(q) = "create" => r = q
  /\ row.exists => \E r \in Requests : Op(r) = "create"
  /\ \A r \in Requests : Op(r) = "create" /\ row.exists => At(r) \notin {"read", "caching", "committing"}
  /\ \A r \in Requests : Op(r) \in {"delete", "enable", "disable", "regenerate"} => row.exists
  /\ \A r \in Requests : Op(r) = "none" <=> At(r) = "new"
  /\ \A r \in Requests : At(r) = "caching" => Op(r) \in {"create", "delete"}

Deleting(r) == Op(r) = "delete" /\ At(r) \notin {"read", "caching"}

\* The cached mapping of a bot is there unless a delete removed it, and gone when one has.
Mapping ==
  /\ row.exists \/ (\E r \in Requests : Op(r) = "create" /\ At(r) = "committing")
       => mapped \/ \E r \in Requests : Deleting(r)
  /\ \A r \in Requests : Deleting(r) /\ At(r) # "failed" => ~ mapped

\* A key that is not committed yet has been in no row that was read, and no two are equal.
Generates(r) == Op(r) \in {"create", "regenerate"}
Pending(r)   == Generates(r) /\ At(r) \in {"read", "caching", "committing"}

FreshKeys ==
  /\ \A r \in Requests : Pending(r) =>
       /\ request[r].key # row.key
       /\ \A q \in Requests : request[q].read.key # request[r].key
       /\ \A q \in Requests : Generates(q) /\ q # r => request[q].key # request[r].key
  /\ \A r \in Requests : Op(r) = "regenerate" /\ At(r) \in {"committed", "answered"} =>
       row.key # request[r].read.key

IInv == TypeOK /\ Counted /\ Creation /\ Mapping /\ FreshKeys /\ HeardUnlessDeleted
-----------------------------------------------------------------------------
(* The limiter *)

LEMMA IncrementedStep ==
  ASSUME NEW n \in 0 .. CountBound
  PROVE  /\ Incremented(n) \in 1 .. CountBound /\ Incremented(n) \in 0 .. CountBound
         /\ Incremented(n) >= n
         /\ Incremented(n) <= Limit => Incremented(n) = n + 1
BY LimiterAssumptions DEF Incremented, CountBound, LimiterAssumptions

LEMMA CountStep ==
  ASSUME LimiterTypeOK, NEW times \in {1, 2}, Count(times)
  PROVE  /\ count' \in 1 .. CountBound /\ ttl' \in 1 .. Window
         /\ count' >= count
         /\ count' <= Limit => count' >= count + 1
<1>1. count \in 0 .. CountBound /\ CountBound = Limit + 1 /\ Limit \in Nat
  BY LimiterAssumptions DEF LimiterTypeOK, CountBound, LimiterAssumptions
<1>3. count' = Incremented(count) \/ count' = Incremented(Incremented(count))
  BY DEF Count
<1>4. /\ count' \in 1 .. CountBound /\ count' >= count
      /\ count' <= Limit => count' >= count + 1
  <2> DEFINE m == Incremented(count)
             l == Incremented(m)
  <2>1. m \in 1 .. CountBound /\ m \in 0 .. CountBound /\ m >= count /\ (m <= Limit => m = count + 1)
    BY <1>1, IncrementedStep
  <2> HIDE DEF m
  <2>2. l \in 1 .. CountBound /\ l >= m /\ (l <= Limit => l = m + 1)
    BY <2>1, IncrementedStep
  <2>3. count' = m \/ count' = l
    BY <1>3 DEF m
  <2> HIDE DEF l
  <2> QED BY <1>1, <2>1, <2>2, <2>3
<1>5. ttl' \in 1 .. Window
  BY LimiterAssumptions DEF Count, LimiterTypeOK, LimiterAssumptions
<1> QED BY <1>4, <1>5

LEMMA LimiterInv ==
  ASSUME LimiterTypeOK, Counted,
         Admit \/ Refuse \/ FailOpen \/ Tick \/ UNCHANGED limiterVars
  PROVE  LimiterTypeOK' /\ Counted'
<1>1. /\ recent \in [Ages -> Nat] /\ 0 \in Ages /\ Window - 1 \in Ages /\ Ages = 0 .. Window - 1
      /\ count \in 0 .. CountBound /\ ttl \in 0 .. Window /\ (count = 0 <=> ttl = 0)
      /\ Limit \in Nat /\ Window \in Nat \ {0} /\ CountBound = Limit + 1
  BY LimiterAssumptions DEF LimiterTypeOK, LimiterAssumptions, Ages, CountBound
<1>2. \A n \in Ages : recent[n] \in Nat
  BY <1>1
<1>3. CASE Admit
  <2>1. PICK times \in {1, 2} : Count(times)
    BY <1>3 DEF Admit
  <2>2. count' <= Limit /\ recent' = [n \in Ages |-> recent[n] + 1]
    BY <1>3 DEF Admit, Allowed
  <2>3. /\ count' \in 1 .. CountBound /\ ttl' \in 1 .. Window /\ count' >= count + 1
        /\ ttl' = IF ttl = 0 THEN Window ELSE ttl
    BY <2>1, <2>2, CountStep DEF Count
  <2>4. recent' \in [Ages -> Nat] /\ \A n \in Ages : recent'[n] = recent[n] + 1
    BY <1>2, <2>2
  <2>5. LimiterTypeOK'
    BY <1>1, <2>3, <2>4 DEF LimiterTypeOK
  <2>6. Growing'
    BY <1>1, <2>4 DEF Counted, Growing
  <2>7. Windows'
    <3>1. CASE ttl = 0
      BY <1>1, <1>2, <2>2, <2>3, <2>4, <3>1 DEF Counted, Windows
    <3>2. CASE ttl # 0
      <4> DEFINE e == Window - ttl
      <4>1. /\ e \in Ages /\ recent[e] \in Nat /\ recent[Window - 1] \in Nat
            /\ recent[e] <= count /\ recent[e] <= Limit
            /\ recent[Window - 1] <= recent[e] + Limit
        BY <1>1, <1>2, <3>2 DEF Counted, Windows
      <4>2. recent'[e] = recent[e] + 1 /\ recent'[Window - 1] = recent[Window - 1] + 1
        BY <1>1, <2>4, <4>1
      <4>3. recent'[e] <= count' /\ recent'[e] <= Limit /\ recent'[Window - 1] <= recent'[e] + Limit
        BY <1>1, <2>2, <2>3, <4>1, <4>2
      <4> QED BY <2>3, <3>2, <4>3 DEF Windows
    <3> QED BY <3>1, <3>2
  <2> QED BY <2>5, <2>6, <2>7 DEF Counted
<1>4. CASE (\E times \in {1, 2} : Count(times)) /\ UNCHANGED recent
  <2>1. /\ count' \in 1 .. CountBound /\ ttl' \in 1 .. Window /\ count' >= count
        /\ ttl' = IF ttl = 0 THEN Window ELSE ttl
    BY <1>4, CountStep DEF Count
  <2>2. LimiterTypeOK'
    BY <1>1, <1>4, <2>1 DEF LimiterTypeOK
  <2>3. Growing'
    BY <1>4 DEF Counted, Growing
  <2>4. Windows'
    <3>1. CASE ttl = 0
      BY <1>1, <1>2, <1>4, <2>1, <3>1 DEF Counted, Windows
    <3>2. CASE ttl # 0
      <4>1. Window - ttl \in Ages
        BY <1>1, <3>2
      <4>2. recent[Window - ttl] \in Nat
        BY <1>2, <4>1
      <4> QED BY <1>1, <1>4, <2>1, <3>2, <4>2 DEF Counted, Windows
    <3> QED BY <3>1, <3>2
  <2> QED BY <2>2, <2>3, <2>4 DEF Counted
<1>5. CASE UNCHANGED limiterVars
  BY <1>5 DEF limiterVars, LimiterTypeOK, Counted, Growing, Windows
<1>6. CASE Tick
  <2>1. /\ ttl' \in 0 .. Window /\ ttl' = IF ttl = 0 THEN 0 ELSE ttl - 1
        /\ count' = IF ttl' = 0 THEN 0 ELSE count
    BY <1>1, <1>6 DEF Tick
  <2>2. \A n \in Ages : n # 0 => n - 1 \in Ages
    BY <1>1
  <2>3. /\ recent' \in [Ages -> Nat] /\ recent'[0] = 0
        /\ \A n \in Ages : n # 0 => recent'[n] = recent[n - 1]
    BY <1>1, <1>6, <2>2 DEF Tick
  <2>4. LimiterTypeOK'
    BY <1>1, <2>1, <2>3 DEF LimiterTypeOK
  <2>5. Growing'
    <3> SUFFICES ASSUME NEW n \in Ages, n # 0 PROVE recent'[n - 1] <= recent'[n]
      BY DEF Growing
    <3>1. CASE n = 1
      BY <1>1, <1>2, <2>2, <2>3, <3>1
    <3>2. CASE n # 1
      <4>1. n - 1 \in Ages /\ n - 1 # 0
        BY <1>1, <3>2
      <4>2. recent[(n - 1) - 1] <= recent[n - 1]
        BY <4>1 DEF Counted, Growing
      <4> QED BY <2>3, <4>1, <4>2
    <3> QED BY <3>1, <3>2
  <2>6. recent'[Window - 1] <= recent[Window - 1]
    <3>1. CASE Window = 1
      BY <1>1, <1>2, <2>3, <3>1
    <3>2. CASE Window # 1
      BY <1>1, <2>3, <3>2 DEF Counted, Growing
    <3> QED BY <3>1, <3>2
  <2>7. recent[Window - 1] \in Nat /\ recent'[Window - 1] \in Nat
    BY <1>1, <2>3
  <2>8. Windows'
    <3>1. CASE ttl = 0
      BY <1>1, <2>1, <2>3, <2>6, <2>7, <3>1 DEF Counted, Windows
    <3>2. CASE ttl = 1
      BY <1>1, <2>1, <2>3, <2>6, <2>7, <3>2 DEF Counted, Windows
    <3>3. CASE ttl > 1
      <4> DEFINE e == Window - ttl
      <4>1. /\ e \in Ages /\ e + 1 \in Ages /\ recent[e] \in Nat
            /\ recent[e] <= count /\ recent[e] <= Limit
            /\ recent[Window - 1] <= recent[e] + Limit
        BY <1>1, <1>2, <3>3 DEF Counted, Windows
      <4>2. recent'[e + 1] = recent[e]
        BY <1>1, <2>3, <4>1
      <4>3. Window - ttl' = e + 1 /\ ttl' # 0 /\ count' = count
        BY <1>1, <2>1, <3>3
      <4>4. recent'[Window - 1] <= recent'[e + 1] + Limit
        BY <1>1, <2>6, <2>7, <4>1, <4>2
      <4> QED BY <4>1, <4>2, <4>3, <4>4 DEF Windows
    <3> QED BY <1>1, <3>1, <3>2, <3>3
  <2> QED BY <2>4, <2>5, <2>8 DEF Counted
<1>7. CASE FailOpen
  BY <1>4, <1>5, <1>7 DEF FailOpen, limiterVars
<1>8. CASE Refuse
  BY <1>4, <1>8 DEF Refuse
<1> QED BY <1>3, <1>5, <1>6, <1>7, <1>8

-----------------------------------------------------------------------------
(* Requests *)

RequestRecords == [op : Operations \cup {"none"}, at : Steps, read : Rows, key : Keys \cup {NoKey}]

\* A request goes on and stays what it is.
LEMMA GoFacts ==
  ASSUME request \in [Requests -> RequestRecords], NEW r \in Requests, NEW s \in Steps, Go(r, s)
  PROVE  /\ request' \in [Requests -> RequestRecords]
         /\ \A q \in Requests : /\ Op(q)' = Op(q)
                                /\ request'[q].read = request[q].read
                                /\ request'[q].key = request[q].key
                                /\ q # r => At(q)' = At(q)
         /\ At(r)' = s
<1>1. request' = [request EXCEPT ![r] = [request[r] EXCEPT !.at = s]]
  BY DEF Go
<1>2. [request[r] EXCEPT !.at = s] \in RequestRecords
  BY DEF RequestRecords
<1>3. \A q \in Requests : request'[q] = IF q = r THEN [request[r] EXCEPT !.at = s] ELSE request[q]
  BY <1>1
<1>4. /\ [request[r] EXCEPT !.at = s].op = request[r].op
      /\ [request[r] EXCEPT !.at = s].read = request[r].read
      /\ [request[r] EXCEPT !.at = s].key = request[r].key
      /\ [request[r] EXCEPT !.at = s].at = s
  BY DEF RequestRecords
<1> QED BY <1>1, <1>2, <1>3, <1>4 DEF Op, At

\* What TypeOK says of a request
LEMMA RequestType ==
  ASSUME TypeOK, NEW r \in Requests
  PROVE  /\ Op(r) \in Operations \cup {"none"} /\ At(r) \in Steps
         /\ request[r].read \in Rows /\ request[r].key \in Keys \cup {NoKey}
BY DEF TypeOK, Op, At

LEMMA ReadInv ==
  ASSUME IInv, NEW r \in Requests, NEW op \in Operations, Read(r, op)
  PROVE  IInv'
<1> DEFINE generates == op \in {"create", "regenerate"}
           new == [op |-> op, at |-> "read", read |-> row,
                   key |-> IF generates THEN keys + 1 ELSE row.key]
<1>1. /\ At(r) = "new" /\ request' = [request EXCEPT ![r] = new]
      /\ keys' = IF generates THEN keys + 1 ELSE keys
      /\ op = "create" => \A q \in Requests : Op(q) # "create"
      /\ op # "create" => row.exists
      /\ UNCHANGED <<row, lock, mapped, failures, count, ttl, recent, session, feed, unheard>>
  BY DEF Read, others, limiterVars
<1>2. /\ request \in [Requests -> RequestRecords] /\ row \in Rows /\ keys \in Nat
  BY DEF IInv, TypeOK, RequestRecords
<1>3. /\ Keys \subseteq Keys' /\ row.key \in Keys \cup {NoKey} /\ keys' \in Nat
      /\ generates => keys + 1 \in Keys' /\ keys + 1 \notin Keys /\ keys + 1 # NoKey
  BY <1>1, <1>2, Assumptions DEF Keys, Rows, Assumptions
<1>4. Rows \subseteq Rows'
  BY <1>3 DEF Rows
<1>5. /\ request' \in [Requests -> RequestRecords']
      /\ Op(r)' = op /\ At(r)' = "read" /\ request'[r].read = row
      /\ generates => request'[r].key = keys + 1
      /\ \A q \in Requests : q # r => Op(q)' = Op(q) /\ At(q)' = At(q) /\ request'[q] = request[q]
  <2>1. new \in RequestRecords'
    BY <1>2, <1>3, <1>4 DEF RequestRecords, Steps
  <2>2. RequestRecords \subseteq RequestRecords'
    BY <1>3, <1>4 DEF RequestRecords
  <2>3. \A q \in Requests : request'[q] = IF q = r THEN new ELSE request[q]
    BY <1>1, <1>2
  <2>4. request' \in [Requests -> RequestRecords']
    BY <1>1, <1>2, <2>1, <2>2
  <2> QED BY <2>3, <2>4 DEF Op, At
<1>6. Op(r) = "none"
  BY <1>1 DEF IInv, Creation
<1> HIDE DEF new, generates
<1>7. TypeOK'
  <2>1. LimiterTypeOK'
    BY <1>1 DEF IInv, TypeOK, LimiterTypeOK
  <2>2. \A q \in Requests : lock = q => At(q)' \in {"caching", "committing"} /\ Changes(q)'
    <3>1. lock # r
      BY <1>1 DEF IInv, TypeOK
    <3>2. \A q \in Requests : q # r => Changes(q)' = Changes(q)
      BY <1>5 DEF Changes
    <3> QED BY <1>5, <3>1, <3>2 DEF IInv, TypeOK
  <2> QED BY <1>1, <1>2, <1>3, <1>4, <1>5, <2>1, <2>2 DEF IInv, TypeOK, RequestRecords
<1>8. Counted'
  BY <1>1 DEF IInv, Counted, Growing, Windows
<1>9. Creation'
  BY <1>1, <1>5 DEF IInv, Creation, Operations
<1>10. Mapping' /\ HeardUnlessDeleted'
  <2>1. \A q \in Requests : Deleting(q)' <=> Deleting(q)
    BY <1>5, <1>6 DEF Deleting
  <2>2. \A q \in Requests : At(q)' = "committing" => q # r
    BY <1>5
  <2> QED BY <1>1, <1>5, <1>6, <2>1, <2>2 DEF IInv, Mapping, HeardUnlessDeleted, Deleting
<1>11. FreshKeys'
  <2>1. \A q \in Requests : request[q].key \in Keys \cup {NoKey} /\ request[q].read.key \in Keys \cup {NoKey}
    BY RequestType DEF IInv, Rows
  <2>2. ASSUME NEW q \in Requests, Pending(q)'
        PROVE  /\ request'[q].key # row.key
               /\ \A p \in Requests : request'[p].read.key # request'[q].key
               /\ \A p \in Requests : Generates(p)' /\ p # q => request'[p].key # request'[q].key
    <3>1. CASE q = r
      <4>1. generates
        BY <1>5, <2>2, <3>1 DEF Pending, Generates, generates
      <4> QED BY <1>3, <1>5, <2>1, <3>1, <4>1
    <3>2. CASE q # r
      <4>1. Pending(q) /\ request'[q] = request[q]
        BY <1>5, <2>2, <3>2 DEF Pending, Generates
      <4>2. Generates(r)' => generates
        BY <1>5 DEF Generates, generates
      <4>3. \A p \in Requests : p # r /\ Generates(p)' => Generates(p)
        BY <1>5 DEF Generates
      <4> QED BY <1>3, <1>5, <2>1, <3>2, <4>1, <4>2, <4>3 DEF IInv, FreshKeys
    <3> QED BY <3>1, <3>2
  <2>3. \A q \in Requests : (Op(q) = "regenerate" /\ At(q) \in {"committed", "answered"})' =>
          row.key # request'[q].read.key
    BY <1>5 DEF IInv, FreshKeys
  <2> QED BY <1>1, <2>2, <2>3 DEF FreshKeys
<1> QED BY <1>7, <1>8, <1>9, <1>10, <1>11 DEF IInv

\* What a request that goes on leaves alone
LEMMA GoKeeps ==
  ASSUME IInv, NEW r \in Requests, NEW s \in Steps, Go(r, s),
         UNCHANGED <<keys, limiterVars, session, feed, unheard>>
  PROVE  /\ request' \in [Requests -> RequestRecords'] /\ LimiterTypeOK' /\ Counted'
         /\ Rows' = Rows /\ Keys' = Keys
         /\ \A q \in Requests : /\ Op(q)' = Op(q)
                                /\ request'[q].read = request[q].read
                                /\ request'[q].key = request[q].key
                                /\ q # r => At(q)' = At(q)
                                /\ Changes(q)' = Changes(q)
         /\ At(r)' = s
<1>1. request \in [Requests -> RequestRecords]
  BY DEF IInv, TypeOK, RequestRecords
<1>2. Rows' = Rows /\ Keys' = Keys
  BY DEF Rows, Keys
<1>3. RequestRecords' = RequestRecords
  BY <1>2 DEF RequestRecords
<1>4. LimiterTypeOK' /\ Counted'
  BY LimiterInv DEF IInv, TypeOK, limiterVars
<1>5. \A q \in Requests : Op(q)' = Op(q) /\ request'[q].read = request[q].read
  BY <1>1, GoFacts
<1>6. \A q \in Requests : Changes(q)' = Changes(q)
  BY <1>5 DEF Changes
<1> QED BY <1>1, <1>2, <1>3, <1>4, <1>6, GoFacts

LEMMA FlushInv ==
  ASSUME IInv, NEW r \in Requests, Flush(r)
  PROVE  IInv'
<1> DEFINE s == IF UsesCache(r) THEN "caching" ELSE "committing"
<1>1. /\ At(r) = "read" /\ Go(r, s) /\ s \in Steps
      /\ IF Changes(r) THEN lock = NoRequest /\ lock' = r ELSE lock' = lock
      /\ UNCHANGED <<row, mapped, failures, keys, limiterVars, session, feed, unheard>>
  BY DEF Flush, others, Steps
<1>2. /\ request' \in [Requests -> RequestRecords'] /\ LimiterTypeOK' /\ Counted'
      /\ Rows' = Rows /\ Keys' = Keys
      /\ \A q \in Requests : /\ Op(q)' = Op(q)
                             /\ request'[q].read = request[q].read
                             /\ request'[q].key = request[q].key
                             /\ q # r => At(q)' = At(q)
                             /\ Changes(q)' = Changes(q)
      /\ At(r)' = s
  BY <1>1, GoKeeps
<1>3. /\ s \in {"caching", "committing"}
      /\ Op(r) \in {"create", "delete"} <=> s = "caching"
  BY DEF UsesCache
<1> HIDE DEF s
<1>4. TypeOK'
  <2>1. lock' \in Requests \cup {NoRequest}
    BY <1>1 DEF IInv, TypeOK
  <2>2. \A q \in Requests : lock' = q => At(q)' \in {"caching", "committing"} /\ Changes(q)'
    BY <1>1, <1>2, <1>3, Assumptions DEF IInv, TypeOK, Assumptions
  <2> QED BY <1>1, <1>2, <2>1, <2>2 DEF IInv, TypeOK, RequestRecords
<1>5. Creation'
  BY <1>1, <1>2, <1>3 DEF IInv, Creation
<1>6. Mapping' /\ HeardUnlessDeleted'
  <2>1. \A q \in Requests : Deleting(q)' <=> Deleting(q)
    BY <1>1, <1>2, <1>3 DEF Deleting
  <2>2. \A q \in Requests : (Op(q) = "create" /\ At(q) = "committing")' => Op(q) = "create" /\ At(q) = "committing"
    BY <1>1, <1>2, <1>3
  <2> QED BY <1>1, <1>2, <1>3, <2>1, <2>2 DEF IInv, Mapping, HeardUnlessDeleted, Deleting
<1>7. FreshKeys'
  <2>1. \A q \in Requests : (Pending(q)' => Pending(q)) /\ (Generates(q)' <=> Generates(q))
    BY <1>1, <1>2, <1>3 DEF Pending, Generates
  <2>2. \A q \in Requests : At(q)' \in {"committed", "answered"} => At(q) \in {"committed", "answered"}
    BY <1>1, <1>2, <1>3
  <2> QED BY <1>1, <1>2, <2>1, <2>2 DEF IInv, FreshKeys
<1> QED BY <1>2, <1>4, <1>5, <1>6, <1>7 DEF IInv

LEMMA ChangeCacheInv ==
  ASSUME IInv, NEW r \in Requests, ChangeCache(r)
  PROVE  IInv'
<1>1. PICK s \in {"committing", "failed"} :
        /\ Go(r, s)
        /\ s = "committing" => mapped' = (Op(r) = "create") /\ UNCHANGED <<lock, failures>>
        /\ s = "failed" => mapped' \in {mapped, Op(r) = "create"} /\ Failure /\ lock' = Unlocked(r)
  BY DEF ChangeCache
<1>2. /\ At(r) = "caching" /\ s \in Steps
      /\ UNCHANGED <<row, keys, limiterVars, session, feed, unheard>>
  BY <1>1 DEF ChangeCache, others, Steps
<1>3. /\ request' \in [Requests -> RequestRecords'] /\ LimiterTypeOK' /\ Counted'
      /\ Rows' = Rows /\ Keys' = Keys
      /\ \A q \in Requests : /\ Op(q)' = Op(q)
                             /\ request'[q].read = request[q].read
                             /\ request'[q].key = request[q].key
                             /\ q # r => At(q)' = At(q)
                             /\ Changes(q)' = Changes(q)
      /\ At(r)' = s
  BY <1>1, <1>2, GoKeeps
<1>4. Op(r) \in {"create", "delete"}
  BY <1>2 DEF IInv, Creation
<1>5. TypeOK'
  <2>1. lock' \in Requests \cup {NoRequest}
    BY <1>1 DEF IInv, TypeOK, Unlocked
  <2>2. \A q \in Requests : lock' = q => At(q)' \in {"caching", "committing"} /\ Changes(q)'
    BY <1>1, <1>3, Assumptions DEF IInv, TypeOK, Unlocked, Assumptions
  <2>3. mapped \in BOOLEAN /\ (Op(r) = "create") \in BOOLEAN
    BY DEF IInv, TypeOK
  <2>4. mapped' = mapped \/ mapped' = (Op(r) = "create")
    BY <1>1
  <2>5. mapped' \in BOOLEAN
    BY <2>3, <2>4, Zenon
  <2>6. failures' \in 0 .. MaxFailures
    BY <1>1, Assumptions DEF IInv, TypeOK, Failure, Assumptions
  <2> QED BY <1>2, <1>3, <2>1, <2>2, <2>5, <2>6 DEF IInv, TypeOK, RequestRecords
<1>6. Creation'
  BY <1>1, <1>2, <1>3 DEF IInv, Creation
<1>7. Mapping' /\ HeardUnlessDeleted'
  <2>1. \A q \in Requests : Deleting(q) => Deleting(q)'
    BY <1>1, <1>2, <1>3 DEF Deleting
  <2>2. CASE Op(r) = "create"
    <3>1. ~ row.exists /\ \A q \in Requests : Op(q) \in {"none", "create"} /\ (Op(q) = "create" => q = r)
      BY <1>2, <2>2, RequestType DEF IInv, Creation, Operations
    <3>2. \A q \in Requests : ~ Deleting(q)' /\ ~ Deleting(q)
      BY <1>3, <3>1 DEF Deleting
    <3>3. s = "committing" => mapped'
      BY <1>1, <2>2
    <3> QED BY <1>1, <1>2, <1>3, <3>1, <3>2, <3>3 DEF IInv, Mapping, HeardUnlessDeleted, Deleting
  <2>3. CASE Op(r) = "delete"
    <3>1. Deleting(r)'
      BY <1>1, <1>3, <2>3 DEF Deleting
    <3>2. \A q \in Requests : q # r => (Deleting(q)' => Deleting(q)) /\ At(q)' = At(q)
      BY <1>3 DEF Deleting
    <3>3. mapped' = FALSE \/ (mapped' = mapped /\ At(r)' = "failed")
      BY <1>1, <1>3, <2>3
    <3>4. \A q \in Requests : (Deleting(q) /\ At(q) # "failed")' => ~ mapped'
      BY <3>2, <3>3 DEF IInv, Mapping
    <3>5. HeardUnlessDeleted'
      BY <3>1 DEF HeardUnlessDeleted, Deleting
    <3> QED BY <3>1, <3>4, <3>5 DEF Mapping
  <2> QED BY <1>4, <2>2, <2>3
<1>8. FreshKeys'
  <2>1. \A q \in Requests : (Pending(q)' => Pending(q)) /\ (Generates(q)' <=> Generates(q))
    BY <1>1, <1>2, <1>3 DEF Pending, Generates
  <2>2. \A q \in Requests : At(q)' \in {"committed", "answered"} => At(q) \in {"committed", "answered"}
    BY <1>1, <1>2, <1>3
  <2> QED BY <1>2, <1>3, <2>1, <2>2 DEF IInv, FreshKeys
<1> QED BY <1>3, <1>5, <1>6, <1>7, <1>8 DEF IInv

LEMMA CommitInv ==
  ASSUME IInv, NEW r \in Requests, Commit(r)
  PROVE  IInv'
<1>1. PICK s \in {"committed", "failed"} :
        /\ Go(r, s)
        /\ row' \in {row, Committed(r)}
        /\ s = "committed" => row' = Committed(r) /\ UNCHANGED failures
        /\ s = "failed" => Failure
  BY DEF Commit
<1>2. /\ At(r) = "committing" /\ s \in Steps /\ lock' = Unlocked(r)
      /\ UNCHANGED <<mapped, keys, limiterVars, session, feed, unheard>>
  BY <1>1 DEF Commit, others, Steps
<1>3. /\ request' \in [Requests -> RequestRecords'] /\ LimiterTypeOK' /\ Counted'
      /\ Rows' = Rows /\ Keys' = Keys
      /\ \A q \in Requests : /\ Op(q)' = Op(q)
                             /\ request'[q].read = request[q].read
                             /\ request'[q].key = request[q].key
                             /\ q # r => At(q)' = At(q)
                             /\ Changes(q)' = Changes(q)
      /\ At(r)' = s
  BY <1>1, <1>2, GoKeeps
<1>4. Op(r) \in Operations
  BY <1>2, RequestType DEF IInv, Creation
<1>5. /\ Committed(r) \in Rows /\ Committed(r).exists
      /\ Generates(r) => Committed(r).key = request[r].key
      /\ ~ Generates(r) => Committed(r).key = row.key
  <2>1. row \in Rows /\ request[r].key \in Keys \cup {NoKey} /\ (Op(r) # "create" => row.exists)
    BY <1>4, RequestType DEF IInv, TypeOK, Creation, Operations
  <2>2. CASE Op(r) = "create"
    BY <2>1, <2>2 DEF Committed, Rows, Generates
  <2>3. CASE Op(r) = "regenerate"
    BY <2>1, <2>3 DEF Committed, Rows, Generates
  <2>4. CASE Op(r) \in {"delete", "enable", "disable"}
    BY <2>1, <2>4 DEF Committed, Rows, Generates
  <2> QED BY <1>4, <2>2, <2>3, <2>4 DEF Operations
<1> HIDE DEF Committed
<1>6. TypeOK'
  <2>1. lock' \in Requests \cup {NoRequest} /\ failures' \in 0 .. MaxFailures
    BY <1>1, <1>2, Assumptions DEF IInv, TypeOK, Unlocked, Failure, Assumptions
  <2>2. \A q \in Requests : lock' = q => At(q)' \in {"caching", "committing"} /\ Changes(q)'
    BY <1>2, <1>3, Assumptions DEF IInv, TypeOK, Unlocked, Assumptions
  <2>3. row' \in Rows
    BY <1>1, <1>5 DEF IInv, TypeOK
  <2> QED BY <1>2, <1>3, <2>1, <2>2, <2>3 DEF IInv, TypeOK, RequestRecords
<1>7. row.exists => row'.exists
  BY <1>1, <1>5
<1>8. row'.exists => row.exists \/ Op(r) = "create"
  BY <1>1, <1>4 DEF IInv, Creation, Operations
<1>9. Creation'
  BY <1>1, <1>2, <1>3, <1>7, <1>8 DEF IInv, Creation
<1>10. Mapping' /\ HeardUnlessDeleted'
  <2>1. \A q \in Requests : (Deleting(q)' <=> Deleting(q)) /\ (At(q)' # "failed" => At(q) # "failed")
    BY <1>1, <1>2, <1>3 DEF Deleting
  <2>2. \A q \in Requests : At(q)' = "committing" => At(q) = "committing"
    BY <1>1, <1>3
  <2> QED BY <1>2, <1>3, <1>8, <2>1, <2>2 DEF IInv, Mapping, HeardUnlessDeleted, Deleting
<1>11. FreshKeys'
  <2>1. \A q \in Requests : /\ Pending(q)' => Pending(q) /\ q # r
                            /\ Generates(q)' <=> Generates(q)
    BY <1>1, <1>2, <1>3 DEF Pending, Generates
  <2>2. row'.key = row.key \/ (Generates(r) /\ Pending(r) /\ row'.key = request[r].key)
    BY <1>1, <1>2, <1>5 DEF Pending
  <2>3. ASSUME NEW q \in Requests, Pending(q)'
        PROVE  request[q].key # row'.key
    <3>1. Pending(q) /\ q # r
      BY <2>1, <2>3 DEF Pending, Generates
    <3>2. CASE row'.key = row.key
      BY <3>1, <3>2 DEF IInv, FreshKeys
    <3>3. CASE Generates(r) /\ Pending(r) /\ row'.key = request[r].key
      BY <3>1, <3>3 DEF IInv, FreshKeys
    <3> QED BY <2>2, <3>2, <3>3
  <2>4. ASSUME NEW q \in Requests, Op(q) = "regenerate", At(q)' \in {"committed", "answered"}
        PROVE  row'.key # request[q].read.key
    <3>1. CASE q = r
      <4>1. Generates(r) /\ Pending(r) /\ row' = Committed(r)
        BY <1>1, <1>2, <1>3, <2>4, <3>1 DEF Pending, Generates
      <4> QED BY <1>5, <3>1, <4>1 DEF IInv, FreshKeys
    <3>2. CASE q # r
      BY <1>3, <2>2, <2>4, <3>2 DEF IInv, FreshKeys
    <3> QED BY <3>1, <3>2
  <2>5. ASSUME NEW q \in Requests, Pending(q)'
        PROVE  /\ request'[q].key # row'.key
               /\ \A p \in Requests : request'[p].read.key # request'[q].key
               /\ \A p \in Requests : Generates(p)' /\ p # q => request'[p].key # request'[q].key
    <3>1. Pending(q) /\ request'[q].key = request[q].key
      BY <1>3, <2>1, <2>5 DEF Pending, Generates
    <3>2. request'[q].key # row'.key
      BY <2>3, <2>5, <3>1 DEF Pending, Generates
    <3>3. \A p \in Requests : Generates(p)' => Generates(p)
      BY <2>1
    <3>4. /\ \A p \in Requests : request[p].read.key # request[q].key
          /\ \A p \in Requests : Generates(p) /\ p # q => request[p].key # request[q].key
      BY <3>1 DEF IInv, FreshKeys
    <3> HIDE DEF Generates
    <3> QED BY <1>3, <3>1, <3>2, <3>3, <3>4
  <2>6. \A q \in Requests : (Op(q) = "regenerate" /\ At(q) \in {"committed", "answered"})' =>
          row'.key # request'[q].read.key
    BY <1>3, <2>4
  <2> QED BY <2>5, <2>6 DEF FreshKeys
<1> QED BY <1>3, <1>6, <1>9, <1>10, <1>11 DEF IInv

LEMMA AnswerInv ==
  ASSUME IInv, NEW r \in Requests, Answer(r)
  PROVE  IInv'
<1>1. /\ At(r) = "committed" /\ Go(r, "answered") /\ "answered" \in Steps
      /\ UNCHANGED <<row, lock, mapped, failures, keys, limiterVars, session, feed, unheard>>
  BY DEF Answer, others, Steps
<1>2. /\ request' \in [Requests -> RequestRecords'] /\ LimiterTypeOK' /\ Counted'
      /\ Rows' = Rows /\ Keys' = Keys
      /\ \A q \in Requests : /\ Op(q)' = Op(q)
                             /\ request'[q].read = request[q].read
                             /\ request'[q].key = request[q].key
                             /\ q # r => At(q)' = At(q)
                             /\ Changes(q)' = Changes(q)
      /\ At(r)' = "answered"
  BY <1>1, GoKeeps
<1>3. TypeOK'
  <2>1. \A q \in Requests : lock' = q => At(q)' \in {"caching", "committing"} /\ Changes(q)'
    BY <1>1, <1>2 DEF IInv, TypeOK
  <2> QED BY <1>1, <1>2, <2>1 DEF IInv, TypeOK, RequestRecords
<1>4. Creation'
  BY <1>1, <1>2 DEF IInv, Creation
<1>5. Mapping' /\ HeardUnlessDeleted'
  <2>1. \A q \in Requests : (Deleting(q)' <=> Deleting(q)) /\ (At(q)' # "failed" => At(q) # "failed")
    BY <1>1, <1>2 DEF Deleting
  <2>2. \A q \in Requests : At(q)' = "committing" => At(q) = "committing"
    BY <1>2
  <2> QED BY <1>1, <1>2, <2>1, <2>2 DEF IInv, Mapping, HeardUnlessDeleted, Deleting
<1>6. FreshKeys'
  <2>1. \A q \in Requests : (Pending(q)' => Pending(q)) /\ (Generates(q)' <=> Generates(q))
    BY <1>1, <1>2 DEF Pending, Generates
  <2>2. \A q \in Requests : At(q)' \in {"committed", "answered"} => At(q) \in {"committed", "answered"}
    BY <1>1, <1>2
  <2> QED BY <1>1, <1>2, <2>1, <2>2 DEF IInv, FreshKeys
<1> QED BY <1>2, <1>3, <1>4, <1>5, <1>6 DEF IInv

-----------------------------------------------------------------------------
(* The customer, the feed, and time *)

\* Steps that touch no request
LEMMA BesideInv ==
  ASSUME IInv, UNCHANGED requestVars,
         Admit \/ Refuse \/ FailOpen \/ Tick \/ UNCHANGED limiterVars,
         session' \in Keys \cup {NoKey}, feed' \in {"none", "handled", "addressed"},
         unheard' \in {unheard, unheard \/ (~ mapped /\ row.exists /\ row.active)}
  PROVE  IInv'
<1>1. UNCHANGED <<row, lock, request, mapped, keys, failures>>
  BY DEF requestVars
<1>2. LimiterTypeOK' /\ Counted'
  BY LimiterInv DEF IInv, TypeOK
<1>3. Rows' = Rows /\ Keys' = Keys
  BY <1>1 DEF Rows, Keys
<1>4. \A q \in Requests : Op(q)' = Op(q) /\ At(q)' = At(q) /\ Changes(q)' = Changes(q)
  BY <1>1 DEF Op, At, Changes
<1>5. TypeOK'
  BY <1>1, <1>2, <1>3, <1>4 DEF IInv, TypeOK
<1>6. Creation'
  BY <1>1, <1>4 DEF IInv, Creation
<1>7. Mapping' /\ HeardUnlessDeleted'
  <2>1. \A q \in Requests : Deleting(q)' <=> Deleting(q)
    BY <1>4 DEF Deleting
  <2> QED BY <1>1, <1>4, <2>1 DEF IInv, Mapping, HeardUnlessDeleted, Deleting
<1>8. FreshKeys'
  BY <1>1, <1>4 DEF IInv, FreshKeys, Pending, Generates
<1> QED BY <1>2, <1>5, <1>6, <1>7, <1>8 DEF IInv

LEMMA InitInv == Init => IInv
<1> SUFFICES ASSUME Init PROVE IInv
  OBVIOUS
<1>1. LimiterTypeOK /\ Counted
  <2>1. /\ recent = [n \in Ages |-> 0] /\ count = 0 /\ ttl = 0 /\ Ages = 0 .. Window - 1
        /\ Limit \in Nat /\ Window \in Nat \ {0} /\ CountBound = Limit + 1
    BY LimiterAssumptions DEF Init, LimiterInit, Ages, CountBound, LimiterAssumptions
  <2>2. 0 \in Ages /\ Window - 1 \in Ages /\ \A n \in Ages : n # 0 => n - 1 \in Ages
    BY <2>1
  <2> QED BY <2>1, <2>2 DEF LimiterTypeOK, Counted, Growing, Windows
<1>2. \A r \in Requests : Op(r) = "none" /\ At(r) = "new" /\ request[r].key = NoKey
  BY DEF Init, Op, At
<1>3. NoRow \in Rows /\ ~ NoRow.exists
  BY DEF NoRow, Rows
<1>4. TypeOK
  <2>1. request \in [Requests -> RequestRecords]
    BY <1>3 DEF Init, RequestRecords, Steps
  <2>2. lock \in Requests \cup {NoRequest} /\ \A r \in Requests : lock # r
    BY Assumptions DEF Init, Assumptions
  <2>3. keys \in Nat /\ failures \in 0 .. MaxFailures
    BY Assumptions DEF Init, Assumptions
  <2>4. mapped \in BOOLEAN /\ unheard \in BOOLEAN /\ session \in Keys \cup {NoKey} /\ feed = "none"
    BY Zenon DEF Init
  <2>5. row \in Rows
    BY <1>3 DEF Init
  <2> QED BY <1>1, <2>1, <2>2, <2>3, <2>4, <2>5 DEF TypeOK, RequestRecords
<1>5. Creation /\ Mapping /\ FreshKeys /\ HeardUnlessDeleted
  BY <1>2, <1>3 DEF Init, Creation, Mapping, FreshKeys, HeardUnlessDeleted, Deleting, Pending, Generates
<1> QED BY <1>1, <1>4, <1>5 DEF IInv

LEMMA NextInv ==
  ASSUME IInv, [Next]_vars
  PROVE  IInv'
<1>1. ASSUME NEW r \in Requests, NEW op \in Operations, Read(r, op)
      PROVE  IInv'
  BY <1>1, ReadInv
<1>2. ASSUME NEW r \in Requests, Flush(r) \/ ChangeCache(r) \/ Commit(r) \/ Answer(r)
      PROVE  IInv'
  BY <1>2, FlushInv, ChangeCacheInv, CommitInv, AnswerInv
<1>3. session \in Keys \cup {NoKey} /\ feed \in {"none", "handled", "addressed"}
  BY DEF IInv, TypeOK
<1>4. ASSUME NEW k \in 1 .. keys, Connect(k)
      PROVE  IInv'
  BY <1>3, <1>4, BesideInv DEF Connect, Keys
<1>5. CASE Disconnect
  BY <1>3, <1>5, BesideInv DEF Disconnect
<1>6. CASE Event
  BY <1>3, <1>6, BesideInv DEF Event
<1>7. CASE LookUp
  BY <1>3, <1>7, BesideInv DEF LookUp
<1>8. CASE Announce
  BY <1>3, <1>8, BesideInv DEF Announce
<1>9. CASE TimePasses
  BY <1>3, <1>9, BesideInv DEF TimePasses
<1>10. CASE UNCHANGED vars
  BY <1>3, <1>10, BesideInv DEF vars
<1> QED BY <1>1, <1>2, <1>4, <1>5, <1>6, <1>7, <1>8, <1>9, <1>10 DEF Next

LEMMA Invariance == Spec => []IInv
<1>1. Init => IInv
  BY InitInv
<1>2. IInv /\ [Next]_vars => IInv'
  BY NextInv
<1> QED BY <1>1, <1>2, PTL DEF Spec

-----------------------------------------------------------------------------
(* Theorems *)

\* The records of bots.py, the cache, the sockets and the limiter keep their types, and
\* only a request that has changed the row and is not over has its lock.
THEOREM TypeCorrect == Spec => []TypeOK
<1>1. IInv => TypeOK
  BY DEF IInv
<1> QED BY <1>1, Invariance, PTL

\* check_rate_limit counts from a user's first event after a window and not over a sliding
\* one: of any stretch as long as a window, wherever it begins, up to twice the limit gets
\* through, and never more, for any limit, any window and clients that repeat the command.
THEOREM TwiceTheLimitHolds == Spec => []TwiceTheLimit
<1>1. ASSUME IInv PROVE TwiceTheLimit
  <2>1. /\ recent \in [Ages -> Nat] /\ ttl \in 0 .. Window /\ Limit \in Nat /\ Window \in Nat \ {0}
        /\ Ages = 0 .. Window - 1 /\ Windows
    BY <1>1, LimiterAssumptions DEF IInv, TypeOK, LimiterTypeOK, LimiterAssumptions, Ages, Counted
  <2>2. recent[Window - 1] \in Nat /\ (ttl # 0 => recent[Window - ttl] \in Nat)
    BY <2>1
  <2> QED BY <2>1, <2>2 DEF Windows, TwiceTheLimit
<1>2. IInv => TwiceTheLimit
  BY <1>1
<1> QED BY <1>2, Invariance, PTL

\* An event of an active bot is dropped for want of an admin (admin_feed.py) only when
\* a delete of the bot came to its end or failed.
THEOREM HeardUnlessDeletedHolds == Spec => []HeardUnlessDeleted
<1>1. IInv => HeardUnlessDeleted
  BY DEF IInv
<1> QED BY <1>1, Invariance, PTL

\* After regenerate_bot_key has answered, gateway/main.py authenticates no socket with the key
\* the request found: the keys that later commits put into the row are all fresh.
THEOREM OldKeyRefusedHolds == Spec => OldKeyRefused
<1>1. ASSUME IInv, [Next]_vars, NEW r \in Requests,
             Answered(r, "regenerate"), session' # NoKey, session = NoKey
      PROVE  session' # request[r].read.key
  <2>1. session' # session
    BY <1>1
  <2>2. PICK k \in 1 .. keys : Connect(k)
    BY <1>1, <2>1 DEF Next, vars, Read, Flush, ChangeCache, Commit, Answer, others, Disconnect,
       Event, LookUp, Announce, TimePasses
  <2>3. session' = row.key
    BY <2>2 DEF Connect
  <2> QED BY <1>1, <2>3 DEF IInv, FreshKeys, Answered
<1>2. IInv /\ [Next]_vars =>
        [\A r \in Requests : Answered(r, "regenerate") /\ session' # NoKey /\ session = NoKey
           => session' # request[r].read.key]_vars
  BY <1>1
<1> QED BY <1>2, Invariance, PTL DEF Spec, OldKeyRefused

\* After delete_bot has answered, publish_admin_event finds no admin: no request that
\* was under way puts the bot back into the cache.
THEOREM DeletedIsSilentHolds == Spec => DeletedIsSilent
<1>1. ASSUME IInv, [Next]_vars, NEW r \in Requests, Answered(r, "delete"),
             feed = "handled", feed' = "addressed"
      PROVE  FALSE
  <2>1. feed' # feed /\ feed' # "none"
    BY <1>1
  <2>2. LookUp
    BY <1>1, <2>1 DEF Next, vars, Read, Flush, ChangeCache, Commit, Answer, others, Connect,
       Disconnect, Event, Announce, TimePasses
  <2>3. mapped
    BY <1>1, <2>2 DEF LookUp
  <2> QED BY <1>1, <2>3 DEF IInv, Mapping, Deleting, Answered
<1>2. IInv /\ [Next]_vars =>
        [(\E r \in Requests : Answered(r, "delete")) =>
           ~ (feed = "handled" /\ feed' = "addressed")]_vars
  BY <1>1
<1> QED BY <1>2, Invariance, PTL DEF Spec, DeletedIsSilent
=============================================================================
