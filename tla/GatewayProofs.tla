--------------------------- MODULE GatewayProofs ---------------------------
(***************************************************************************)
(* Theorems about Gateway for any number of gateways, of sockets of the    *)
(* conversation, of overlapping pushes and of failing Redis calls.         *)
(***************************************************************************)
EXTENDS Gateway, TLAPS

\* An endpoint serves its socket at a gateway, a push is posted to one.
Placed ==
  /\ \A s \in Sockets : endpoint[s] \notin {"new", "ended"} => place[s] \in Gateways
  /\ \A p \in Pushes : push[p] # "idle" => place[p] \in Gateways

\* A push that calls disconnect() is at the head of the queue for the lock it holds,
\* one that waits is somewhere in it: the lock given back is always a lock held.
Queued ==
  /\ \A p \in Pushes : push[p] \in {"locking", "failing"} =>
       /\ target[p] \in Sockets
       /\ \E i \in 1 .. Len(sendLock[target[p]]) : sendLock[target[p]][i] = p
  /\ \A p \in Pushes : push[p] = "failing" => Head(sendLock[target[p]]) = p
  /\ \A p \in Pushes : call[p].step # "none" => push[p] = "failing"

IInv == TypeOK /\ Placed /\ Queued /\ RegistrationIsOwned

\* s is an endpoint that registered at g and is still to delete the registration.
Owns(s, g) ==
  /\ place[s] = g
  /\ \/ endpoint[s] \in {"receiving", "processing", "disconnected"}
     \/ endpoint[s] = "finally" /\ call[s].step = "unregister"

-----------------------------------------------------------------------------
(* Callers and disconnect() *)

LEMMA CallerFacts ==
  /\ \A s \in Sockets : s \in Callers /\ s \notin Gateways /\ s \notin Pushes /\ At(s) = place[s]
  /\ \A p \in Pushes : p \in Callers /\ p \notin Gateways /\ p \notin Sockets /\ At(p) = place[p]
  /\ \A g \in Gateways : g \in Callers /\ g \notin Sockets /\ g \notin Pushes /\ At(g) = g
  /\ NoSocket \notin Sockets /\ NoGateway \notin Gateways /\ MaxFailures \in Nat
BY Assumptions DEF Callers, At

\* The registration stays owned by who owns it if that endpoint is left alone.
LEMMA StillOwned ==
  ASSUME RegistrationIsOwned, failures' \in Nat, failures \in Nat,
         registry' = NoGateway \/ registry' = registry,
         failures' = 0 => failures = 0,
         registry # NoGateway /\ failures' = 0 =>
           \A s \in Sockets : Owns(s, registry) => Owns(s, registry)'
  PROVE  RegistrationIsOwned'
BY DEF RegistrationIsOwned, Owns

\* disconnect() up to its first await, called by p
LEMMA EnterFacts ==
  ASSUME TypeOK, NEW p \in Callers, At(p) \in Gateways, EnterDisconnect(p)
  PROVE  /\ connections' \in [Gateways -> Sockets \cup {NoSocket}]
         /\ lastSeen' \in [Gateways -> {"absent", "recent", "stale"}]
         /\ \A g \in Gateways : connections'[g] # NoSocket => lastSeen'[g] # "absent"
         /\ call' \in [Callers -> [step : {"none", "unregister", "offline", "close"},
                                   socket : Sockets \cup {NoSocket}]]
         /\ call'[p].step = "unregister"
         /\ \A q \in Callers \ {p} : call'[q] = call[q]
<1>1. connections[At(p)] \in Sockets \cup {NoSocket}
  BY DEF TypeOK
<1>2. /\ connections' = [connections EXCEPT ![At(p)] = NoSocket]
      /\ lastSeen' = [lastSeen EXCEPT ![At(p)] = "absent"]
      /\ call' = [call EXCEPT ![p] = [step |-> "unregister", socket |-> connections[At(p)]]]
  BY DEF EnterDisconnect
<1>3. /\ connections' \in [Gateways -> Sockets \cup {NoSocket}]
      /\ lastSeen' \in [Gateways -> {"absent", "recent", "stale"}]
      /\ \A g \in Gateways : connections'[g] # NoSocket => lastSeen'[g] # "absent"
  BY <1>2 DEF TypeOK
<1>4. /\ call' \in [Callers -> [step : {"none", "unregister", "offline", "close"},
                                socket : Sockets \cup {NoSocket}]]
      /\ call'[p].step = "unregister"
      /\ \A q \in Callers \ {p} : call'[q] = call[q]
  BY <1>1, <1>2 DEF TypeOK
<1> QED BY <1>3, <1>4

\* disconnect() returning to p
LEMMA LeaveFacts ==
  ASSUME TypeOK, NEW p \in Callers, Leave(p)
  PROVE  /\ call' \in [Callers -> [step : {"none", "unregister", "offline", "close"},
                                   socket : Sockets \cup {NoSocket}]]
         /\ call'[p].step = "none"
         /\ \A q \in Callers \ {p} : call'[q] = call[q]
         /\ connections' = connections /\ lastSeen' = lastSeen
BY DEF TypeOK, Leave, NoCall

\* A push at the head of the queue for its lock gives the lock back and ends.
LEMMA PushEndsFacts ==
  ASSUME IInv, NEW p \in Pushes, push[p] \in {"locking", "failing"},
         Head(sendLock[target[p]]) = p, PushEnds(p)
  PROVE  /\ push' \in [Pushes -> {"idle", "posting", "locking", "failing"}]
         /\ target' \in [Pushes -> Sockets \cup {NoSocket}]
         /\ place' \in [Sockets \cup Pushes -> Gateways \cup {NoGateway}]
         /\ sendLock' \in [Sockets -> Seq(Pushes)]
         /\ push'[p] = "idle"
         /\ \A q \in Pushes \ {p} : push'[q] = push[q] /\ place'[q] = place[q]
         /\ \A s \in Sockets : place'[s] = place[s]
         /\ \A q \in Pushes \ {p} : push[q] \in {"locking", "failing"} =>
              /\ target'[q] \in Sockets
              /\ \E i \in 1 .. Len(sendLock'[target'[q]]) : sendLock'[target'[q]][i] = q
         /\ \A q \in Pushes \ {p} : push[q] = "failing" => Head(sendLock'[target'[q]]) = q
<1> DEFINE s == target[p]
<1>1. /\ push' = [push EXCEPT ![p] = "idle"] /\ target' = [target EXCEPT ![p] = NoSocket]
      /\ place' = [place EXCEPT ![p] = NoGateway]
      /\ sendLock' = [sendLock EXCEPT ![s] = Tail(sendLock[s])]
  BY DEF PushEnds
<1>2. /\ s \in Sockets /\ sendLock[s] \in Seq(Pushes)
      /\ \E i \in 1 .. Len(sendLock[s]) : sendLock[s][i] = p
  BY DEF IInv, TypeOK, Queued
<1>3. /\ Len(sendLock[s]) \in Nat \ {0} /\ Tail(sendLock[s]) \in Seq(Pushes)
      /\ Len(Tail(sendLock[s])) = Len(sendLock[s]) - 1
      /\ \A i \in 1 .. Len(Tail(sendLock[s])) : Tail(sendLock[s])[i] = sendLock[s][i + 1]
      /\ Head(sendLock[s]) = sendLock[s][1]
  <2>1. sendLock[s] # <<>>
    BY <1>2
  <2> QED BY <1>2, <2>1
<1>4. /\ push' \in [Pushes -> {"idle", "posting", "locking", "failing"}]
      /\ target' \in [Pushes -> Sockets \cup {NoSocket}]
      /\ push'[p] = "idle"
      /\ \A q \in Pushes \ {p} : push'[q] = push[q] /\ target'[q] = target[q]
  BY <1>1 DEF IInv, TypeOK
<1>5. /\ place' \in [Sockets \cup Pushes -> Gateways \cup {NoGateway}]
      /\ \A q \in Pushes \ {p} : place'[q] = place[q]
      /\ \A t \in Sockets : place'[t] = place[t]
  BY <1>1, CallerFacts DEF IInv, TypeOK
<1>6. /\ sendLock' \in [Sockets -> Seq(Pushes)] /\ sendLock'[s] = Tail(sendLock[s])
      /\ \A t \in Sockets \ {s} : sendLock'[t] = sendLock[t]
  BY <1>1, <1>2, <1>3 DEF IInv, TypeOK
<1>7. ASSUME NEW q \in Pushes \ {p}, push[q] \in {"locking", "failing"}
      PROVE  \E i \in 1 .. Len(sendLock'[target[q]]) : sendLock'[target[q]][i] = q
  <2>1. target[q] \in Sockets /\ \E i \in 1 .. Len(sendLock[target[q]]) : sendLock[target[q]][i] = q
    BY <1>7 DEF IInv, Queued
  <2>2. CASE target[q] = s
    <3>1. PICK i \in 1 .. Len(sendLock[s]) : sendLock[s][i] = q
      BY <2>1, <2>2
    <3>2. i # 1
      BY <1>3, <3>1
    <3>3. /\ i - 1 \in 1 .. Len(Tail(sendLock[s])) /\ (i - 1) + 1 = i
      BY <1>3, <3>2
    <3>4. Tail(sendLock[s])[i - 1] = q
      BY <1>3, <3>1, <3>3
    <3> QED BY <1>6, <2>2, <3>3, <3>4
  <2>3. CASE target[q] # s
    BY <1>6, <2>1, <2>3
  <2> QED BY <2>2, <2>3
<1>8. ASSUME NEW q \in Pushes \ {p}, push[q] = "failing"
      PROVE  Head(sendLock'[target[q]]) = q
  <2>1. target[q] \in Sockets /\ Head(sendLock[target[q]]) = q
    BY <1>8 DEF IInv, Queued
  <2>2. target[q] # s
    BY <2>1
  <2> QED BY <1>6, <2>1, <2>2
<1>9. \A q \in Pushes \ {p} : push[q] \in {"locking", "failing"} => target[q] \in Sockets
  BY DEF IInv, Queued
<1>10. ASSUME NEW q \in Pushes \ {p}
       PROVE  /\ push[q] \in {"locking", "failing"} =>
                   /\ target'[q] \in Sockets
                   /\ \E i \in 1 .. Len(sendLock'[target'[q]]) : sendLock'[target'[q]][i] = q
              /\ push[q] = "failing" => Head(sendLock'[target'[q]]) = q
  <2>1. target'[q] = target[q]
    BY <1>4
  <2> QED BY <1>7, <1>8, <1>9, <2>1
<1> QED BY <1>4, <1>5, <1>6, <1>10

-----------------------------------------------------------------------------
(* The inductive invariant *)

LEMMA InitInv == Init => IInv
<1> SUFFICES ASSUME Init
             PROVE  IInv
  OBVIOUS
<1>1. TypeOK
  <2>1. sendLock \in [Sockets -> Seq(Pushes)]
    BY DEF Init
  <2>2. call \in [Callers -> [step : {"none", "unregister", "offline", "close"},
                             socket : Sockets \cup {NoSocket}]]
    BY DEF Init, NoCall
  <2> QED BY <2>1, <2>2, CallerFacts DEF Init, TypeOK
<1>2. Placed /\ RegistrationIsOwned
  BY DEF Init, Placed, RegistrationIsOwned
<1>3. Queued
  BY CallerFacts DEF Init, Queued, NoCall
<1> QED BY <1>1, <1>2, <1>3 DEF IInv

\* A caller's disconnect() returns, having come past its first call if no call failed.
LEMMA ReturnInv ==
  ASSUME IInv, NEW p \in Callers, NEW raised \in BOOLEAN, call[p].step # "none",
         Return(p, raised), registry' = registry,
         wire' \in [Sockets -> {"new", "open", "closed"}], failures' \in 0 .. MaxFailures,
         failures' = 0 => failures = 0 /\ call[p].step # "unregister"
  PROVE  IInv'
<1> USE DEF IInv
<1>1. CASE p \in Sockets /\ EndpointGoesOn(p)
  <2>1. /\ p \in Sockets /\ UNCHANGED <<cleanup, pinged, push, target, sendLock>>
        /\ endpoint[p] \in {"disconnected", "finally"}
    BY <1>1 DEF EndpointGoesOn, cleanupVars, pushVars
  <2>2. CASE /\ endpoint[p] = "disconnected" /\ EnterDisconnect(p)
             /\ endpoint' = [endpoint EXCEPT ![p] = "finally"]
             /\ UNCHANGED <<place, superseded>>
    <3>1. At(p) \in Gateways
      BY <2>1, <2>2, CallerFacts DEF Placed
    <3>2. TypeOK'
      BY <2>1, <2>2, <3>1, EnterFacts, CallerFacts DEF TypeOK
    <3>3. Placed'
      BY <2>1, <2>2 DEF Placed, TypeOK
    <3>4. Queued'
      <4>1. \A q \in Pushes : call'[q] = call[q]
        BY <2>1, <2>2, <3>1, EnterFacts, CallerFacts
      <4> QED BY <2>1, <4>1 DEF Queued
    <3>5. RegistrationIsOwned'
      <4>1. call'[p].step = "unregister" /\ \A s \in Sockets \ {p} : call'[s] = call[s]
        BY <2>2, <3>1, EnterFacts, CallerFacts
      <4>2. \A s \in Sockets : Owns(s, registry) => Owns(s, registry)'
        BY <2>1, <2>2, <4>1 DEF Owns, TypeOK
      <4> QED BY <4>2, StillOwned, CallerFacts DEF TypeOK
    <3> QED BY <3>2, <3>3, <3>4, <3>5
  <2>3. CASE endpoint[p] = "finally" /\ EndpointEnds(p) /\ Leave(p)
    <3>1. /\ endpoint' = [endpoint EXCEPT ![p] = "ended"]
          /\ place' = [place EXCEPT ![p] = NoGateway]
          /\ superseded' = [superseded EXCEPT ![p] = NoSocket]
      BY <2>3 DEF EndpointEnds
    <3>2. TypeOK'
      BY <2>1, <2>3, <3>1, LeaveFacts, CallerFacts DEF TypeOK
    <3>3. Placed'
      BY <2>1, <3>1, CallerFacts DEF Placed, TypeOK
    <3>4. Queued'
      <4>1. \A q \in Pushes : call'[q] = call[q]
        BY <2>1, <2>3, LeaveFacts, CallerFacts
      <4> QED BY <2>1, <4>1 DEF Queued
    <3>5. RegistrationIsOwned'
      <4>1. \A s \in Sockets \ {p} : call'[s] = call[s]
        BY <2>3, LeaveFacts, CallerFacts
      <4>2. failures' = 0 => \A g \in Gateways : ~Owns(p, g)
        BY <2>3 DEF Owns
      <4>3. failures' = 0 /\ registry # NoGateway =>
              \A s \in Sockets : Owns(s, registry) => Owns(s, registry)'
        BY <2>1, <3>1, <4>1, <4>2 DEF Owns, TypeOK
      <4> QED BY <4>3, StillOwned, CallerFacts DEF TypeOK
    <3> QED BY <3>2, <3>3, <3>4, <3>5
  <2> QED BY <1>1, <2>2, <2>3 DEF EndpointGoesOn
<1>2. CASE p \in Gateways /\ CleanupGoesOn(p, raised)
  <2>1. /\ UNCHANGED <<pinged, endpoint, superseded, push, target, sendLock, place>>
        /\ Leave(p) /\ p \in Gateways
        /\ cleanup' = [cleanup EXCEPT ![p] =
                          IF raised THEN "dead" ELSE IF @ = "dropping" THEN "check" ELSE "ping"]
    BY <1>2 DEF CleanupGoesOn, endpointVars, pushVars
  <2>2. TypeOK'
    BY <2>1, LeaveFacts DEF TypeOK
  <2>3. /\ \A q \in Pushes : call'[q] = call[q]
        /\ \A s \in Sockets : call'[s] = call[s]
    BY <2>1, LeaveFacts, CallerFacts
  <2>4. Placed' /\ Queued'
    BY <2>1, <2>3 DEF Placed, Queued
  <2>5. RegistrationIsOwned'
    <3>1. \A s \in Sockets : Owns(s, registry) => Owns(s, registry)'
      BY <2>1, <2>3 DEF Owns
    <3> QED BY <3>1, StillOwned, CallerFacts DEF TypeOK
  <2> QED BY <2>2, <2>4, <2>5
<1>3. CASE p \in Pushes /\ PushEnds(p) /\ Leave(p) /\ UNCHANGED <<endpointVars, cleanupVars>>
  <2>1. /\ UNCHANGED <<endpoint, superseded, cleanup, pinged>> /\ p \in Pushes
        /\ push[p] = "failing" /\ Head(sendLock[target[p]]) = p
    BY <1>3 DEF Queued, endpointVars, cleanupVars
  <2>2. TypeOK'
    <3>1. /\ push' \in [Pushes -> {"idle", "posting", "locking", "failing"}]
          /\ target' \in [Pushes -> Sockets \cup {NoSocket}]
          /\ place' \in [Sockets \cup Pushes -> Gateways \cup {NoGateway}]
          /\ sendLock' \in [Sockets -> Seq(Pushes)]
      BY <1>3, <2>1, PushEndsFacts
    <3>2. /\ call' \in [Callers -> [step : {"none", "unregister", "offline", "close"},
                                    socket : Sockets \cup {NoSocket}]]
          /\ connections' = connections /\ lastSeen' = lastSeen
      BY <1>3, LeaveFacts
    <3> QED BY <2>1, <3>1, <3>2 DEF TypeOK
  <2>3. /\ \A q \in Pushes \ {p} : call'[q] = call[q]
        /\ \A s \in Sockets : call'[s] = call[s]
        /\ call'[p].step = "none"
    BY <1>3, LeaveFacts, CallerFacts
  <2>4. Placed'
    BY <1>3, <2>1, PushEndsFacts DEF Placed
  <2>5. Queued'
    <3>1. ASSUME NEW q \in Pushes
          PROVE  /\ push'[q] \in {"locking", "failing"} =>
                      /\ target'[q] \in Sockets
                      /\ \E i \in 1 .. Len(sendLock'[target'[q]]) : sendLock'[target'[q]][i] = q
                 /\ push'[q] = "failing" => Head(sendLock'[target'[q]]) = q
                 /\ call'[q].step # "none" => push'[q] = "failing"
      <4>1. CASE q = p
        BY <1>3, <2>1, <2>3, <4>1, PushEndsFacts
      <4>2. CASE q # p
        <5>1. push'[q] = push[q] /\ call'[q] = call[q]
          BY <1>3, <2>1, <2>3, <4>2, PushEndsFacts
        <5>2. call[q].step # "none" => push[q] = "failing"
          BY DEF Queued
        <5> QED BY <1>3, <2>1, <4>2, <5>1, <5>2, PushEndsFacts
      <4> QED BY <4>1, <4>2
    <3> QED BY <3>1 DEF Queued
  <2>6. RegistrationIsOwned'
    <3>1. \A s \in Sockets : Owns(s, registry) => Owns(s, registry)'
      BY <1>3, <2>1, <2>3, PushEndsFacts DEF Owns
    <3> QED BY <3>1, StillOwned, CallerFacts DEF TypeOK
  <2> QED BY <2>2, <2>4, <2>5, <2>6
<1> QED BY <1>1, <1>2, <1>3 DEF Return

\* The steps of disconnect() itself, whoever called it
LEMMA DisconnectInv ==
  ASSUME IInv, NEW p \in Callers, DisconnectSteps(p)
  PROVE  IInv'
<1>1. failures \in 0 .. MaxFailures /\ wire \in [Sockets -> {"new", "open", "closed"}]
  BY DEF IInv, TypeOK
<1>2. ASSUME NextStep(p, "offline") \/ NextStep(p, "close"),
             call[p].step # "none", UNCHANGED <<wire, failures>>,
             \/ registry' = NoGateway
             \/ registry' = registry /\ call[p].step # "unregister"
      PROVE  IInv'
  <2>1. PICK step \in {"offline", "close"} : NextStep(p, step)
    BY <1>2
  <2>2. /\ call' = [call EXCEPT ![p].step = step]
        /\ UNCHANGED <<connections, lastSeen, endpoint, superseded, cleanup, pinged, push,
                       target, sendLock, place>>
    BY <2>1 DEF NextStep, endpointVars, cleanupVars, pushVars
  <2>3. TypeOK'
    <3> DEFINE Call == [step : {"none", "unregister", "offline", "close"},
                        socket : Sockets \cup {NoSocket}]
    <3>1. call \in [Callers -> Call]
      BY DEF IInv, TypeOK
    <3>2. [call[p] EXCEPT !.step = step] \in Call
      BY <2>1, <3>1
    <3>3. call' \in [Callers -> Call]
      BY <2>2, <3>1, <3>2
    <3>4. registry' \in Gateways \cup {NoGateway}
      BY <1>2 DEF IInv, TypeOK
    <3> QED BY <1>2, <2>2, <3>3, <3>4 DEF IInv, TypeOK
  <2>4. Placed'
    BY <2>2 DEF IInv, Placed
  <2>5. Queued'
    <3>1. ASSUME NEW q \in Pushes, call'[q].step # "none"
          PROVE  push[q] = "failing"
      <4>1. call[q].step # "none"
        BY <1>2, <2>2, <3>1, CallerFacts DEF IInv, TypeOK
      <4> QED BY <4>1 DEF IInv, Queued
    <3> QED BY <2>2, <3>1 DEF IInv, Queued
  <2>6. RegistrationIsOwned'
    <3>1. CASE registry' = NoGateway
      BY <3>1 DEF RegistrationIsOwned
    <3>2. CASE registry' = registry /\ call[p].step # "unregister"
      <4>1. \A s \in Sockets : s # p => call'[s] = call[s]
        BY <2>2, CallerFacts DEF IInv, TypeOK
      <4>2. \A s \in Sockets : Owns(s, registry) => Owns(s, registry)'
        BY <2>2, <3>2, <4>1 DEF Owns
      <4> QED BY <1>2, <3>2, <4>2, StillOwned, CallerFacts DEF IInv, TypeOK
    <3> QED BY <1>2, <3>1, <3>2
  <2> QED BY <2>3, <2>4, <2>5, <2>6 DEF IInv
<1>3. CASE Unregister(p)
  BY <1>2, <1>3 DEF Unregister
<1>4. CASE ChatOffline(p)
  <2>1. call[p].step = "offline" /\ UNCHANGED <<registry, wire, failures>>
    BY <1>4 DEF ChatOffline
  <2>2. CASE Return(p, FALSE)
    BY <1>1, <2>1, <2>2, ReturnInv
  <2>3. CASE NextStep(p, "close")
    BY <1>2, <2>1, <2>3
  <2> QED BY <1>4, <2>2, <2>3 DEF ChatOffline
<1>5. CASE CloseSocket(p)
  <2>1. /\ call[p].step = "close" /\ Return(p, FALSE) /\ UNCHANGED <<registry, failures>>
        /\ wire' = [wire EXCEPT ![call[p].socket] = "closed"]
    BY <1>5 DEF CloseSocket
  <2>2. wire' \in [Sockets -> {"new", "open", "closed"}]
    BY <1>1, <2>1
  <2> QED BY <1>1, <2>1, <2>2, ReturnInv
<1>6. CASE DisconnectFails(p)
  <2>1. /\ call[p].step # "none" /\ Return(p, TRUE) /\ UNCHANGED <<registry, wire>>
        /\ failures < MaxFailures /\ failures' = failures + 1
    BY <1>6 DEF DisconnectFails, Failure
  <2>2. failures' \in 0 .. MaxFailures /\ failures' # 0
    BY <1>1, <2>1, CallerFacts
  <2> QED BY <1>1, <2>1, <2>2, ReturnInv
<1> QED BY <1>3, <1>4, <1>5, <1>6 DEF DisconnectSteps

-----------------------------------------------------------------------------
(* Steps of endpoints, of the cleanup loop and of pushes *)

\* A step that calls disconnect() at a gateway: only the caller's own state may change
\* besides the entries of that gateway.
LEMMA CallerInv ==
  ASSUME IInv, NEW p \in Callers, At(p) \in Gateways, EnterDisconnect(p),
         UNCHANGED <<registry, wire, superseded, pinged, target, sendLock, place>>,
         failures' \in 0 .. MaxFailures, failures' = 0 => failures = 0,
         \/ /\ p \in Sockets /\ UNCHANGED <<cleanup, push>>
            /\ endpoint[p] \notin {"new", "ended"}
            /\ \E e \in {"disconnected", "finally"} : endpoint' = [endpoint EXCEPT ![p] = e]
         \/ /\ p \in Gateways /\ UNCHANGED <<endpoint, push>>
            /\ \E e \in {"dropping", "evicting"} : cleanup' = [cleanup EXCEPT ![p] = e]
         \/ /\ p \in Pushes /\ UNCHANGED <<endpoint, cleanup>>
            /\ push' = [push EXCEPT ![p] = "failing"] /\ HasLock(p)
  PROVE  IInv'
<1> USE DEF IInv
<1>1. /\ call'[p].step = "unregister"
      /\ \A q \in Callers \ {p} : call'[q] = call[q]
  BY EnterFacts
<1>2. /\ connections' \in [Gateways -> Sockets \cup {NoSocket}]
      /\ lastSeen' \in [Gateways -> {"absent", "recent", "stale"}]
      /\ \A g \in Gateways : connections'[g] # NoSocket => lastSeen'[g] # "absent"
      /\ call' \in [Callers -> [step : {"none", "unregister", "offline", "close"},
                                socket : Sockets \cup {NoSocket}]]
  BY EnterFacts
<1>3. /\ endpoint' \in [Sockets -> {"new", "superseding", "accepting", "registering",
                                    "receiving", "processing", "disconnected", "finally",
                                    "ended"}]
      /\ cleanup' \in [Gateways -> {"ping", "pinging", "failed", "dropping", "check",
                                    "listed", "evicting", "dead"}]
      /\ push' \in [Pushes -> {"idle", "posting", "locking", "failing"}]
  <2>1. ASSUME UNCHANGED <<cleanup, push>>, NEW e \in {"disconnected", "finally"},
               endpoint' = [endpoint EXCEPT ![p] = e]
        PROVE  /\ endpoint' \in [Sockets -> {"new", "superseding", "accepting", "registering",
                                             "receiving", "processing", "disconnected",
                                             "finally", "ended"}]
               /\ cleanup' = cleanup /\ push' = push
    BY <2>1 DEF TypeOK
  <2>2. ASSUME UNCHANGED <<endpoint, push>>, NEW e \in {"dropping", "evicting"},
               cleanup' = [cleanup EXCEPT ![p] = e]
        PROVE  /\ cleanup' \in [Gateways -> {"ping", "pinging", "failed", "dropping", "check",
                                             "listed", "evicting", "dead"}]
               /\ endpoint' = endpoint /\ push' = push
    BY <2>2 DEF TypeOK
  <2>3. CASE UNCHANGED <<endpoint, cleanup>> /\ push' = [push EXCEPT ![p] = "failing"]
    BY <2>3 DEF TypeOK
  <2> QED BY <2>1, <2>2, <2>3 DEF TypeOK
<1>4. TypeOK'
  BY <1>2, <1>3 DEF TypeOK
<1>5. Placed'
  <2>1. CASE p \in Sockets
    <3>1. /\ UNCHANGED push /\ endpoint[p] \notin {"new", "ended"}
          /\ \A s \in Sockets : s # p => endpoint'[s] = endpoint[s]
      BY <2>1, CallerFacts DEF TypeOK
    <3> QED BY <3>1 DEF Placed
  <2>2. CASE UNCHANGED endpoint /\ UNCHANGED push
    BY <2>2 DEF Placed
  <2>3. CASE p \in Pushes /\ UNCHANGED endpoint /\ push' = [push EXCEPT ![p] = "failing"]
    BY <2>3, CallerFacts DEF Placed, TypeOK
  <2> QED BY <2>1, <2>2, <2>3
<1>6. Queued'
  <2>1. CASE p \notin Pushes /\ UNCHANGED push
    BY <1>1, <2>1, CallerFacts DEF Queued
  <2>2. CASE p \in Pushes /\ push' = [push EXCEPT ![p] = "failing"] /\ HasLock(p)
    BY <1>1, <2>2, CallerFacts DEF Queued, HasLock, TypeOK
  <2> QED BY <2>1, <2>2, CallerFacts
<1>7. RegistrationIsOwned'
  <2>1. ASSUME NEW s \in Sockets, Owns(s, registry)
        PROVE  Owns(s, registry)'
    <3>1. CASE s = p
      BY <1>1, <2>1, <3>1, CallerFacts DEF Owns, TypeOK
    <3>2. CASE s # p
      BY <1>1, <2>1, <3>2, CallerFacts DEF Owns, TypeOK
    <3> QED BY <3>1, <3>2
  <2> QED BY <2>1, StillOwned, CallerFacts DEF TypeOK
<1> QED BY <1>4, <1>5, <1>6, <1>7

\* A step of an endpoint that calls nothing: it enters state e, is placed at a gateway
\* unless it ends, and leaves calls and pushes alone.
LEMMA EndpointInv ==
  ASSUME IInv, TypeOK', NEW s \in Sockets,
         NEW e, endpoint' = [endpoint EXCEPT ![s] = e],
         \A t \in (Sockets \cup Pushes) \ {s} : place'[t] = place[t],
         e \notin {"new", "ended"} => place'[s] \in Gateways,
         UNCHANGED <<pushVars, call>>, failures' = 0 => failures = 0,
         \/ /\ registry' = registry
            /\ \/ endpoint[s] \notin {"receiving", "processing", "disconnected", "finally"}
               \/ e \in {"receiving", "processing"} /\ place' = place
         \/ registry' = place'[s] /\ e = "receiving"
         \/ failures' # 0
  PROVE  IInv'
<1>1. /\ endpoint'[s] = e /\ \A t \in Sockets \ {s} : endpoint'[t] = endpoint[t]
      /\ UNCHANGED <<push, target, sendLock, call>>
  BY DEF IInv, TypeOK, pushVars
<1>2. Placed'
  <2>1. \A p \in Pushes : place'[p] = place[p]
    BY CallerFacts
  <2> QED BY <1>1, <2>1 DEF IInv, Placed
<1>3. Queued'
  BY <1>1 DEF IInv, Queued
<1>4. RegistrationIsOwned'
  <2>1. CASE registry' = registry /\ failures' = 0
    <3>1. ASSUME NEW t \in Sockets, Owns(t, registry)
          PROVE  Owns(t, registry)'
      <4>1. CASE t = s
        BY <1>1, <2>1, <3>1, <4>1 DEF Owns
      <4>2. CASE t # s
        BY <1>1, <2>1, <3>1, <4>2 DEF Owns
      <4> QED BY <4>1, <4>2
    <3> QED BY <2>1, <3>1 DEF IInv, RegistrationIsOwned, Owns
  <2>2. CASE registry' = place'[s] /\ e = "receiving"
    BY <1>1, <2>2 DEF RegistrationIsOwned
  <2>3. CASE failures' # 0
    BY <2>3 DEF RegistrationIsOwned
  <2> QED BY <2>1, <2>2, <2>3
<1> QED BY <1>2, <1>3, <1>4 DEF IInv

\* A step that touches no endpoint, no push, no call and no lock, and the registration
\* only to delete it
LEMMA ApartInv ==
  ASSUME IInv, TypeOK', UNCHANGED <<endpoint, place, call, pushVars, failures>>,
         registry' \in {registry, NoGateway}
  PROVE  IInv'
<1>1. Placed' /\ Queued'
  BY DEF IInv, Placed, Queued, pushVars
<1>2. RegistrationIsOwned'
  BY DEF IInv, RegistrationIsOwned
<1> QED BY <1>1, <1>2 DEF IInv

LEMMA ConnectInv ==
  ASSUME IInv, NEW s \in Sockets, NEW g \in Gateways, Connect(s, g)
  PROVE  IInv'
<1>1. /\ endpoint[s] = "new" /\ place' = [place EXCEPT ![s] = g]
      /\ superseded' = [superseded EXCEPT ![s] = connections[g]]
      /\ UNCHANGED <<registry, wire, cleanup, pinged, pushVars, call, failures>>
  BY DEF Connect, cleanupVars
<1>2. PICK e \in {"accepting", "superseding"} : endpoint' = [endpoint EXCEPT ![s] = e]
  BY DEF Connect
<1>3. TypeOK'
  <2>1. /\ connections \in [Gateways -> Sockets \cup {NoSocket}]
        /\ lastSeen \in [Gateways -> {"absent", "recent", "stale"}]
        /\ \A h \in Gateways : connections[h] # NoSocket => lastSeen[h] # "absent"
    BY DEF IInv, TypeOK
  <2>2. \/ UNCHANGED <<connections, lastSeen>>
        \/ /\ connections' = [connections EXCEPT ![g] = NoSocket]
           /\ lastSeen' = [lastSeen EXCEPT ![g] = "absent"]
    BY DEF Connect
  <2>3. /\ connections' \in [Gateways -> Sockets \cup {NoSocket}]
        /\ lastSeen' \in [Gateways -> {"absent", "recent", "stale"}]
        /\ \A h \in Gateways : connections'[h] # NoSocket => lastSeen'[h] # "absent"
    BY <2>1, <2>2
  <2> QED BY <1>1, <1>2, <2>3 DEF IInv, TypeOK, pushVars
<1>4. /\ \A t \in (Sockets \cup Pushes) \ {s} : place'[t] = place[t]
      /\ place'[s] \in Gateways
  BY <1>1 DEF IInv, TypeOK
<1> QED BY <1>1, <1>2, <1>3, <1>4, EndpointInv

LEMMA ForceCloseInv ==
  ASSUME IInv, NEW s \in Sockets, ForceClose(s)
  PROVE  IInv'
<1>1. TypeOK'
  BY DEF ForceClose, IInv, TypeOK, cleanupVars, pushVars
<1>2. place[s] \in Gateways
  BY DEF ForceClose, IInv, Placed
<1> QED BY <1>1, <1>2, EndpointInv DEF ForceClose

LEMMA AcceptInv ==
  ASSUME IInv, NEW s \in Sockets, Accept(s) \/ AcceptFails(s)
  PROVE  IInv'
<1>1. CASE Accept(s)
  <2>1. place[s] \in Gateways
    BY <1>1 DEF Accept, IInv, Placed
  <2>2. TypeOK'
    BY <1>1, CallerFacts DEF Accept, IInv, TypeOK, cleanupVars, pushVars
  <2> QED BY <1>1, <2>1, <2>2, EndpointInv DEF Accept
<1>2. CASE AcceptFails(s)
  <2>1. TypeOK'
    BY <1>2 DEF AcceptFails, EndpointEnds, IInv, TypeOK, cleanupVars, pushVars
  <2>2. \A t \in (Sockets \cup Pushes) \ {s} : place'[t] = place[t]
    BY <1>2 DEF AcceptFails, EndpointEnds, IInv, TypeOK
  <2> QED BY <1>2, <2>1, <2>2, EndpointInv DEF AcceptFails, EndpointEnds
<1> QED BY <1>1, <1>2

LEMMA RegisterInv ==
  ASSUME IInv, NEW s \in Sockets, Register(s) \/ RegisterFails(s)
  PROVE  IInv'
<1>1. CASE Register(s)
  <2>1. place[s] \in Gateways
    BY <1>1 DEF Register, IInv, Placed
  <2>2. TypeOK'
    BY <1>1, <2>1 DEF Register, IInv, TypeOK, cleanupVars, pushVars
  <2> QED BY <1>1, <2>1, <2>2, EndpointInv DEF Register
<1>2. CASE RegisterFails(s)
  <2>1. failures' \in 0 .. MaxFailures /\ failures' # 0
    BY <1>2, CallerFacts DEF RegisterFails, Failure, IInv, TypeOK
  <2>2. TypeOK'
    BY <1>2, <2>1 DEF RegisterFails, EndpointEnds, IInv, TypeOK, cleanupVars, pushVars
  <2>3. \A t \in (Sockets \cup Pushes) \ {s} : place'[t] = place[t]
    BY <1>2 DEF RegisterFails, EndpointEnds, IInv, TypeOK
  <2> QED BY <1>2, <2>1, <2>2, <2>3, EndpointInv DEF RegisterFails, EndpointEnds
<1> QED BY <1>1, <1>2

LEMMA ReceiveInv ==
  ASSUME IInv, NEW s \in Sockets, Receive(s) \/ Processed(s)
  PROVE  IInv'
<1>1. CASE Receive(s)
  <2>1. place[s] \in Gateways
    BY <1>1 DEF Receive, IInv, Placed
  <2>2. TypeOK'
    BY <1>1 DEF Receive, IInv, TypeOK, cleanupVars, pushVars
  <2> QED BY <1>1, <2>1, <2>2, EndpointInv DEF Receive
<1>2. CASE Processed(s)
  <2>1. place[s] \in Gateways
    BY <1>2 DEF Processed, IInv, Placed
  <2>2. TypeOK'
    BY <1>2 DEF Processed, IInv, TypeOK, cleanupVars, pushVars
  <2> QED BY <1>2, <2>1, <2>2, EndpointInv DEF Processed
<1> QED BY <1>1, <1>2

LEMMA EndpointCallsInv ==
  ASSUME IInv, NEW s \in Sockets,
         ProcessingFails(s) \/ ReceiveFails(s) \/ ReceiveDisconnect(s)
  PROVE  IInv'
<1>1. /\ EnterDisconnect(s) /\ endpoint[s] \in {"processing", "receiving"}
      /\ UNCHANGED <<registry, wire, superseded, cleanup, pinged, push, target, sendLock,
                     place>>
      /\ \E e \in {"disconnected", "finally"} : endpoint' = [endpoint EXCEPT ![s] = e]
  BY DEF ProcessingFails, ReceiveFails, ReceiveDisconnect, cleanupVars, pushVars
<1>2. s \in Callers /\ At(s) \in Gateways
  BY <1>1, CallerFacts DEF IInv, Placed
<1>3. failures' \in 0 .. MaxFailures /\ (failures' = 0 => failures = 0)
  <2>1. failures' = failures \/ (failures < MaxFailures /\ failures' = failures + 1)
    <3>1. ProcessingFails(s) => failures' = failures \/ Failure
      BY DEF ProcessingFails
    <3>2. ReceiveFails(s) \/ ReceiveDisconnect(s) => failures' = failures
      BY DEF ReceiveFails, ReceiveDisconnect
    <3> QED BY <3>1, <3>2 DEF Failure
  <2> QED BY <2>1, CallerFacts DEF IInv, TypeOK
<1> QED BY <1>1, <1>2, <1>3, CallerInv

LEMMA CleanupInv ==
  ASSUME IInv, NEW g \in Gateways, CleanupSteps(g)
  PROVE  IInv'
<1>1. CASE Ping(g) \/ PingSent(g) \/ Check(g)
  <2>1. /\ UNCHANGED <<connections, lastSeen, registry, wire, endpoint, superseded, push,
                       target, sendLock, place, call, failures>>
        /\ pinged' \in [Gateways -> Sockets \cup {NoSocket}]
        /\ cleanup' \in [Gateways -> {"ping", "pinging", "failed", "dropping", "check",
                                      "listed", "evicting", "dead"}]
    <3>1. CASE Ping(g)
      BY <3>1 DEF Ping, IInv, TypeOK, endpointVars, pushVars
    <3>2. CASE PingSent(g)
      BY <3>2 DEF PingSent, IInv, TypeOK, endpointVars, pushVars
    <3>3. CASE Check(g)
      BY <3>3 DEF Check, IInv, TypeOK, endpointVars, pushVars
    <3> QED BY <1>1, <3>1, <3>2, <3>3
  <2>2. TypeOK'
    BY <2>1 DEF IInv, TypeOK
  <2> QED BY <2>1, <2>2, ApartInv DEF pushVars
<1>2. CASE DropFailed(g) \/ Evict(g)
  <2>1. /\ EnterDisconnect(g)
        /\ UNCHANGED <<registry, wire, endpoint, superseded, pinged, push, target, sendLock,
                       place, failures>>
        /\ \E e \in {"dropping", "evicting"} : cleanup' = [cleanup EXCEPT ![g] = e]
    BY <1>2 DEF DropFailed, Evict, endpointVars, pushVars
  <2>2. g \in Callers /\ At(g) \in Gateways /\ failures \in 0 .. MaxFailures
    BY CallerFacts DEF IInv, TypeOK
  <2> QED BY <2>1, <2>2, CallerInv
<1> QED BY <1>1, <1>2 DEF CleanupSteps

\* Lookup, the request's arrival, its failure, and a send: push p moves on.
LEMMA PushInv ==
  ASSUME IInv, NEW p \in Pushes, Lookup(p) \/ PushSteps(p)
  PROVE  IInv'
<1> USE DEF IInv
<1>1. ASSUME TypeOK', UNCHANGED <<endpoint, registry, call, failures>>,
             \A q \in (Sockets \cup Pushes) \ {p} : place'[q] = place[q]
      PROVE  RegistrationIsOwned'
  <2>1. \A s \in Sockets : place'[s] = place[s]
    BY <1>1, CallerFacts
  <2> QED BY <1>1, <2>1 DEF RegistrationIsOwned
<1>2. CASE Lookup(p) \/ PostFails(p)
  <2>1. /\ push[p] \in {"idle", "posting"}
        /\ UNCHANGED <<connections, lastSeen, registry, wire, endpoint, superseded, cleanup,
                       pinged, sendLock, target, call, failures>>
    BY <1>2 DEF Lookup, PostFails, endpointVars, cleanupVars
  <2>2. \/ /\ registry # NoGateway /\ place' = [place EXCEPT ![p] = registry]
           /\ push' = [push EXCEPT ![p] = "posting"]
        \/ /\ place' = [place EXCEPT ![p] = NoGateway]
           /\ push' = [push EXCEPT ![p] = "idle"]
    BY <1>2 DEF Lookup, PostFails
  <2>3. /\ \A q \in Pushes \ {p} : push'[q] = push[q]
        /\ push'[p] \in {"idle", "posting"}
        /\ push' \in [Pushes -> {"idle", "posting", "locking", "failing"}]
        /\ place' \in [Sockets \cup Pushes -> Gateways \cup {NoGateway}]
        /\ \A q \in (Sockets \cup Pushes) \ {p} : place'[q] = place[q]
        /\ push'[p] # "idle" => place'[p] \in Gateways
    <3>1. ASSUME NEW g \in Gateways \cup {NoGateway}, NEW e \in {"idle", "posting"},
                 place' = [place EXCEPT ![p] = g], push' = [push EXCEPT ![p] = e]
          PROVE  /\ push' \in [Pushes -> {"idle", "posting", "locking", "failing"}]
                 /\ place' \in [Sockets \cup Pushes -> Gateways \cup {NoGateway}]
                 /\ push'[p] = e /\ place'[p] = g
                 /\ \A q \in Pushes \ {p} : push'[q] = push[q]
                 /\ \A q \in (Sockets \cup Pushes) \ {p} : place'[q] = place[q]
      BY <3>1 DEF TypeOK
    <3>2. CASE push' = [push EXCEPT ![p] = "posting"] /\ registry # NoGateway
               /\ place' = [place EXCEPT ![p] = registry]
      BY <3>1, <3>2 DEF TypeOK
    <3>3. CASE push' = [push EXCEPT ![p] = "idle"] /\ place' = [place EXCEPT ![p] = NoGateway]
      BY <3>1, <3>3
    <3> QED BY <2>2, <3>2, <3>3
  <2>4. TypeOK'
    BY <2>1, <2>3 DEF TypeOK
  <2>5. Placed'
    BY <2>1, <2>3, CallerFacts DEF Placed
  <2>6. Queued'
    BY <2>1, <2>3 DEF Queued
  <2> QED BY <1>1, <2>1, <2>3, <2>4, <2>5, <2>6
<1>3. CASE Arrive(p)
  <2> DEFINE s == connections[place[p]]
  <2>1. /\ push[p] = "posting" /\ s # NoSocket /\ push' = [push EXCEPT ![p] = "locking"]
        /\ target' = [target EXCEPT ![p] = s]
        /\ sendLock' = [sendLock EXCEPT ![s] = Append(@, p)]
        /\ UNCHANGED <<connections, lastSeen, registry, wire, endpoint, superseded, cleanup,
                       pinged, place, call, failures>>
    BY <1>3 DEF Arrive, endpointVars, cleanupVars
  <2>2. s \in Sockets
    BY <2>1 DEF Placed, TypeOK
  <2> HIDE DEF s
  <2>3. /\ sendLock[s] \in Seq(Pushes) /\ Append(sendLock[s], p) \in Seq(Pushes)
        /\ Len(sendLock[s]) \in Nat
        /\ Len(Append(sendLock[s], p)) = Len(sendLock[s]) + 1
        /\ \A i \in 1 .. Len(sendLock[s]) : Append(sendLock[s], p)[i] = sendLock[s][i]
        /\ Append(sendLock[s], p)[Len(sendLock[s]) + 1] = p
    BY <2>2 DEF TypeOK
  <2>4. /\ push'[p] = "locking" /\ target'[p] = s
        /\ sendLock'[s] = Append(sendLock[s], p)
        /\ \A t \in Sockets \ {s} : sendLock'[t] = sendLock[t]
        /\ \A q \in Pushes \ {p} : push'[q] = push[q] /\ target'[q] = target[q]
    BY <2>1, <2>2 DEF TypeOK
  <2>5. TypeOK'
    BY <2>1, <2>2, <2>3 DEF TypeOK
  <2>6. Placed'
    BY <2>1, <2>4 DEF Placed
  <2>7. Queued'
    <3>1. ASSUME NEW q \in Pushes, push'[q] \in {"locking", "failing"}
          PROVE  /\ target'[q] \in Sockets
                 /\ \E i \in 1 .. Len(sendLock'[target'[q]]) : sendLock'[target'[q]][i] = q
                 /\ push'[q] = "failing" => Head(sendLock'[target'[q]]) = q
      <4>1. CASE q = p
        <5>1. /\ Len(sendLock[s]) + 1 \in 1 .. Len(sendLock'[s])
              /\ sendLock'[s][Len(sendLock[s]) + 1] = p
          BY <2>3, <2>4
        <5> QED BY <2>2, <2>4, <4>1, <5>1
      <4>2. CASE q # p
        <5>1. /\ push'[q] = push[q] /\ target'[q] = target[q] /\ target[q] \in Sockets
              /\ \E i \in 1 .. Len(sendLock[target[q]]) : sendLock[target[q]][i] = q
              /\ push[q] = "failing" => Head(sendLock[target[q]]) = q
          BY <2>4, <3>1, <4>2 DEF Queued
        <5>2. CASE target[q] # s
          BY <2>4, <5>1, <5>2
        <5>3. CASE target[q] = s
          <6>1. PICK i \in 1 .. Len(sendLock[s]) : sendLock[s][i] = q
            BY <5>1, <5>3
          <6>2. i \in 1 .. Len(sendLock'[s]) /\ sendLock'[s][i] = q
            BY <2>3, <2>4, <6>1
          <6>3. Head(sendLock'[s]) = Head(sendLock[s])
            BY <2>3, <2>4, <6>1
          <6> QED BY <5>1, <5>3, <6>2, <6>3
        <5> QED BY <5>2, <5>3
      <4> QED BY <4>1, <4>2
    <3>2. \A q \in Pushes : call'[q].step # "none" => push'[q] = "failing"
      BY <2>1, <2>4 DEF Queued
    <3> QED BY <3>1, <3>2 DEF Queued
  <2> QED BY <1>1, <2>1, <2>5, <2>6, <2>7
<1>4. CASE Send(p)
  <2>1. /\ push[p] = "locking" /\ Head(sendLock[target[p]]) = p /\ PushEnds(p)
        /\ UNCHANGED <<connections, lastSeen, registry, wire, endpoint, superseded, cleanup,
                       pinged, call, failures>>
    BY <1>4 DEF Send, HasLock, endpointVars, cleanupVars
  <2>2. /\ push' \in [Pushes -> {"idle", "posting", "locking", "failing"}]
        /\ target' \in [Pushes -> Sockets \cup {NoSocket}]
        /\ place' \in [Sockets \cup Pushes -> Gateways \cup {NoGateway}]
        /\ sendLock' \in [Sockets -> Seq(Pushes)] /\ push'[p] = "idle"
        /\ \A q \in Pushes \ {p} : push'[q] = push[q] /\ place'[q] = place[q]
        /\ \A s \in Sockets : place'[s] = place[s]
    BY <2>1, PushEndsFacts
  <2>3. TypeOK'
    BY <2>1, <2>2 DEF TypeOK
  <2>4. Placed'
    BY <2>1, <2>2 DEF Placed
  <2>5. Queued'
    <3>1. ASSUME NEW q \in Pushes
          PROVE  /\ push'[q] \in {"locking", "failing"} =>
                      /\ target'[q] \in Sockets
                      /\ \E i \in 1 .. Len(sendLock'[target'[q]]) : sendLock'[target'[q]][i] = q
                 /\ push'[q] = "failing" => Head(sendLock'[target'[q]]) = q
                 /\ call'[q].step # "none" => push'[q] = "failing"
      <4>1. call[q].step # "none" => push[q] = "failing"
        BY DEF Queued
      <4>2. CASE q = p
        BY <2>1, <2>2, <4>1, <4>2
      <4>3. CASE q # p
        BY <2>1, <2>2, <4>1, <4>3, PushEndsFacts
      <4> QED BY <4>2, <4>3
    <3> QED BY <3>1 DEF Queued
  <2> QED BY <1>1, <2>1, <2>2, <2>3, <2>4, <2>5
<1>5. CASE SendFails(p)
  <2>1. /\ HasLock(p) /\ EnterDisconnect(p) /\ push' = [push EXCEPT ![p] = "failing"]
        /\ UNCHANGED <<registry, wire, endpoint, superseded, cleanup, pinged, sendLock, target,
                       place, failures>>
    BY <1>5 DEF SendFails, endpointVars, cleanupVars
  <2>2. p \in Callers /\ At(p) \in Gateways /\ failures \in 0 .. MaxFailures
    BY <2>1, CallerFacts DEF HasLock, Placed, TypeOK
  <2> QED BY <2>1, <2>2, CallerInv
<1> QED BY <1>2, <1>3, <1>4, <1>5 DEF PushSteps

\* Every step keeps the invariant.
LEMMA NextInv == IInv /\ [Next]_vars => IInv'
<1> SUFFICES ASSUME IInv, [Next]_vars
             PROVE  IInv'
  OBVIOUS
<1>1. ASSUME NEW s \in Sockets, NEW g \in Gateways, Connect(s, g)
      PROVE  IInv'
  BY <1>1, ConnectInv
<1>2. ASSUME NEW s \in Sockets, EndpointSteps(s) \/ Receive(s) \/ ReceiveFails(s)
      PROVE  IInv'
  BY <1>2, ForceCloseInv, AcceptInv, RegisterInv, ReceiveInv, EndpointCallsInv
     DEF EndpointSteps
<1>3. ASSUME NEW s \in Sockets, ClientCloses(s)
      PROVE  IInv'
  <2>1. TypeOK'
    BY <1>3 DEF ClientCloses, IInv, TypeOK, endpointVars, cleanupVars, pushVars
  <2> QED BY <1>3, <2>1, ApartInv DEF ClientCloses, endpointVars
<1>4. ASSUME NEW p \in Callers, DisconnectSteps(p)
      PROVE  IInv'
  BY <1>4, DisconnectInv
<1>5. ASSUME NEW g \in Gateways, CleanupSteps(g)
      PROVE  IInv'
  BY <1>5, CleanupInv
<1>6. ASSUME NEW g \in Gateways, Silence(g)
      PROVE  IInv'
  <2>1. TypeOK'
    BY <1>6 DEF Silence, IInv, TypeOK, endpointVars, cleanupVars, pushVars
  <2> QED BY <1>6, <2>1, ApartInv DEF Silence, endpointVars
<1>7. ASSUME NEW p \in Pushes, Lookup(p) \/ PushSteps(p)
      PROVE  IInv'
  BY <1>7, PushInv
<1>8. CASE Expire
  <2>1. TypeOK'
    BY <1>8 DEF Expire, IInv, TypeOK, endpointVars, cleanupVars, pushVars
  <2> QED BY <1>8, <2>1, ApartInv DEF Expire, endpointVars
<1>9. CASE UNCHANGED vars
  <2>1. UNCHANGED <<connections, lastSeen, registry, wire, endpoint, superseded, cleanup,
                    pinged, push, target, sendLock, place, call, failures>>
    BY <1>9 DEF vars, endpointVars, cleanupVars, pushVars
  <2>2. TypeOK'
    BY <2>1 DEF IInv, TypeOK
  <2> QED BY <2>1, <2>2, ApartInv DEF pushVars
<1> QED BY <1>1, <1>2, <1>3, <1>4, <1>5, <1>6, <1>7, <1>8, <1>9 DEF Next

LEMMA Invariance == Spec => []IInv
<1>1. IInv /\ [Next]_vars => IInv'
  BY NextInv
<1> QED BY InitInv, <1>1, PTL DEF Spec

-----------------------------------------------------------------------------
(* The theorems *)

\* In every reachable state every variable has its type: among other things a gateway
\* knows when it last heard from each conversation that it has a socket of, so that the
\* cleanup loop will find it (websocket_manager.py, connect, heartbeat and disconnect).
THEOREM TypeCorrect == Spec => []TypeOK
<1>1. IInv => TypeOK
  BY DEF IInv
<1> QED BY <1>1, Invariance, PTL

\* As long as no call to Redis failed, ws:conn never outlives the last endpoint that will
\* delete it: a registration found by push_to_client names a gateway where an endpoint of
\* the conversation has registered and has not made its last unregister_connection().
THEOREM RegistrationIsOwnedHolds == Spec => []RegistrationIsOwned
<1>1. IInv => RegistrationIsOwned
  BY DEF IInv
<1> QED BY <1>1, Invariance, PTL
=============================================================================
