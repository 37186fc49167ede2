---------------------------- MODULE RateLimiter ----------------------------
(***************************************************************************)
(* The limit on a user's events, shared/cache/rate_limiter.py: a counter   *)
(* in Redis that expires Window ticks after its first increment.  INCR and *)
(* EXPIRE NX are one MULTI, so a check is one action; its reply may be     *)
(* lost and the client send it once more (retry_on_timeout), and when      *)
(* Redis cannot be reached the event is let through.                       *)
(*                                                                         *)
(* The actions of the module are taken by the gateway that checks an event *)
(* (module BotChannel).                                                    *)
(***************************************************************************)
EXTENDS Naturals

CONSTANTS
  Limit,   \* RATE_LIMIT_PER_MINUTE
  Window   \* ticks a counter lives; a minute in the code

ASSUME LimiterAssumptions ==
  /\ Limit \in Nat
  /\ Window \in Nat \ {0}

VARIABLES
  count,   \* the counter rate:<user>; 0 without a key
  ttl,     \* ticks it has left to live
  recent   \* history: n -> events that Redis let through in this tick and the n before it

limiterVars == <<count, ttl, recent>>

Ages == 0 .. Window - 1

LimiterInit == /\ count = 0
               /\ ttl = 0
               /\ recent = [n \in Ages |-> 0]

\* Bound: what is beyond the limit is not told apart.
CountBound == Limit + 1
Incremented(n) == IF n < CountBound THEN n + 1 ELSE n

\* A variant of the definition below: EXPIRE without NX.
CountAndRenew(times) ==
  /\ count' = IF times = 1 THEN Incremented(count) ELSE Incremented(Incremented(count))
  /\ ttl' = Window

\* A variant: the key is given no time to live.
CountForever(times) ==
  /\ count' = IF times = 1 THEN Incremented(count) ELSE Incremented(Incremented(count))
  /\ UNCHANGED ttl

\* MULTI INCR EXPIRE-NX EXEC, executed that many times
Count(times) ==
  /\ count' = IF times = 1 THEN Incremented(count) ELSE Incremented(Incremented(count))
  /\ ttl' = IF ttl = 0 THEN Window ELSE ttl

\* A variant of the definition below: one too many.
AllowedUpTo == count' <= Limit + 1
Allowed == count' <= Limit

Admit == /\ \E times \in {1, 2} : Count(times)
         /\ Allowed
         /\ recent' = [n \in Ages |-> recent[n] + 1]

Refuse == /\ \E times \in {1, 2} : Count(times)
          /\ ~ Allowed
          /\ UNCHANGED recent

\* An error fails open; the counter may have been incremented.
FailOpen == /\ \/ Count(1)
               \/ UNCHANGED <<count, ttl>>
            /\ UNCHANGED recent

\* Time passes; Redis drops the key whose time is over.
Tick == /\ ttl' = IF ttl = 0 THEN 0 ELSE ttl - 1
        /\ count' = IF ttl' = 0 THEN 0 ELSE count
        /\ recent' = [n \in Ages |-> IF n = 0 THEN 0 ELSE recent[n - 1]]

LimiterTypeOK ==
  /\ count \in 0 .. CountBound
  /\ ttl \in 0 .. Window
  /\ count = 0 <=> ttl = 0
  /\ recent \in [Ages -> Nat]

\* A counter's window begins with the first event after the last one ended, wherever
\* those events were: any stretch of Window ticks sees up to twice the limit let through
\* by Redis, but never more, also when clients repeat the command.
TwiceTheLimit == recent[Window - 1] <= 2 * Limit

\* The key expires however many events keep coming: a user who is over the limit is heard
\* again after at most Window ticks.
RefusalEnds == count > Limit ~> count = 0
=============================================================================
