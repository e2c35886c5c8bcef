------------------------------ MODULE RateLimit -------------------------------
(* The token buckets of agent/internal/ratelimit/ratelimit.go. Time runs in   *)
(* ticks as short as one likes; a token takes Cost[k] ticks to refill, so a   *)
(* level is counted in ticks of refilling.                                    *)
EXTENDS Integers

CONSTANTS
  Key,          \* addresses, or bearer tokens
  Burst,        \* tokens a bucket holds: 30 for an address, 20 for a bearer token
  Cost,         \* ticks that refill one token: 1/rate
  CleanupAges,  \* arguments Cleanup is called with: nothing in the agent calls it
  MaxTime       \* bound on the clock

Full(k) == Burst[k] * Cost[k]

ASSUME RateLimitAssumption ==
  /\ Burst \in [Key -> Nat] /\ Cost \in [Key -> Nat \ {0}] /\ MaxTime \in Nat
  /\ \A k \in Key : Full(k) \in Nat
  /\ CleanupAges \subseteq Nat /\ \A age \in CleanupAges, k \in Key : Full(k) <= age

VARIABLES
  now,      \* the clock
  seen,     \* the keys of Limiter.buckets
  level,    \* bucket.tokens, in ticks
  last,     \* bucket.last
  start,    \* a window of observation, opened at any time
  granted   \* what each key was granted in the window, in ticks

rateVars == <<now, seen, level, last, start, granted>>

Lesser(a, b) == IF a < b THEN a ELSE b

(* What Take finds in a bucket: a new one is full, an old one is refilled up  *)
(* to the burst.                                                              *)
Filled(k) == IF k \in seen THEN Lesser(Full(k), level[k] + (now - last[k])) ELSE Full(k)

RateInit == /\ now = 0 /\ seen = {} /\ start = 0
            /\ level = [k \in Key |-> 0] /\ last = [k \in Key |-> 0]
            /\ granted = [k \in Key |-> 0]

(* Take with n = 1, which is what Allow and both middlewares ask for.         *)
Grant(k) == /\ Filled(k) >= Cost[k]
            /\ seen' = seen \cup {k}
            /\ level' = [level EXCEPT ![k] = Filled(k) - Cost[k]]
            /\ last' = [last EXCEPT ![k] = now]
            /\ granted' = [granted EXCEPT ![k] = @ + Cost[k]]
            /\ UNCHANGED <<now, start>>

Refuse(k) == /\ Filled(k) < Cost[k]
             /\ seen' = seen \cup {k}
             /\ level' = [level EXCEPT ![k] = Filled(k)]
             /\ last' = [last EXCEPT ![k] = now]
             /\ UNCHANGED <<now, start, granted>>

Cleanup_Recent(age) ==
  /\ seen' = {k \in seen : last[k] <= now - age}
  /\ level' = [k \in Key |-> IF k \in seen' THEN level[k] ELSE 0]
  /\ last' = [k \in Key |-> IF k \in seen' THEN last[k] ELSE 0]
  /\ UNCHANGED <<now, start, granted>>

Cleanup(age) ==
  /\ seen' = {k \in seen : last[k] >= now - age}
  /\ level' = [k \in Key |-> IF k \in seen' THEN level[k] ELSE 0]
  /\ last' = [k \in Key |-> IF k \in seen' THEN last[k] ELSE 0]
  /\ UNCHANGED <<now, start, granted>>

Tick == /\ now < MaxTime
        /\ now' = now + 1
        /\ UNCHANGED <<seen, level, last, start, granted>>

OpenWindow == /\ start' = now
              /\ granted' = [k \in Key |-> 0]
              /\ UNCHANGED <<now, seen, level, last>>

RateNext == \/ Tick \/ OpenWindow
            \/ \E k \in Key : Grant(k) \/ Refuse(k)
            \/ \E age \in CleanupAges : Cleanup(age)

RateSpec == RateInit /\ [][RateNext]_rateVars

-----------------------------------------------------------------------------
RateTypeOK == /\ now \in 0 .. MaxTime /\ start \in 0 .. now /\ seen \subseteq Key
              /\ level \in [Key -> Int] /\ last \in [Key -> 0 .. MaxTime]
              /\ granted \in [Key -> Nat]
              /\ \A k \in Key : last[k] <= now /\ level[k] \in 0 .. Full(k)

(* "at most burst + rate x window": whatever the order of takes, refusals,    *)
(* pauses and cleanups, a key is granted no more in any window, and what its  *)
(* bucket still holds is counted in.                                          *)
WindowBound == \A k \in Key : granted[k] + Filled(k) <= Full(k) + (now - start)

(* Being refused costs nothing: a key that was granted nothing in the window  *)
(* has been refilled for all of it, however often it asked.                   *)
RefusalsAreFree == \A k \in Key :
  granted[k] = 0 => Filled(k) >= Lesser(Full(k), now - start)
=============================================================================
