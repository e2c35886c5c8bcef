------------------------------ MODULE GateProof -------------------------------
(* What the limiters grant, for any keys, bursts, rates and requests.         *)
EXTENDS Gate, FiniteSetTheorems, TLAPS

USE RateLimitAssumption DEF Lesser

Inv == RateTypeOK /\ WindowBound /\ RefusalsAreFree

(* A bucket never holds more than its burst, nor less than nothing.           *)
LEMMA FilledRange == ASSUME RateTypeOK, NEW k \in Key
                     PROVE  /\ Filled(k) \in 0 .. Full(k)
                            /\ Full(k) \in Nat /\ Cost[k] \in Nat \ {0}
                            /\ granted[k] \in Nat /\ level[k] \in Int /\ last[k] \in Nat
                            /\ now \in Nat /\ start \in Nat /\ start <= now /\ last[k] <= now
<1>1. /\ Full(k) \in Nat /\ Cost[k] \in Nat \ {0} /\ granted[k] \in Nat
      /\ level[k] \in Int /\ level[k] \in 0 .. Full(k) /\ last[k] \in Nat
      /\ now \in Nat /\ start \in Nat /\ start <= now /\ last[k] <= now
  BY DEF RateTypeOK
<1>2. Filled(k) \in 0 .. Full(k)
  BY <1>1 DEF Filled
<1> QED BY <1>1, <1>2

LEMMA InitInv == RateInit => Inv
<1> SUFFICES ASSUME RateInit PROVE Inv
  OBVIOUS
<1>1. RateTypeOK
  BY DEF RateInit, RateTypeOK
<1>2. ASSUME NEW k \in Key PROVE Filled(k) = Full(k) /\ granted[k] = 0 /\ now = 0 /\ start = 0
  BY DEF RateInit, Filled
<1>3. \A k \in Key : Full(k) \in Nat
  OBVIOUS
<1> QED BY <1>1, <1>2, <1>3 DEF Inv, WindowBound, RefusalsAreFree

(* The type invariant, action by action.                                      *)
LEMMA TypeStep == RateTypeOK /\ [RateNext]_rateVars => RateTypeOK'
<1> SUFFICES ASSUME RateTypeOK, [RateNext]_rateVars PROVE RateTypeOK'
  OBVIOUS
<1>1. CASE UNCHANGED rateVars
  BY <1>1 DEF rateVars, RateTypeOK, Full
<1>2. CASE Tick
  BY <1>2 DEF Tick, RateTypeOK, Full
<1>3. CASE OpenWindow
  BY <1>3 DEF OpenWindow, RateTypeOK, Full
<1>4. ASSUME NEW k \in Key, Grant(k) PROVE RateTypeOK'
  <2>1. /\ Filled(k) \in 0 .. Full(k) /\ Cost[k] \in Nat \ {0} /\ granted[k] \in Nat
    BY FilledRange
  <2>2. Filled(k) - Cost[k] \in 0 .. Full(k)
    BY <1>4, <2>1, FilledRange DEF Grant
  <2> QED BY <1>4, <2>1, <2>2 DEF Grant, RateTypeOK, Full
<1>5. ASSUME NEW k \in Key, Refuse(k) PROVE RateTypeOK'
  <2>1. Filled(k) \in 0 .. Full(k)
    BY FilledRange
  <2> QED BY <1>5, <2>1 DEF Refuse, RateTypeOK, Full
<1>6. ASSUME NEW age \in CleanupAges, Cleanup(age) PROVE RateTypeOK'
  BY <1>6 DEF Cleanup, RateTypeOK, Full
<1> QED BY <1>1, <1>2, <1>3, <1>4, <1>5, <1>6 DEF RateNext

(* A step neither fills a bucket faster than time passes nor, but for a       *)
(* grant, takes anything out.                                                 *)
LEMMA FilledStep ==
  ASSUME RateTypeOK, NEW k \in Key, [RateNext]_rateVars
  PROVE  \/ /\ now' = now /\ start' = start /\ granted'[k] = granted[k]
            /\ Filled(k)' = Filled(k)
         \/ /\ now' = now + 1 /\ start' = start /\ granted'[k] = granted[k]
            /\ Filled(k)' = Lesser(Full(k), Filled(k) + 1)
         \/ /\ now' = now /\ start' = now /\ granted'[k] = 0
            /\ Filled(k)' = Filled(k)
         \/ /\ now' = now /\ start' = start /\ granted'[k] = granted[k] + Cost[k]
            /\ Filled(k)' = Filled(k) - Cost[k]
<1> USE FilledRange
<1>1. CASE UNCHANGED rateVars
  BY <1>1 DEF rateVars, Filled, Full
<1>2. CASE Tick
  BY <1>2 DEF Tick, Filled
<1>3. CASE OpenWindow
  BY <1>3 DEF OpenWindow, Filled
<1>4. ASSUME NEW j \in Key, Grant(j), j = k
      PROVE  /\ now' = now /\ start' = start /\ granted'[k] = granted[k] + Cost[k]
             /\ Filled(k)' = Filled(k) - Cost[k]
  <2>1. /\ k \in seen' /\ level'[k] = Filled(k) - Cost[k] /\ last'[k] = now /\ now' = now
        /\ start' = start /\ granted'[k] = granted[k] + Cost[k]
    BY <1>4 DEF Grant, RateTypeOK
  <2>2. Filled(k)' = Lesser(Full(k), level'[k] + (now' - last'[k]))
    BY <2>1 DEF Filled
  <2> QED BY <2>1, <2>2
<1>5. ASSUME NEW j \in Key, Refuse(j), j = k
      PROVE  /\ now' = now /\ start' = start /\ granted'[k] = granted[k]
             /\ Filled(k)' = Filled(k)
  <2>1. /\ k \in seen' /\ level'[k] = Filled(k) /\ last'[k] = now /\ now' = now
        /\ start' = start /\ granted' = granted
    BY <1>5 DEF Refuse, RateTypeOK
  <2>2. Filled(k)' = Lesser(Full(k), level'[k] + (now' - last'[k]))
    BY <2>1 DEF Filled
  <2> QED BY <2>1, <2>2
<1>6. ASSUME NEW j \in Key, Grant(j) \/ Refuse(j), j # k
      PROVE  /\ now' = now /\ start' = start /\ granted'[k] = granted[k]
             /\ Filled(k)' = Filled(k)
  <2>1. /\ (k \in seen' <=> k \in seen) /\ level'[k] = level[k] /\ last'[k] = last[k]
        /\ now' = now /\ start' = start /\ granted'[k] = granted[k]
    BY <1>6 DEF Grant, Refuse, RateTypeOK
  <2> QED BY <2>1 DEF Filled
<1>7. ASSUME NEW age \in CleanupAges, Cleanup(age)
      PROVE  /\ now' = now /\ start' = start /\ granted'[k] = granted[k]
             /\ Filled(k)' = Filled(k)
  <2>1. now' = now /\ start' = start /\ granted' = granted
    BY <1>7 DEF Cleanup
  <2>2. CASE k \in seen'
    BY <1>7, <2>1, <2>2 DEF Cleanup, Filled
  <2>3. CASE k \notin seen'
    <3>1. Filled(k)' = Full(k)
      BY <2>3 DEF Filled
    <3>2. CASE k \notin seen
      BY <2>1, <3>1, <3>2 DEF Filled
    <3>3. CASE k \in seen
      <4>1. last[k] < now - age /\ Full(k) <= age /\ age \in Nat
        BY <1>7, <2>3, <3>3 DEF Cleanup
      <4>2. level[k] \in 0 .. Full(k)
        BY DEF RateTypeOK
      <4>3. Filled(k) = Full(k)
        BY <3>3, <4>1, <4>2 DEF Filled
      <4> QED BY <2>1, <3>1, <4>3
    <3> QED BY <3>2, <3>3
  <2> QED BY <2>2, <2>3
<1> QED BY <1>1, <1>2, <1>3, <1>4, <1>5, <1>6, <1>7 DEF RateNext

LEMMA InvStep == Inv /\ [RateNext]_rateVars => Inv'
<1> SUFFICES ASSUME Inv, [RateNext]_rateVars PROVE Inv'
  OBVIOUS
<1>1. RateTypeOK'
  BY TypeStep DEF Inv
<1>2. ASSUME NEW k \in Key
      PROVE  /\ granted'[k] + Filled(k)' <= Full(k) + (now' - start')
             /\ granted'[k] = 0 => Filled(k)' >= Lesser(Full(k), now' - start')
  <2>1. /\ granted[k] + Filled(k) <= Full(k) + (now - start)
        /\ granted[k] = 0 => Filled(k) >= Lesser(Full(k), now - start)
    BY DEF Inv, WindowBound, RefusalsAreFree
  <2>2. /\ Filled(k) \in 0 .. Full(k) /\ Full(k) \in Nat /\ Cost[k] \in Nat \ {0}
        /\ granted[k] \in Nat /\ now \in Nat /\ start \in Nat /\ start <= now
    BY FilledRange DEF Inv
  <2> QED BY <2>1, <2>2, FilledStep DEF Inv
<1> QED BY <1>1, <1>2 DEF Inv, WindowBound, RefusalsAreFree, Full

-----------------------------------------------------------------------------
(* The requests behind the middlewares.                                       *)
Coming == [at : Steps, addr : Addr, token : Token, route : Route, late : BOOLEAN]
ReqOK == /\ req \in [Request -> {Idle} \cup Coming]
         /\ revoked \subseteq {Device[t] : t \in Token}
         /\ served \in [Token -> 0 .. MaxServed]

LEMMA InStep == ASSUME ReqOK, NEW r \in Request, req[r].at \in Steps
                PROVE  req[r] \in Coming
  BY DEF ReqOK, Idle, Steps

(* What Goes does: an idle slot, or the same request at another step.         *)
LEMMA GoesWhere ==
  ASSUME ReqOK, NEW r \in Request, NEW to \in Steps \cup {"idle"}, req[r].at \in Steps, Goes(r, to)
  PROVE  /\ req' \in [Request -> {Idle} \cup Coming]
         /\ \A q \in Request : q # r => req'[q] = req[q]
         /\ req'[r] \in {Idle} \cup Coming
         /\ req'[r].at = to
         /\ to \in Steps => /\ req'[r].addr = req[r].addr /\ req'[r].token = req[r].token
                            /\ req'[r].route = req[r].route /\ req'[r].late = req[r].late
<1>1. PICK q \in Coming : q = req[r]
  BY InStep
<1>2. CASE to = "idle"
  <2>1. req' = [req EXCEPT ![r] = Idle]
    BY <1>2 DEF Goes
  <2> QED BY <1>2, <2>1 DEF ReqOK, Idle, Steps
<1>3. CASE to \in Steps
  <2> DEFINE new == [at |-> to, addr |-> q.addr, token |-> q.token, route |-> q.route, late |-> q.late]
  <2>1. [q EXCEPT !.at = to] = new
    BY <1>1 DEF Coming
  <2>2. new \in Coming
    BY <1>1, <1>3 DEF Coming
  <2>3. to # "idle"
    BY <1>3 DEF Steps
  <2>4. req' = [req EXCEPT ![r] = [q EXCEPT !.at = to]]
    BY <1>1, <2>3 DEF Goes, ReqOK
  <2>5. req' = [req EXCEPT ![r] = new]
    BY <2>1, <2>4
  <2>6. req'[r] = new /\ \A p \in Request : p # r => req'[p] = req[p]
    BY <2>5 DEF ReqOK
  <2>7. req' \in [Request -> {Idle} \cup Coming]
    BY <2>2, <2>5 DEF ReqOK
  <2> QED BY <1>1, <2>2, <2>6, <2>7
<1> QED BY <1>2, <1>3

(* A step at a request takes or refuses a token of one of its two keys, or    *)
(* leaves the limiters alone.                                                 *)
LEMMA RateSteps == ReqOK /\ [Next]_vars => [RateNext]_rateVars
<1> SUFFICES ASSUME ReqOK, [Next]_vars PROVE [RateNext]_rateVars
  OBVIOUS
<1>1. CASE UNCHANGED vars
  BY <1>1 DEF vars
<1>2. ASSUME NEW r \in Request, NEW a \in Addr, NEW t \in Token, NEW route \in Route,
             Arrive(r, a, t, route)
      PROVE  UNCHANGED rateVars
  BY <1>2 DEF Arrive
<1>3. ASSUME NEW r \in Request, Validate(r) \/ CheckDevice(r) \/ Handle(r)
      PROVE  UNCHANGED rateVars
  BY <1>3 DEF Validate, CheckDevice, Handle
<1>4. ASSUME NEW r \in Request, ipRateLimit(r) PROVE RateNext
  <2>1. req[r].addr \in Key
    BY <1>4, InStep, GateAssumption DEF ipRateLimit, Steps, Coming
  <2> QED BY <1>4, <2>1 DEF ipRateLimit, RateNext
<1>5. ASSUME NEW r \in Request, ChargeToken(r) PROVE RateNext
  <2>1. req[r].token \in Key
    BY <1>5, InStep, GateAssumption DEF ChargeToken, Steps, Coming
  <2> QED BY <1>5, <2>1 DEF ChargeToken, RateNext
<1>6. CASE Passing
  BY <1>6 DEF Passing, RateNext
<1> QED BY <1>1, <1>2, <1>3, <1>4, <1>5, <1>6 DEF Next

LEMMA ReqStep == ReqOK /\ [Next]_vars => ReqOK'
<1> SUFFICES ASSUME ReqOK, [Next]_vars PROVE ReqOK'
  OBVIOUS
<1>1. CASE UNCHANGED vars
  BY <1>1 DEF vars, ReqOK
<1>2. ASSUME NEW r \in Request, NEW a \in Addr, NEW t \in Token, NEW route \in Route,
             Arrive(r, a, t, route)
      PROVE  ReqOK'
  <2> DEFINE new == [at |-> "address", addr |-> a, token |-> t, route |-> route,
                     late |-> Device[t] \in revoked]
  <2>1. new \in Coming
    BY DEF Coming, Steps
  <2>2. req' = [req EXCEPT ![r] = new] /\ UNCHANGED <<revoked, served>>
    BY <1>2 DEF Arrive
  <2> QED BY <2>1, <2>2 DEF ReqOK
<1>3. ASSUME NEW r \in Request, ipRateLimit(r) PROVE ReqOK'
  <2>1. PICK to \in Steps \cup {"idle"} : Goes(r, to)
    <3>1. req[r].route \in Route /\ Route \subseteq {"public", "protected", "ws"}
      BY <1>3, InStep, GateAssumption DEF ipRateLimit, Steps, Coming
    <3> QED BY <1>3, <3>1 DEF ipRateLimit, Steps
  <2> QED BY <1>3, <2>1, GoesWhere DEF ipRateLimit, ReqOK, Steps
<1>4. ASSUME NEW r \in Request, ChargeToken(r) \/ Validate(r) \/ CheckDevice(r) PROVE ReqOK'
  <2>1. PICK to \in Steps \cup {"idle"} : Goes(r, to)
    BY <1>4 DEF ChargeToken, Validate, CheckDevice, Steps
  <2>2. req[r].at \in Steps /\ UNCHANGED <<revoked, served>>
    BY <1>4 DEF ChargeToken, Validate, CheckDevice, Steps
  <2> QED BY <2>1, <2>2, GoesWhere DEF ReqOK
<1>5. ASSUME NEW r \in Request, Handle(r) PROVE ReqOK'
  <2>1. req[r] \in Coming /\ req[r].token \in Token
    BY <1>5, InStep DEF Handle, Steps, Coming
  <2>2. req' \in [Request -> {Idle} \cup Coming]
    BY <1>5, GoesWhere DEF Handle, Steps
  <2>3. served' \in [Token -> 0 .. MaxServed]
    BY <1>5, <2>1, GateAssumption DEF Handle, ReqOK
  <2>4. revoked' \subseteq {Device[t] : t \in Token}
    BY <1>5, <2>1 DEF Handle, ReqOK
  <2> QED BY <2>2, <2>3, <2>4 DEF ReqOK
<1>6. CASE Passing
  BY <1>6, GateAssumption DEF Passing, ReqOK
<1> QED BY <1>1, <1>2, <1>3, <1>4, <1>5, <1>6 DEF Next

LEMMA ReqInit == GateInit => ReqOK
  BY GateAssumption DEF GateInit, ReqOK

LEMMA ReqAlways == Spec => []ReqOK
<1> QED BY ReqInit, ReqStep, PTL DEF Spec

(* Behind the middlewares, with any number of requests in progress, the       *)
(* limiters behave as token buckets that nothing else touches.                *)
THEOREM GateRefinesLimiter == Spec => RateSpec
<1>1. GateInit => RateInit
  BY DEF GateInit
<1> QED BY <1>1, RateSteps, ReqAlways, PTL DEF Spec, RateSpec

LEMMA InvAlways == Spec => []Inv
<1>1. RateSpec => []Inv
  BY InitInv, InvStep, PTL DEF RateSpec
<1> QED BY <1>1, GateRefinesLimiter, PTL

(* Levels stay within the burst and the requests well formed.                 *)
THEOREM GateTypes == Spec => []TypeOK
<1>1. Inv /\ ReqOK => TypeOK
  BY DEF Inv, TypeOK, ReqOK, Coming
<1> QED BY <1>1, InvAlways, ReqAlways, PTL

(* For any bursts, rates and keys, in any window and whatever the order of    *)
(* requests, refusals, pauses and cleanups: at most burst plus refill.        *)
THEOREM WindowHolds == Spec => []WindowBound
<1>1. Inv => WindowBound
  BY DEF Inv
<1> QED BY <1>1, InvAlways, PTL

(* A client that is refused, however often, loses nothing of its refill.      *)
THEOREM RefusalsCostNothing == Spec => []RefusalsAreFree
<1>1. Inv => RefusalsAreFree
  BY DEF Inv
<1> QED BY <1>1, InvAlways, PTL

-----------------------------------------------------------------------------
(* A late request is one of a device that is revoked for good, and no step    *)
(* but CheckDevice lets one that is not public through to its handler.        *)
Late == \A r \in Request : req[r].at \in Steps =>
  /\ req[r].late => Device[req[r].token] \in revoked
  /\ (req[r].at = "handler" /\ req[r].route # "public") => ~req[r].late

LEMMA LateStep == ReqOK /\ Late /\ [Next]_vars => Late'
<1> SUFFICES ASSUME ReqOK, Late, [Next]_vars PROVE Late'
  OBVIOUS
<1>1. CASE UNCHANGED vars
  BY <1>1 DEF vars, Late
<1>2. ASSUME NEW r \in Request, NEW a \in Addr, NEW t \in Token, NEW route \in Route,
             Arrive(r, a, t, route)
      PROVE  Late'
  <2> DEFINE new == [at |-> "address", addr |-> a, token |-> t, route |-> route,
                     late |-> Device[t] \in revoked]
  <2>1. req' = [req EXCEPT ![r] = new] /\ UNCHANGED revoked
    BY <1>2 DEF Arrive
  <2>2. req'[r] = new /\ \A q \in Request : q # r => req'[q] = req[q]
    BY <2>1 DEF ReqOK
  <2>3. new.at = "address" /\ (new.late => Device[new.token] \in revoked)
    BY Zenon
  <2> HIDE DEF new
  <2> QED BY <2>1, <2>2, <2>3 DEF Late
<1>3. ASSUME NEW r \in Request, NEW to \in Steps \cup {"idle"}, Goes(r, to),
             req[r].at \in Steps, revoked \subseteq revoked',
             (to = "handler" /\ req[r].route # "public") => ~req[r].late
      PROVE  Late'
  BY <1>3, GoesWhere DEF Late, Steps
<1>4. ASSUME NEW r \in Request, ipRateLimit(r) PROVE Late'
  <2>1. PICK to \in Steps \cup {"idle"} :
               Goes(r, to) /\ (to = "handler" => req[r].route = "public")
    <3>1. req[r].route \in Route /\ Route \subseteq {"public", "protected", "ws"}
      BY <1>4, InStep, GateAssumption DEF ipRateLimit, Steps, Coming
    <3> QED BY <1>4, <3>1 DEF ipRateLimit, Steps
  <2> QED BY <1>3, <1>4, <2>1 DEF ipRateLimit, Steps
<1>5. ASSUME NEW r \in Request, ChargeToken(r) \/ Validate(r) PROVE Late'
  <2>1. PICK to \in {"validate", "device", "idle"} : Goes(r, to)
    BY <1>5 DEF ChargeToken, Validate
  <2> QED BY <1>3, <1>5, <2>1 DEF ChargeToken, Validate, Steps
<1>6. ASSUME NEW r \in Request, CheckDevice(r) PROVE Late'
  BY <1>3, <1>6 DEF CheckDevice, Steps, Late
<1>7. ASSUME NEW r \in Request, Handle(r) PROVE Late'
  BY <1>3, <1>7 DEF Handle, Steps
<1>8. CASE Passing
  BY <1>8 DEF Passing, Late
<1> QED BY <1>1, <1>2, <1>4, <1>5, <1>6, <1>7, <1>8 DEF Next

(* For any number of requests in progress: whatever a request has passed, it  *)
(* does not reach its handler when its device was revoked before it came.     *)
THEOREM RevokedNeverServed == Spec => []RevokedIsRefused
<1>1. GateInit => Late
  BY DEF GateInit, Late, Idle, Steps
<1>2. Late => RevokedIsRefused
  BY DEF Late, RevokedIsRefused, Steps
<1> QED BY <1>1, <1>2, LateStep, ReqAlways, PTL DEF Spec

-----------------------------------------------------------------------------
(* What handlers ran for, and what is charged and still under way, was        *)
(* granted in the window, but for what was under way when it opened.          *)
Paid(t) == Cost[t] * (served[t] + Cardinality(Charged(t)))
             <= granted[t] + Cost[t] * Cardinality(Request)
AllPaid == \A t \in Token : Paid(t)

LEMMA Times == ASSUME NEW c \in Nat, NEW a \in Nat, NEW b \in Nat
               PROVE  /\ c * a \in Nat /\ c * (a + 1) = c * a + c
                      /\ a <= b => c * a <= c * b
  OBVIOUS

LEMMA ChargedCount == ASSUME NEW t \in Token
                      PROVE  /\ IsFiniteSet(Charged(t)) /\ Cardinality(Charged(t)) \in Nat
                             /\ Cardinality(Request) \in Nat
                             /\ Cardinality(Charged(t)) <= Cardinality(Request)
<1>1. Charged(t) \subseteq Request /\ IsFiniteSet(Request)
  BY GateAssumption DEF Charged
<1> QED BY <1>1, FS_Subset, FS_CardinalityType

(* A step of one request adds it to the charged ones of a token, or takes it  *)
(* out, or neither.                                                           *)
LEMMA ChargedStep ==
  ASSUME ReqOK, ReqOK', NEW r \in Request, NEW t \in Token,
         \A q \in Request : q # r => req'[q] = req[q]
  PROVE  /\ (r \in Charged(t) <=> r \in Charged(t)')
               => Cardinality(Charged(t))' = Cardinality(Charged(t))
         /\ (r \in Charged(t) /\ r \notin Charged(t)')
               => Cardinality(Charged(t))' = Cardinality(Charged(t)) - 1
         /\ (r \notin Charged(t) /\ r \in Charged(t)')
               => Cardinality(Charged(t))' = Cardinality(Charged(t)) + 1
<1> DEFINE A == Charged(t)
           B == Charged(t)'
<1>1. A \ {r} = B \ {r}
  BY DEF Charged
<1>2. IsFiniteSet(A)
  BY ChargedCount
<1> HIDE DEF A, B
<1>3. (r \in A <=> r \in B) => B = A
  BY <1>1
<1>4. (r \in A /\ r \notin B) => B = A \ {r}
  BY <1>1
<1>5. (r \notin A /\ r \in B) => B = A \cup {r}
  BY <1>1
<1>6. r \in A => Cardinality(A \ {r}) = Cardinality(A) - 1
  BY <1>2, FS_RemoveElement
<1>7. r \notin A => Cardinality(A \cup {r}) = Cardinality(A) + 1
  BY <1>2, FS_AddElement
<1>8. /\ (r \in A <=> r \in B) => Cardinality(B) = Cardinality(A)
      /\ (r \in A /\ r \notin B) => Cardinality(B) = Cardinality(A) - 1
      /\ (r \notin A /\ r \in B) => Cardinality(B) = Cardinality(A) + 1
  BY <1>3, <1>4, <1>5, <1>6, <1>7
<1> QED BY <1>8 DEF A, B

(* The account is kept by a step that charges no more than it grants.         *)
LEMMA PaidKept ==
  ASSUME ReqOK, ReqOK', RateTypeOK, RateTypeOK', NEW t \in Token, Paid(t),
         \/ /\ granted'[t] = granted[t]
            /\ served'[t] + Cardinality(Charged(t))' <= served[t] + Cardinality(Charged(t))
         \/ /\ granted'[t] = granted[t] + Cost[t]
            /\ served'[t] + Cardinality(Charged(t))' <= served[t] + Cardinality(Charged(t)) + 1
         \/ /\ granted'[t] = 0 /\ served'[t] = 0
            /\ Cardinality(Charged(t))' = Cardinality(Charged(t))
  PROVE  Paid(t)'
<1> DEFINE C == Cost[t]
           a == served[t] + Cardinality(Charged(t))
           b == served'[t] + Cardinality(Charged(t))'
           g == granted[t]
           h == granted'[t]
           n == Cardinality(Request)
<1>1. t \in Key
  BY GateAssumption
<1>2. C \in Nat /\ g \in Nat /\ h \in Nat
  BY <1>1 DEF RateTypeOK
<1>3. /\ Cardinality(Charged(t)) \in Nat /\ n \in Nat /\ Cardinality(Charged(t)) <= n
      /\ served[t] \in Nat /\ served'[t] \in Nat
  BY ChargedCount, GateAssumption DEF ReqOK
<1>4. Cardinality(Charged(t))' \in Nat
  <2>1. Charged(t)' \subseteq Request /\ IsFiniteSet(Request)
    BY GateAssumption DEF Charged
  <2> QED BY <2>1, FS_Subset, FS_CardinalityType
<1>5. a \in Nat /\ b \in Nat /\ C * a <= g + C * n
  BY <1>3, <1>4 DEF Paid
<1>6. \/ h = g /\ b <= a
      \/ h = g + C /\ b <= a + 1
      \/ h = 0 /\ b <= n
  BY <1>3, <1>4
<1> HIDE DEF C, a, b, g, h, n
<1>7. C * b <= h + C * n
  <2>1. CASE h = g /\ b <= a
    <3>1. C * b <= C * a /\ C * b \in Nat /\ C * a \in Nat /\ C * n \in Nat
      BY <1>2, <1>3, <1>5, <2>1, Times
    <3> QED BY <1>2, <1>5, <2>1, <3>1
  <2>2. CASE h = g + C /\ b <= a + 1
    <3>1. C * b <= C * (a + 1) /\ C * (a + 1) = C * a + C /\ C * a \in Nat /\ C * n \in Nat
          /\ C * b \in Nat
      BY <1>2, <1>3, <1>5, <2>2, Times
    <3> QED BY <1>2, <1>5, <2>2, <3>1
  <2>3. CASE h = 0 /\ b <= n
    <3>1. C * b <= C * n /\ C * b \in Nat /\ C * n \in Nat
      BY <1>2, <1>3, <1>5, <2>3, Times
    <3> QED BY <2>3, <3>1
  <2> QED BY <1>6, <2>1, <2>2, <2>3
<1> QED BY <1>7 DEF Paid, C, a, b, g, h, n

LEMMA PaidStep == ReqOK /\ ReqOK' /\ RateTypeOK /\ RateTypeOK' /\ AllPaid /\ [Next]_vars => AllPaid'
<1> SUFFICES ASSUME ReqOK, ReqOK', RateTypeOK, RateTypeOK', AllPaid, [Next]_vars, NEW t \in Token
             PROVE  Paid(t)'
  BY DEF AllPaid
<1> USE DEF Steps
<1>0. /\ Paid(t) /\ t \in Key /\ served[t] \in Nat /\ Cardinality(Charged(t)) \in Nat
      /\ granted[t] \in Nat /\ Cost[t] \in Nat
  BY ChargedCount, GateAssumption DEF AllPaid, ReqOK, RateTypeOK
<1>1. CASE UNCHANGED vars
  <2>1. Charged(t)' = Charged(t) /\ granted' = granted /\ served' = served
    BY <1>1 DEF vars, rateVars, Charged
  <2> QED BY <1>0, <2>1, PaidKept
<1>2. ASSUME NEW r \in Request, NEW a \in Addr, NEW u \in Token, NEW route \in Route,
             Arrive(r, a, u, route)
      PROVE  Paid(t)'
  <2>1. req[r] = Idle /\ req'[r].at = "address" /\ \A q \in Request : q # r => req'[q] = req[q]
    BY <1>2 DEF Arrive, ReqOK
  <2>2. r \notin Charged(t) /\ r \notin Charged(t)'
    BY <2>1 DEF Charged, Idle
  <2>3. granted' = granted /\ served' = served
    BY <1>2 DEF Arrive, rateVars
  <2>4. Cardinality(Charged(t))' = Cardinality(Charged(t))
    BY <2>1, <2>2, ChargedStep
  <2> QED BY <1>0, <2>3, <2>4, PaidKept
<1>3. ASSUME NEW r \in Request, ipRateLimit(r) PROVE Paid(t)'
  <2>1. req[r] \in Coming /\ req[r].addr \in Addr /\ req[r].at = "address" /\ served' = served
    BY <1>3, InStep DEF ipRateLimit, Coming
  <2>2. PICK to \in Steps \cup {"idle"} :
          /\ Goes(r, to)
          /\ to \in {"validate", "device", "handler"} => req[r].route # "protected"
    <3>1. req[r].route \in Route /\ Route \subseteq {"public", "protected", "ws"}
      BY <2>1, GateAssumption DEF Coming
    <3> QED BY <1>3, <3>1 DEF ipRateLimit
  <2>3. /\ \A q \in Request : q # r => req'[q] = req[q]
        /\ req'[r].at = to /\ (to \in Steps => req'[r].route = req[r].route)
    BY <2>1, <2>2, GoesWhere
  <2>4. r \notin Charged(t) /\ r \notin Charged(t)'
    BY <2>1, <2>2, <2>3 DEF Charged
  <2>5. granted'[t] = granted[t]
    BY <1>3, <2>1, GateAssumption DEF ipRateLimit, Grant, Refuse, RateTypeOK
  <2>6. Cardinality(Charged(t))' = Cardinality(Charged(t))
    BY <2>3, <2>4, ChargedStep
  <2> QED BY <1>0, <2>1, <2>5, <2>6, PaidKept
<1>4. ASSUME NEW r \in Request, ChargeToken(r) PROVE Paid(t)'
  <2>1. /\ req[r] \in Coming /\ req[r].token \in Token /\ req[r].at = "charge" /\ served' = served
        /\ r \notin Charged(t)
    BY <1>4, InStep DEF ChargeToken, Coming, Charged
  <2>2. CASE Grant(req[r].token) /\ Goes(r, "validate")
    <3>1. /\ \A q \in Request : q # r => req'[q] = req[q]
          /\ req'[r].at = "validate" /\ req'[r].token = req[r].token
      BY <2>1, <2>2, GoesWhere
    <3>2. CASE req[r].token = t
      <4>1. granted'[t] = granted[t] + Cost[t]
        BY <1>0, <2>2, <3>2 DEF Grant, RateTypeOK
      <4>2. Cardinality(Charged(t))' \in {Cardinality(Charged(t)), Cardinality(Charged(t)) + 1}
        BY <2>1, <3>1, ChargedStep
      <4> QED BY <1>0, <2>1, <4>1, <4>2, PaidKept
    <3>3. CASE req[r].token # t
      <4>1. granted'[t] = granted[t]
        BY <1>0, <2>1, <2>2, <3>3 DEF Grant, RateTypeOK
      <4>2. r \notin Charged(t)'
        BY <3>1, <3>3 DEF Charged
      <4>3. Cardinality(Charged(t))' = Cardinality(Charged(t))
        BY <2>1, <3>1, <4>2, ChargedStep
      <4> QED BY <1>0, <2>1, <4>1, <4>3, PaidKept
    <3> QED BY <3>2, <3>3
  <2>3. CASE Refuse(req[r].token) /\ Goes(r, "idle")
    <3>1. (\A q \in Request : q # r => req'[q] = req[q]) /\ req'[r].at = "idle"
      BY <2>1, <2>3, GoesWhere
    <3>2. r \notin Charged(t)' /\ granted' = granted
      BY <2>3, <3>1 DEF Charged, Refuse
    <3>3. Cardinality(Charged(t))' = Cardinality(Charged(t))
      BY <2>1, <3>1, <3>2, ChargedStep
    <3> QED BY <1>0, <2>1, <3>2, <3>3, PaidKept
  <2> QED BY <1>4, <2>2, <2>3 DEF ChargeToken
<1>5. ASSUME NEW r \in Request, Validate(r) \/ CheckDevice(r) PROVE Paid(t)'
  <2>1. /\ req[r] \in Coming /\ req[r].at \in {"validate", "device"} /\ served' = served
        /\ granted' = granted
    BY <1>5, InStep DEF Validate, CheckDevice, rateVars
  <2>2. PICK to \in {"device", "handler", "idle"} : Goes(r, to)
    BY <1>5 DEF Validate, CheckDevice
  <2>3. /\ \A q \in Request : q # r => req'[q] = req[q]
        /\ req'[r].at = to
        /\ to # "idle" => req'[r].route = req[r].route /\ req'[r].token = req[r].token
    BY <2>1, <2>2, GoesWhere
  <2>4. r \in Charged(t)' => r \in Charged(t)
    BY <2>1, <2>3 DEF Charged
  <2>5. Cardinality(Charged(t))' \in {Cardinality(Charged(t)), Cardinality(Charged(t)) - 1}
    BY <2>3, <2>4, ChargedStep
  <2> QED BY <1>0, <2>1, <2>5, PaidKept
<1>6. ASSUME NEW r \in Request, Handle(r) PROVE Paid(t)'
  <2>1. /\ req[r] \in Coming /\ req[r].at = "handler" /\ req[r].token \in Token /\ granted' = granted
    BY <1>6, InStep DEF Handle, Coming, rateVars
  <2>2. (\A q \in Request : q # r => req'[q] = req[q]) /\ req'[r].at = "idle"
    BY <1>6, <2>1, GoesWhere DEF Handle
  <2>3. r \notin Charged(t)'
    BY <2>2 DEF Charged
  <2>4. CASE r \in Charged(t)
    <3>1. served'[t] = served[t] + 1
      BY <1>6, <2>4 DEF Handle, Charged, ReqOK
    <3>2. Cardinality(Charged(t))' = Cardinality(Charged(t)) - 1
      BY <2>2, <2>3, <2>4, ChargedStep
    <3> QED BY <1>0, <2>1, <3>1, <3>2, PaidKept
  <2>5. CASE r \notin Charged(t)
    <3>1. served'[t] = served[t]
      BY <1>6, <2>1, <2>5 DEF Handle, Charged, ReqOK
    <3>2. Cardinality(Charged(t))' = Cardinality(Charged(t))
      BY <2>2, <2>3, <2>5, ChargedStep
    <3> QED BY <1>0, <2>1, <3>1, <3>2, PaidKept
  <2> QED BY <2>4, <2>5
<1>7. CASE Passing
  <2>1. Charged(t)' = Charged(t)
    BY <1>7 DEF Passing, Charged
  <2>2. \/ granted' = granted /\ served' = served
        \/ granted'[t] = 0 /\ served'[t] = 0
    BY <1>0, <1>7 DEF Passing, Tick, OpenWindow, Cleanup
  <2> QED BY <1>0, <2>1, <2>2, PaidKept
<1> QED BY <1>1, <1>2, <1>3, <1>4, <1>5, <1>6, <1>7 DEF Next

(* For any number of requests in progress, protected handlers run for a token *)
(* in any window within its budget, and one for each request in progress.     *)
THEOREM HandlersAreBounded == Spec => []ServedBound
<1>1. GateInit => AllPaid
  <2> SUFFICES ASSUME GateInit, NEW t \in Token PROVE Paid(t)
    BY DEF AllPaid
  <2>1. Charged(t) = {}
    BY DEF GateInit, Charged, Idle
  <2>2. served[t] + Cardinality(Charged(t)) = 0 /\ granted[t] = 0 /\ Cost[t] \in Nat
    BY <2>1, FS_EmptySet, GateAssumption DEF GateInit, RateInit
  <2>3. Cardinality(Request) \in Nat
    BY ChargedCount
  <2>4. Cost[t] * Cardinality(Request) \in Nat /\ Cost[t] * 0 = 0
    BY <2>2, <2>3
  <2> QED BY <2>2, <2>4 DEF Paid
<1>2. Inv /\ ReqOK /\ AllPaid => ServedBound
  <2> SUFFICES ASSUME Inv, ReqOK, AllPaid, NEW t \in Token
               PROVE  Cost[t] * (served[t] + Cardinality(Charged(t)))
                        <= Full(t) + (now - start) + Cost[t] * Cardinality(Request)
    BY DEF ServedBound
  <2> DEFINE x == Cost[t] * (served[t] + Cardinality(Charged(t)))
             y == Cost[t] * Cardinality(Request)
  <2>1. t \in Key
    BY GateAssumption
  <2>2. x <= granted[t] + y
    BY DEF AllPaid, Paid
  <2>3. /\ granted[t] + Filled(t) <= Full(t) + (now - start) /\ Filled(t) \in 0 .. Full(t)
        /\ granted[t] \in Nat /\ Full(t) \in Nat /\ now \in Nat /\ start \in Nat /\ start <= now
    BY <2>1, FilledRange DEF Inv, WindowBound
  <2>4. x \in Nat /\ y \in Nat
    BY <2>1, ChargedCount, FilledRange, Times, GateAssumption DEF ReqOK, Inv
  <2> HIDE DEF x, y
  <2>5. x <= Full(t) + (now - start) + y
    BY <2>2, <2>3, <2>4
  <2> QED BY <2>5 DEF x, y
<1>3. Inv => RateTypeOK
  BY DEF Inv
<1> QED BY <1>1, <1>2, <1>3, PaidStep, ReqAlways, InvAlways, PTL DEF Spec
=============================================================================
