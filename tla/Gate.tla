--------------------------------- MODULE Gate ---------------------------------
(* What a request passes before its handler runs, agent/internal/server:      *)
(* ipRateLimit on every route, then on the protected ones authMiddleware,     *)
(* which charges the token before it validates it, and on /ws                 *)
(* wsAuthMiddleware, which does not charge it.                                *)
EXTENDS RateLimit, FiniteSets

CONSTANTS
  Addr, Token,  \* the keys of limiterIP and of limiterToken
  Device,       \* the device each token was issued to
  Request,      \* requests in progress at a time
  Route,        \* "public", "protected", "ws"
  MaxServed     \* bound on the requests counted for a token

ASSUME GateAssumption == /\ Key = Addr \cup Token /\ Addr \cap Token = {}
                         /\ IsFiniteSet(Request) /\ MaxServed \in Nat
                         /\ Route \subseteq {"public", "protected", "ws"}

VARIABLES
  req,      \* the requests
  revoked,  \* devices the store has revoked
  served    \* requests of each token that protected handlers ran for in the window

vars == <<rateVars, req, revoked, served>>

Idle == [at |-> "idle"]
GateInit == /\ RateInit /\ req = [r \in Request |-> Idle]
            /\ revoked = {} /\ served = [t \in Token |-> 0]

Goes(r, to) == req' = [req EXCEPT ![r] = IF to = "idle" THEN Idle ELSE [@ EXCEPT !.at = to]]

(* late is remembered for the property only: the device was revoked already.  *)
Arrive(r, a, t, route) ==
  /\ req[r] = Idle
  /\ req' = [req EXCEPT ![r] = [at |-> "address", addr |-> a, token |-> t, route |-> route,
                                late |-> Device[t] \in revoked]]
  /\ UNCHANGED <<rateVars, revoked, served>>

ipRateLimit(r) ==
  /\ req[r].at = "address"
  /\ \/ /\ Grant(req[r].addr)
        /\ Goes(r, CASE req[r].route = "public" -> "handler"
                     [] req[r].route = "protected" -> "charge"
                     [] req[r].route = "ws" -> "validate")
     \/ Refuse(req[r].addr) /\ Goes(r, "idle")
  /\ UNCHANGED <<revoked, served>>

ChargeToken_Logs(r) ==
  /\ req[r].at = "charge"
  /\ \/ Grant(req[r].token) /\ Goes(r, "validate")
     \/ Refuse(req[r].token) /\ Goes(r, "validate")
  /\ UNCHANGED <<revoked, served>>

ChargeToken(r) ==
  /\ req[r].at = "charge"
  /\ \/ Grant(req[r].token) /\ Goes(r, "validate")
     \/ Refuse(req[r].token) /\ Goes(r, "idle")
  /\ UNCHANGED <<revoked, served>>

(* The signature and the expiry of the token: either may be wrong.            *)
Validate(r) == /\ req[r].at = "validate"
               /\ Goes(r, "idle") \/ Goes(r, "device")
               /\ UNCHANGED <<rateVars, revoked, served>>

CheckDevice_Skipped(r) == /\ req[r].at = "device"
                          /\ Goes(r, "handler")
                          /\ UNCHANGED <<rateVars, revoked, served>>

CheckDevice(r) == /\ req[r].at = "device"
                  /\ Goes(r, IF Device[req[r].token] \in revoked THEN "idle" ELSE "handler")
                  /\ UNCHANGED <<rateVars, revoked, served>>

(* The handler runs, and may be the one that revokes the device.              *)
Handle(r) == /\ req[r].at = "handler"
             /\ LET t == req[r].token  counts == req[r].route = "protected" IN
                /\ served[t] < MaxServed
                /\ served' = IF counts THEN [served EXCEPT ![t] = @ + 1] ELSE served
                /\ revoked' \in {revoked, IF counts THEN revoked \cup {Device[t]} ELSE revoked}
             /\ Goes(r, "idle")
             /\ UNCHANGED rateVars

(* The clock, the janitor, and a new window of observation.                   *)
Passing == /\ \/ Tick /\ UNCHANGED served
              \/ OpenWindow /\ served' = [t \in Token |-> 0]
              \/ (\E age \in CleanupAges : Cleanup(age)) /\ UNCHANGED served
           /\ UNCHANGED <<req, revoked>>

Next == \/ \E r \in Request : \/ \E a \in Addr, t \in Token, route \in Route : Arrive(r, a, t, route)
                              \/ ipRateLimit(r) \/ ChargeToken(r) \/ Validate(r)
                              \/ CheckDevice(r) \/ Handle(r)
        \/ Passing

Spec == GateInit /\ [][Next]_vars

-----------------------------------------------------------------------------
Steps == {"address", "charge", "validate", "device", "handler"}
TypeOK == /\ RateTypeOK
          /\ req \in [Request -> {Idle} \cup [at : Steps, addr : Addr, token : Token,
                                              route : Route, late : BOOLEAN]]
          /\ revoked \subseteq {Device[t] : t \in Token}
          /\ served \in [Token -> 0 .. MaxServed]

(* Requests of a token that were charged and have not been handled.           *)
Charged(t) == {r \in Request : /\ req[r].at \in {"validate", "device", "handler"}
                               /\ req[r].route = "protected" /\ req[r].token = t}

(* Whatever is in flight, protected handlers run for a token in any window    *)
(* within its budget, and one for each request that was charged before it.    *)
ServedBound == \A t \in Token :
  Cost[t] * (served[t] + Cardinality(Charged(t)))
    <= Full(t) + (now - start) + Cost[t] * Cardinality(Request)

(* Every middleware reads the store when its turn comes: no handler runs for  *)
(* a request that came after its device was revoked.                          *)
RevokedIsRefused == \A r \in Request :
  (req[r].at = "handler" /\ req[r].route # "public") => ~req[r].late
=============================================================================
