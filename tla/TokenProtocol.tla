---------------------------- MODULE TokenProtocol ----------------------------
(* Refreshing access tokens from end to end: the app's _refreshAccessToken    *)
(* with its single-flight lock and its secure storage, a network that loses   *)
(* and delays, and the agent's handleRefresh, which revokes a device whose    *)
(* token comes twice.  The agent is atomic here; AuthStore is its inside.     *)
EXTENDS Integers

CONSTANTS
  Caller,       \* API calls, polls and sockets of the app that want a token
  Device,       \* the enrollments of the app with this agent, in turn
  MaxRequests,  \* bound on the refresh requests ever sent
  MayLose,      \* whether requests, answers or the app itself may be lost
  None

ASSUME TokenProtocolAssumption == /\ MaxRequests \in Nat /\ MayLose \in BOOLEAN
                                  /\ None \notin Caller \cup Device

VARIABLES
  lock,      \* _refreshLock: the caller that completes it, or None
  caller,    \* where each caller is, with the token in its hands
  stored,    \* the refresh token in secure storage
  row,       \* the server in the database: there, being deleted, or gone
  enrolled,  \* the token addServer has been given and not saved yet
  next,      \* the token of each device the agent expects
  revoked,   \* the devices the agent has revoked
  requests,  \* refresh requests under way
  answers,   \* answers under way to callers that still wait
  sent,      \* how many requests were sent
  lost       \* an answer was given up, the app died in a refresh, or a Persist failed

vars == <<lock, caller, stored, row, enrolled, next, revoked, requests, answers, sent, lost>>

\* The n-th refresh token of a device: rotation replaces n by n + 1.
Token   == [device : Device, n : 0 .. MaxRequests]
Request == [id : 1 .. MaxRequests, by : Caller \cup {None}, token : Token]
Refused == [device |-> None, n |-> 0]
NoToken == [device |-> None, n |-> 1]
NotEnrolled == -1
Idle    == [pc |-> "idle", token |-> NoToken]

Valid(t) == t.device \notin revoked /\ next[t.device] = t.n

Init == /\ lock = None /\ caller = [c \in Caller |-> Idle]
        /\ \E d \in Device : /\ stored = [device |-> d, n |-> 0]
                             /\ next = [e \in Device |-> IF e = d THEN 0 ELSE NotEnrolled]
        /\ row = "there" /\ enrolled = NoToken /\ revoked = {}
        /\ requests = {} /\ answers = {} /\ sent = 0 /\ lost = FALSE

-----------------------------------------------------------------------------
(* A 401, a poll or a socket calls _refreshAccessToken.                       *)
Call(c) == /\ caller[c].pc = "idle"
           /\ caller' = [caller EXCEPT ![c] = [pc |-> "waiting", token |-> NoToken]]
           /\ UNCHANGED <<lock, stored, row, enrolled, next, revoked, requests, answers, sent, lost>>

(* The loop on _refreshLock: the test and the new Completer are one step.     *)
Acquire_If(c) == /\ caller[c].pc = "waiting"
                 /\ lock' = c
                 /\ caller' = [caller EXCEPT ![c] = [pc |-> "read", token |-> NoToken]]
                 /\ UNCHANGED <<stored, row, enrolled, next, revoked, requests, answers, sent, lost>>

Acquire(c) == /\ caller[c].pc = "waiting" /\ lock = None
              /\ lock' = c
              /\ caller' = [caller EXCEPT ![c] = [pc |-> "read", token |-> NoToken]]
              /\ UNCHANGED <<stored, row, enrolled, next, revoked, requests, answers, sent, lost>>

(* The Completer completes and the lock is set to null in one step.           *)
Release(c) == lock' = None /\ caller' = [caller EXCEPT ![c] = Idle]

ReadStored_Retries(c) ==
  /\ caller[c].pc = "read"
  /\ IF stored = NoToken THEN /\ lock' = None
                              /\ caller' = [caller EXCEPT ![c] = [pc |-> "waiting", token |-> NoToken]]
     ELSE /\ caller' = [caller EXCEPT ![c] = [pc |-> "lookup", token |-> stored]]
          /\ UNCHANGED lock
  /\ UNCHANGED <<stored, row, enrolled, next, revoked, requests, answers, sent, lost>>

ReadStored(c) == /\ caller[c].pc = "read"
                 /\ IF stored = NoToken THEN Release(c)
                    ELSE /\ caller' = [caller EXCEPT ![c] = [pc |-> "lookup", token |-> stored]]
                         /\ UNCHANGED lock
                 /\ UNCHANGED <<stored, row, enrolled, next, revoked, requests, answers, sent, lost>>

(* getServer throws when the row is gone.                                     *)
NoRow(c) == /\ caller[c].pc = "lookup" /\ row # "there"
            /\ Release(c)
            /\ UNCHANGED <<stored, row, enrolled, next, revoked, requests, answers, sent, lost>>

Send(c) == /\ caller[c].pc = "lookup" /\ row = "there" /\ sent < MaxRequests
           /\ sent' = sent + 1
           /\ requests' = requests \cup {[id |-> sent + 1, by |-> c, token |-> caller[c].token]}
           /\ caller' = [caller EXCEPT ![c] = [pc |-> "sent", token |-> NoToken]]
           /\ UNCHANGED <<lock, stored, row, enrolled, next, revoked, answers, lost>>

(* handleRefresh: the expected token is rotated, any other revokes its device.*)
Serve(q) ==
  /\ requests' = requests \ {q}
  /\ LET t == q.token
         answer == IF Valid(t) THEN [t EXCEPT !.n = @ + 1] ELSE Refused
     IN /\ next' = IF Valid(t) THEN [next EXCEPT ![t.device] = @ + 1] ELSE next
        /\ revoked' = IF Valid(t) THEN revoked ELSE revoked \cup {t.device}
        /\ answers' = IF q.by = None THEN answers
                      ELSE answers \cup {[to |-> q.by, token |-> answer]}
  /\ UNCHANGED <<lock, caller, stored, row, enrolled, sent, lost>>

(* The rotation is done when Persist fails: the answer is a 500.              *)
ServeUnsaved(q) ==
  /\ MayLose /\ Valid(q.token) /\ lost' = TRUE
  /\ requests' = requests \ {q}
  /\ next' = [next EXCEPT ![q.token.device] = @ + 1]
  /\ answers' = IF q.by = None THEN answers ELSE answers \cup {[to |-> q.by, token |-> Refused]}
  /\ UNCHANGED <<lock, caller, stored, row, enrolled, revoked, sent>>

(* A 401 or 500 makes post throw: the lock is released, the stored token      *)
(* stays.                                                                     *)
Answered(c) == \E a \in answers :
  /\ caller[c].pc = "sent" /\ a.to = c
  /\ answers' = answers \ {a}
  /\ IF a.token = Refused THEN Release(c)
     ELSE /\ caller' = [caller EXCEPT ![c] = [pc |-> "save access", token |-> a.token]]
          /\ UNCHANGED lock
  /\ UNCHANGED <<stored, row, enrolled, next, revoked, requests, sent, lost>>

(* The access token is saved first, then the refresh token, two awaits.       *)
SaveAccess(c) == /\ caller[c].pc = "save access"
                 /\ caller' = [caller EXCEPT ![c] = [pc |-> "save refresh", token |-> @.token]]
                 /\ UNCHANGED <<lock, stored, row, enrolled, next, revoked, requests, answers, sent, lost>>

SaveRefresh_NotSaved(c) == /\ caller[c].pc = "save refresh"
                           /\ Release(c)
                           /\ UNCHANGED <<stored, row, enrolled, next, revoked, requests, answers, sent, lost>>

SaveRefresh(c) == /\ caller[c].pc = "save refresh"
                  /\ stored' = caller[c].token
                  /\ Release(c)
                  /\ UNCHANGED <<row, enrolled, next, revoked, requests, answers, sent, lost>>

-----------------------------------------------------------------------------
(* receiveTimeout: the caller gives up; its request may yet arrive.           *)
Orphan(q, S) == IF q.by \in S THEN [q EXCEPT !.by = None] ELSE q

GiveUp(S) == /\ requests' = {Orphan(q, S) : q \in requests}
             /\ answers' = {a \in answers : a.to \notin S}

Timeout(c) == /\ MayLose /\ caller[c].pc = "sent"
              /\ GiveUp({c}) /\ Release(c) /\ lost' = TRUE
              /\ UNCHANGED <<stored, row, enrolled, next, revoked, sent>>

LoseRequest == /\ MayLose
               /\ \E q \in requests : q.by = None /\ requests' = requests \ {q}
               /\ UNCHANGED <<lock, caller, stored, row, enrolled, next, revoked, answers, sent, lost>>

(* The app is killed and started again: only storage and database remain.     *)
AppRestarts == /\ MayLose
               /\ GiveUp(Caller)
               /\ lock' = None /\ caller' = [c \in Caller |-> Idle]
               /\ enrolled' = NoToken
               /\ row' = IF row = "there" THEN "there" ELSE "gone"
               /\ lost' = (lost \/ \E c \in Caller :
                             caller[c].pc \in {"sent", "save access", "save refresh"})
               /\ UNCHANGED <<stored, next, revoked, sent>>

(* deleteServer removes the row, then the tokens; it takes no lock.           *)
DeleteRow == /\ row = "there" /\ row' = "deleting"
             /\ UNCHANGED <<lock, caller, stored, enrolled, next, revoked, requests, answers, sent, lost>>

DeleteTokens == /\ row = "deleting" /\ row' = "gone" /\ stored' = NoToken
                /\ UNCHANGED <<lock, caller, enrolled, next, revoked, requests, answers, sent, lost>>

(* addServer for an agent whose row exists enrolls a new device and saves its *)
(* tokens over the old ones, with no lock either.                             *)
Enroll(d) == /\ next[d] = NotEnrolled /\ row = "there" /\ enrolled = NoToken
             /\ next' = [next EXCEPT ![d] = 0]
             /\ enrolled' = [device |-> d, n |-> 0]
             /\ UNCHANGED <<lock, caller, stored, row, revoked, requests, answers, sent, lost>>

SaveEnrolled == /\ enrolled # NoToken
                /\ stored' = enrolled /\ enrolled' = NoToken
                /\ UNCHANGED <<lock, caller, row, next, revoked, requests, answers, sent, lost>>

CallerStep(c) == \/ Call(c) \/ Acquire(c) \/ ReadStored(c) \/ NoRow(c) \/ Send(c)
                 \/ Answered(c) \/ SaveAccess(c) \/ SaveRefresh(c) \/ Timeout(c)

Next == \/ \E c \in Caller : CallerStep(c)
        \/ \E q \in requests : Serve(q) \/ ServeUnsaved(q)
        \/ LoseRequest \/ AppRestarts \/ DeleteRow \/ DeleteTokens
        \/ SaveEnrolled
        \/ \E d \in Device : Enroll(d)

Spec == Init /\ [][Next]_vars

(* Futures complete: storage answers, a request is answered or times out.     *)
(* The waiters of the lock are woken in the order they came, so none is       *)
(* passed over for ever.                                                      *)
Fairness == \A c \in Caller :
  /\ SF_vars(Acquire(c))
  /\ WF_vars(ReadStored(c) \/ NoRow(c) \/ Send(c) \/ SaveAccess(c) \/ SaveRefresh(c))
  /\ WF_vars(Answered(c) \/ Timeout(c) \/ \E q \in requests : q.by = c /\ Serve(q))

FairSpec == Spec /\ Fairness

-----------------------------------------------------------------------------
Holding == {"read", "lookup", "sent", "save access", "save refresh"}

TypeOK ==
  /\ lock \in Caller \cup {None} /\ row \in {"there", "deleting", "gone"} /\ lost \in BOOLEAN
  /\ caller \in [Caller -> [pc : Holding \cup {"idle", "waiting"}, token : Token \cup {NoToken}]]
  /\ {stored, enrolled} \subseteq Token \cup {NoToken}
  /\ next \in [Device -> NotEnrolled .. MaxRequests] /\ revoked \subseteq Device
  /\ requests \subseteq Request /\ sent \in 0 .. MaxRequests
  /\ answers \subseteq [to : Caller, token : Token \cup {Refused}]
  /\ lock # None => caller[lock].pc \in Holding

(* "Uses a single-flight guard to prevent concurrent refreshes from revoking  *)
(* the entire device": the app gets its own device revoked only after it gave *)
(* up an answer, died in the middle of a refresh, or the agent could not save *)
(* a rotation.                                                                *)
RevokedOnlyAfterLoss == revoked # {} => lost

(* Unless that happened, the stored refresh token is one the agent will take, *)
(* except while a refresh with it is going on.                                *)
StoredIsValid == (~lost /\ lock = None /\ stored # NoToken) => Valid(stored)

(* Whoever waits for a fresh token gets an answer: no path leaves the lock.   *)
EveryCallReturns == \A c \in Caller :
  caller[c].pc = "waiting" ~> (caller[c].pc = "idle" \/ sent = MaxRequests)
=============================================================================
