-------------------------- MODULE TokenProtocolProof --------------------------
(***************************************************************************)
(* For any number of callers, enrollments and requests: as long as no       *)
(* answer was given up, the app did not die in a refresh and the agent      *)
(* could save, the agent never revokes a device of the app, and the stored  *)
(* token is one it takes. Whatever was lost, every token anyone has is one  *)
(* the agent issued.                                                        *)
(***************************************************************************)
EXTENDS TokenProtocol, FiniteSetTheorems, TLAPS

Tok == [device : Device, n : Nat]

\* The caller has a token in its hands.
InHand(c) == caller[c].pc \in {"lookup", "save access", "save refresh"}

\* What the variables are, with no bound on the counter of a token, and that
\* the lock is held exactly by the caller inside the guarded section.
Types ==
  /\ lock \in Caller \cup {None} /\ lost \in BOOLEAN
  /\ caller \in [Caller -> [pc : Holding \cup {"idle", "waiting"}, token : Tok \cup {NoToken}]]
  /\ stored \in Tok \cup {NoToken} /\ enrolled \in Tok \cup {NoToken}
  /\ next \in [Device -> Nat \cup {NotEnrolled}]
  /\ requests \subseteq [id : Int, by : Caller \cup {None}, token : Tok]
  /\ answers \subseteq [to : Caller, token : Tok \cup {Refused}]
  /\ sent \in Int
  /\ \A c \in Caller : caller[c].pc \in Holding <=> lock = c
  /\ \A c \in Caller : InHand(c) => caller[c].token \in Tok

\* A token the agent takes, not of the enrollment that is being saved.
Sure(t) == t \in Tok /\ Valid(t) /\ (enrolled # NoToken => t.device # enrolled.device)

Renewing(c) == caller[c].pc \in {"sent", "save access", "save refresh"}

\* Every request and every answer belongs to a caller that waits for it, and
\* there is one of them at a time.
OneExchange ==
  /\ \A q \in requests : q.by \in Caller /\ caller[q.by].pc = "sent" /\ Sure(q.token)
  /\ \A a \in answers : caller[a.to].pc = "sent" /\ Sure(a.token)
  /\ \A q, r \in requests : q = r
  /\ \A a, b \in answers : a = b
  /\ requests = {} \/ answers = {}

EnrolledIsNew == enrolled # NoToken => Valid(enrolled)

\* The stored token may be used up only while its successor is on the way to
\* the storage.
StoredIsCurrent ==
  stored # NoToken =>
    /\ next[stored.device] # NotEnrolled
    /\ enrolled # NoToken => stored.device # enrolled.device
    /\ Valid(stored) \/ \E c \in Caller : Renewing(c)

Good == /\ revoked = {}
        /\ OneExchange
        /\ \A c \in Caller : InHand(c) => Sure(caller[c].token)
        /\ EnrolledIsNew
        /\ StoredIsCurrent

IInv == Types /\ (~lost => Good)

-----------------------------------------------------------------------------
LEMMA Distinct == /\ NoToken \notin Tok /\ Refused \notin Tok /\ NoToken # Refused
                  /\ None \notin Caller /\ None \notin Device
                  /\ NotEnrolled \notin Nat
  BY TokenProtocolAssumption DEF NoToken, Refused, Tok, NotEnrolled

LEMMA InitIInv == Init => IInv
<1> SUFFICES ASSUME Init PROVE IInv
  OBVIOUS
<1> USE Distinct
<1>1. PICK d \in Device : /\ stored = [device |-> d, n |-> 0]
                          /\ next = [e \in Device |-> IF e = d THEN 0 ELSE NotEnrolled]
  BY DEF Init
<1>2. stored \in Tok /\ Valid(stored) /\ next[d] = 0
  BY <1>1 DEF Tok, Valid, Init
<1>3. Types
  <2>1. next \in [Device -> Nat \cup {NotEnrolled}]
    BY <1>1
  <2>2. caller \in [Caller -> [pc : Holding \cup {"idle", "waiting"}, token : Tok \cup {NoToken}]]
    BY DEF Init, Idle
  <2>3. \A c \in Caller : caller[c].pc \in Holding <=> lock = c
    BY DEF Init, Idle, Holding
  <2>4. \A c \in Caller : ~InHand(c)
    BY DEF Init, Idle, InHand
  <2>5. /\ lock = None /\ lost = FALSE /\ enrolled = NoToken
        /\ requests = {} /\ answers = {} /\ sent = 0
    BY DEF Init
  <2>6. /\ requests \subseteq [id : Int, by : Caller \cup {None}, token : Tok]
        /\ answers \subseteq [to : Caller, token : Tok \cup {Refused}]
    BY <2>5
  <2>7. lock \in Caller \cup {None} /\ enrolled \in Tok \cup {NoToken} /\ stored \in Tok \cup {NoToken}
    BY <1>2, <2>5
  <2>8. lost \in BOOLEAN
    BY <2>5, Zenon
  <2>9. sent \in Int
    BY <2>5
  <2> QED BY ONLY <2>1, <2>2, <2>3, <2>4, <2>6, <2>7, <2>8, <2>9 DEF Types
<1>4. Good
  BY <1>1, <1>2 DEF Good, OneExchange, EnrolledIsNew, StoredIsCurrent, Init, Idle,
                    InHand, Renewing, NotEnrolled, Tok
<1> QED BY <1>3, <1>4 DEF IInv

-----------------------------------------------------------------------------
(* Steps of a caller that leave the agent and the network alone.            *)

\* A caller goes on with a token t in its hands, outside of an exchange.
LEMMA CallerMoves ==
  ASSUME IInv, NEW c \in Caller, NEW pc, NEW t,
         caller' = [caller EXCEPT ![c] = [pc |-> pc, token |-> t]],
         caller[c].pc # "sent",
         pc \in (Holding \ {"sent"}) \cup {"idle", "waiting"},
         t \in Tok \cup {NoToken},
         pc \in {"lookup", "save access", "save refresh"} => t \in Tok,
         pc \in Holding => (lock = None \/ lock = c) /\ lock' = c,
         pc \notin Holding => lock' = IF lock = c THEN None ELSE lock,
         pc \in {"lookup", "save access", "save refresh"} => (~lost => Sure(t)),
         Renewing(c) => pc \in {"save access", "save refresh"},
         UNCHANGED <<stored, enrolled, next, revoked, requests, answers, sent, lost>>
  PROVE  IInv'
<1> USE Distinct
<1>1. Types'
  BY DEF IInv, Types, Holding, InHand
<1>2. \A e \in Caller : e # c => caller'[e] = caller[e]
  BY DEF IInv, Types
<1>3. caller'[c].pc = pc /\ caller'[c].token = t
  BY DEF IInv, Types
<1>4. ASSUME ~lost PROVE Good'
  <2>1. Good
    BY <1>4 DEF IInv
  <2>2. \A u : Sure(u)' <=> Sure(u)
    BY DEF Sure, Valid
  <2>3. OneExchange'
    BY <1>2, <2>1, <2>2 DEF Good, OneExchange, IInv, Types
  <2>4. \A e \in Caller : InHand(e)' => Sure(caller[e].token)'
    BY <1>2, <1>3, <1>4, <2>1, <2>2 DEF Good, InHand
  <2>5. StoredIsCurrent'
    BY <1>2, <1>3, <2>1 DEF Good, StoredIsCurrent, Renewing, Valid
  <2> QED BY <2>1, <2>3, <2>4, <2>5 DEF Good, EnrolledIsNew, Valid
<1> QED BY <1>1, <1>4 DEF IInv

LEMMA CallerKeepsIInv ==
  ASSUME IInv, NEW c \in Caller,
         Call(c) \/ Acquire(c) \/ ReadStored(c) \/ NoRow(c) \/ SaveAccess(c)
  PROVE  IInv'
<1> USE Distinct
<1>1. caller[c] \in [pc : Holding \cup {"idle", "waiting"}, token : Tok \cup {NoToken}]
  BY DEF IInv, Types
<1>2. caller[c].pc \in Holding <=> lock = c
  BY DEF IInv, Types
<1>3. CASE Call(c)
  BY <1>2, <1>3, CallerMoves DEF Call, Holding, Renewing
<1>4. CASE Acquire(c)
  BY <1>2, <1>4, CallerMoves DEF Acquire, Holding, Renewing
<1>5. CASE ReadStored(c)
  <2>1. caller[c].pc = "read" /\ lock = c
    BY <1>2, <1>5 DEF ReadStored, Holding
  <2>2. CASE stored = NoToken
    BY <2>1, <2>2, <1>5, CallerMoves DEF ReadStored, Release, Idle, Holding, Renewing
  <2>3. CASE stored # NoToken
    <3>1. ~\E e \in Caller : Renewing(e)
      BY <2>1 DEF IInv, Types, Renewing, Holding
    <3>2. ~lost => Sure(stored)
      BY <2>3, <3>1 DEF IInv, Types, Good, StoredIsCurrent, Sure
    <3>3. stored \in Tok
      BY <2>3 DEF IInv, Types
    <3> QED BY <2>1, <2>3, <3>2, <3>3, <1>5, CallerMoves DEF ReadStored, Holding, Renewing
  <2> QED BY <2>2, <2>3
<1>6. CASE NoRow(c)
  <2>1. caller[c].pc = "lookup" /\ lock = c
    BY <1>2, <1>6 DEF NoRow, Holding
  <2> QED BY <2>1, <1>6, CallerMoves DEF NoRow, Release, Idle, Holding, Renewing
<1>7. CASE SaveAccess(c)
  <2>1. caller[c].pc = "save access" /\ lock = c
    BY <1>2, <1>7 DEF SaveAccess, Holding
  <2>2. caller' = [caller EXCEPT ![c] = [pc |-> "save refresh", token |-> caller[c].token]]
    BY <1>7 DEF SaveAccess
  <2>3. caller[c].token \in Tok /\ (~lost => Sure(caller[c].token))
    BY <2>1 DEF IInv, Types, Good, InHand
  <2> QED BY <1>1, <2>1, <2>2, <2>3, <1>7, CallerMoves DEF SaveAccess, Holding, Renewing
<1> QED BY <1>3, <1>4, <1>5, <1>6, <1>7

-----------------------------------------------------------------------------
(* The exchange.                                                            *)

LEMMA SendKeepsIInv ==
  ASSUME IInv, NEW c \in Caller, Send(c) PROVE IInv'
<1> USE Distinct
<1> DEFINE t == caller[c].token
           q == [id |-> sent + 1, by |-> c, token |-> t]
<1>1. /\ caller[c].pc = "lookup" /\ lock = c
      /\ caller'[c].pc = "sent"
      /\ \A e \in Caller : e # c => caller'[e] = caller[e] /\ caller[e].pc \notin Holding
  BY DEF IInv, Types, Send, Holding
<1>2. t \in Tok
  BY <1>1 DEF IInv, Types, InHand
<1>3. ASSUME ~lost PROVE Good'
  <2>1. Good /\ Sure(t)
    BY <1>1, <1>3 DEF IInv, Good, InHand
  <2>2. requests = {} /\ answers = {}
    <3>1. \A e \in Caller : caller[e].pc # "sent"
      BY <1>1 DEF Holding
    <3>2. \A a \in answers : a.to \in Caller
      BY DEF IInv, Types
    <3> QED BY <2>1, <3>1, <3>2 DEF Good, OneExchange
  <2>3. requests' = {q} /\ answers' = {}
    BY <2>2 DEF Send
  <2>4. q.by = c /\ q.token = t
    OBVIOUS
  <2>5. \A u : Sure(u)' <=> Sure(u)
    BY DEF Sure, Valid, Send
  <2> HIDE DEF q
  <2>6. OneExchange'
    BY <1>1, <2>1, <2>3, <2>4, <2>5 DEF OneExchange
  <2>7. \A e \in Caller : ~InHand(e)'
    BY <1>1 DEF InHand, Holding
  <2>8. StoredIsCurrent'
    BY <1>1, <2>1 DEF Send, Good, StoredIsCurrent, Renewing, Valid
  <2> QED BY <2>1, <2>6, <2>7, <2>8 DEF Good, EnrolledIsNew, Valid, Send
<1>4. Types'
  <2>1. requests' \subseteq [id : Int, by : Caller \cup {None}, token : Tok]
    BY <1>2 DEF IInv, Types, Send
  <2>2. caller' \in [Caller -> [pc : Holding \cup {"idle", "waiting"}, token : Tok \cup {NoToken}]]
    BY DEF IInv, Types, Send, Holding
  <2> QED BY <1>1, <2>1, <2>2 DEF IInv, Types, Send, Holding, InHand
<1> QED BY <1>3, <1>4 DEF IInv, Send

\* The only caller in the guarded section.
LEMMA Alone ==
  ASSUME IInv, NEW c \in Caller, caller[c].pc \in Holding
  PROVE  lock = c /\ \A e \in Caller : e # c => caller[e].pc \notin Holding
  BY DEF IInv, Types

LEMMA AnsweredKeepsIInv ==
  ASSUME IInv, NEW c \in Caller, Answered(c) PROVE IInv'
<1> USE Distinct
<1>1. PICK a \in answers :
        /\ caller[c].pc = "sent" /\ a.to = c
        /\ answers' = answers \ {a}
        /\ IF a.token = Refused THEN Release(c)
           ELSE /\ caller' = [caller EXCEPT ![c] = [pc |-> "save access", token |-> a.token]]
                /\ UNCHANGED lock
        /\ UNCHANGED <<stored, row, enrolled, next, revoked, requests, sent, lost>>
  BY DEF Answered
<1>2. lock = c /\ \A e \in Caller : e # c => caller[e].pc \notin Holding
  BY <1>1, Alone DEF Holding
<1>3. a.token \in Tok \cup {Refused}
  BY DEF IInv, Types
<1>4. PICK t : t = a.token
  OBVIOUS
<1>5. Types'
  <2>1. answers' \subseteq [to : Caller, token : Tok \cup {Refused}]
    BY <1>1 DEF IInv, Types
  <2>2. /\ caller' \in [Caller -> [pc : Holding \cup {"idle", "waiting"}, token : Tok \cup {NoToken}]]
        /\ lock' \in Caller \cup {None}
        /\ \A e \in Caller : caller'[e].pc \in Holding <=> lock' = e
        /\ \A e \in Caller : InHand(e)' => caller'[e].token \in Tok
    <3>1. CASE t = Refused
      <4>1. caller' = [caller EXCEPT ![c] = [pc |-> "idle", token |-> NoToken]] /\ lock' = None
        BY <1>1, <1>4, <3>1 DEF Release, Idle
      <4> QED BY ONLY <4>1, <1>2, IInv, c \in Caller, Distinct DEF IInv, Types, Holding, InHand
    <3>2. CASE t # Refused
      <4>1. t \in Tok /\ caller' = [caller EXCEPT ![c] = [pc |-> "save access", token |-> t]] /\ lock' = lock
        BY <1>1, <1>3, <1>4, <3>2
      <4> QED BY ONLY <4>1, <1>2, IInv, c \in Caller DEF IInv, Types, Holding, InHand
    <3> QED BY <3>1, <3>2
  <2> QED BY <1>1, <2>1, <2>2 DEF IInv, Types
<1>6. ASSUME ~lost PROVE Good'
  <2>1. Good /\ Sure(a.token) /\ a.token # Refused
    BY <1>6 DEF IInv, Good, OneExchange, Sure
  <2>2. /\ caller'[c].pc = "save access" /\ caller'[c].token = t
        /\ \A e \in Caller : e # c => caller'[e] = caller[e]
    <3>1. caller' = [caller EXCEPT ![c] = [pc |-> "save access", token |-> t]]
      BY <1>1, <1>4, <2>1
    <3> QED BY <3>1 DEF IInv, Types
  <2>3. requests' = {} /\ answers' = {}
    BY <1>1, <2>1 DEF Good, OneExchange
  <2>4. \A u : Sure(u)' <=> Sure(u)
    BY <1>1 DEF Sure, Valid
  <2>5. \A e \in Caller : InHand(e)' => Sure(caller[e].token)'
    BY <1>4, <2>1, <2>2, <2>4 DEF Good, InHand
  <2>6. StoredIsCurrent'
    <3>1. Renewing(c)'
      BY <2>2 DEF Renewing
    <3> QED BY <1>1, <2>1, <3>1 DEF Good, StoredIsCurrent
  <2> QED BY <1>1, <2>1, <2>3, <2>5, <2>6 DEF Good, OneExchange, EnrolledIsNew, Valid
<1> QED BY <1>1, <1>5, <1>6 DEF IInv

LEMMA SaveRefreshKeepsIInv ==
  ASSUME IInv, NEW c \in Caller, SaveRefresh(c) PROVE IInv'
<1> USE Distinct
<1>1. caller[c].pc = "save refresh" /\ caller[c].token \in Tok
  BY DEF SaveRefresh, IInv, Types, InHand
<1>2. lock = c /\ \A e \in Caller : e # c => caller[e].pc \notin Holding
  BY <1>1, Alone DEF Holding
<1>3. \A e \in Caller : caller'[e].pc \notin Holding
  BY <1>2 DEF IInv, Types, SaveRefresh, Release, Idle, Holding
<1>4. Types'
  BY <1>1, <1>2 DEF IInv, Types, SaveRefresh, Release, Idle, Holding, InHand
<1>5. ASSUME ~lost PROVE Good'
  <2>1. Good /\ Sure(caller[c].token)
    BY <1>1, <1>5 DEF IInv, Good, InHand
  <2>2. requests = {} /\ answers = {}
    <3>1. \A e \in Caller : caller[e].pc # "sent"
      BY <1>1, <1>2 DEF Holding
    <3> QED BY <2>1, <3>1 DEF Good, OneExchange, IInv, Types
  <2>3. StoredIsCurrent'
    BY <2>1 DEF SaveRefresh, StoredIsCurrent, Sure, Valid, Tok
  <2>4. \A e \in Caller : ~InHand(e)'
    BY <1>3 DEF InHand, Holding
  <2> QED BY <2>1, <2>2, <2>3, <2>4 DEF SaveRefresh, Good, OneExchange, EnrolledIsNew, Valid
<1> QED BY <1>4, <1>5 DEF IInv, SaveRefresh

\* The agent rotates the token the only request carries.
LEMMA ServeKeepsIInv ==
  ASSUME IInv, NEW q \in requests, Serve(q) PROVE IInv'
<1> USE Distinct
<1>1. PICK t \in Tok : t = q.token
  BY DEF IInv, Types
<1>2. t.device \in Device /\ t.n \in Nat /\ q.by \in Caller \cup {None}
  BY DEF IInv, Types, Tok
<1>3. PICK u : u = IF Valid(t) THEN [t EXCEPT !.n = @ + 1] ELSE Refused
  OBVIOUS
<1>4. /\ requests' = requests \ {q}
      /\ next' = IF Valid(t) THEN [next EXCEPT ![t.device] = @ + 1] ELSE next
      /\ revoked' = IF Valid(t) THEN revoked ELSE revoked \cup {t.device}
      /\ answers' = IF q.by = None THEN answers ELSE answers \cup {[to |-> q.by, token |-> u]}
      /\ UNCHANGED <<lock, caller, stored, row, enrolled, sent, lost>>
  BY <1>1, <1>3 DEF Serve
<1>5. Valid(t) => u \in Tok /\ u.device = t.device /\ u.n = t.n + 1
  BY <1>2, <1>3 DEF Tok
<1>6. Valid(t) => next[t.device] = t.n
  BY DEF Valid
<1>7. Types'
  <2>1. next' \in [Device -> Nat \cup {NotEnrolled}]
    BY <1>2, <1>4, <1>6 DEF IInv, Types
  <2>2. u \in Tok \cup {Refused}
    BY <1>3, <1>5
  <2>3. answers' \subseteq [to : Caller, token : Tok \cup {Refused}]
    BY <1>2, <1>4, <2>2 DEF IInv, Types
  <2> QED BY <1>4, <2>1, <2>3 DEF IInv, Types, InHand
<1>8. ASSUME ~lost PROVE Good'
  <2>1. Good /\ Sure(t) /\ q.by \in Caller /\ caller[q.by].pc = "sent"
    BY <1>1, <1>8 DEF IInv, Good, OneExchange
  <2>2. requests' = {} /\ answers' = {[to |-> q.by, token |-> u]}
    BY <1>4, <2>1 DEF Good, OneExchange
  <2>3. /\ next' = [next EXCEPT ![t.device] = @ + 1] /\ revoked' = {}
        /\ next'[t.device] = t.n + 1 /\ t.n + 1 \in Nat
        /\ \A d \in Device : d # t.device => next'[d] = next[d]
    BY <1>2, <1>4, <1>6, <2>1 DEF Good, Sure, IInv, Types
  <2>4. Sure(u)'
    BY <1>4, <1>5, <2>1, <2>3 DEF Sure, Valid
  <2>5. OneExchange'
    <3>1. \A a \in answers' : a.to = q.by /\ a.token = u
      BY <2>2
    <3> QED BY <1>4, <2>1, <2>2, <2>4, <3>1 DEF OneExchange
  <2>6. \A c \in Caller : ~InHand(c)
    BY <2>1 DEF IInv, Types, InHand, Holding
  <2>7. EnrolledIsNew'
    <3>1. enrolled # NoToken => enrolled.device \in Device /\ enrolled.device # t.device
      BY <2>1 DEF Sure, IInv, Types, Tok
    <3> QED BY <1>4, <2>1, <2>3, <3>1 DEF Good, EnrolledIsNew, Valid
  <2>8. StoredIsCurrent'
    <3>1. Renewing(q.by)'
      BY <1>4, <2>1 DEF Renewing
    <3>2. stored # NoToken => stored.device \in Device
      BY DEF IInv, Types, Tok
    <3>3. stored # NoToken => next'[stored.device] # NotEnrolled
      BY <2>1, <2>3, <3>2 DEF Good, StoredIsCurrent
    <3> QED BY <1>4, <2>1, <3>1, <3>3 DEF Good, StoredIsCurrent
  <2> QED BY <1>4, <2>3, <2>5, <2>6, <2>7, <2>8 DEF Good, InHand
<1> QED BY <1>4, <1>7, <1>8 DEF IInv

-----------------------------------------------------------------------------
(* What is lost.                                                            *)

LEMMA ServeUnsavedKeepsIInv ==
  ASSUME IInv, NEW q \in requests, ServeUnsaved(q) PROVE IInv'
<1> USE Distinct
<1>1. PICK t \in Tok : t = q.token
  BY DEF IInv, Types
<1>2. t.device \in Device /\ t.n \in Nat /\ next[t.device] = t.n /\ q.by \in Caller \cup {None}
  BY <1>1 DEF IInv, Types, Tok, ServeUnsaved, Valid
<1>3. next' \in [Device -> Nat \cup {NotEnrolled}]
  BY <1>1, <1>2 DEF IInv, Types, ServeUnsaved
<1>4. answers' \subseteq [to : Caller, token : Tok \cup {Refused}]
  BY <1>2 DEF IInv, Types, ServeUnsaved
<1>5. Types' /\ lost'
  BY <1>3, <1>4 DEF IInv, Types, ServeUnsaved, InHand
<1> QED BY <1>5 DEF IInv

\* A request whose caller has given up is still a request.
LEMMA GiveUpTypes ==
  ASSUME Types, NEW S \in SUBSET Caller, GiveUp(S)
  PROVE  /\ requests' \subseteq [id : Int, by : Caller \cup {None}, token : Tok]
         /\ answers' \subseteq [to : Caller, token : Tok \cup {Refused}]
<1>1. ASSUME NEW q \in requests
      PROVE  Orphan(q, S) \in [id : Int, by : Caller \cup {None}, token : Tok]
  BY DEF Types, Orphan
<1> QED BY <1>1 DEF GiveUp, Types

LEMMA TimeoutKeepsIInv ==
  ASSUME IInv, NEW c \in Caller, Timeout(c) PROVE IInv'
<1> USE Distinct
<1>1. /\ requests' \subseteq [id : Int, by : Caller \cup {None}, token : Tok]
      /\ answers' \subseteq [to : Caller, token : Tok \cup {Refused}]
  BY GiveUpTypes, {c} \in SUBSET Caller DEF IInv, Timeout
<1>2. \A e \in Caller : e # c => caller[e].pc \notin Holding
  BY Alone DEF Timeout, Holding
<1>3. caller' = [caller EXCEPT ![c] = [pc |-> "idle", token |-> NoToken]] /\ lock' = None
  BY DEF Timeout, Release, Idle
<1>4. Types' /\ lost'
  BY <1>1, <1>2, <1>3 DEF IInv, Types, Timeout, Holding, InHand
<1> QED BY <1>4 DEF IInv

LEMMA LoseRequestKeepsIInv == ASSUME IInv, LoseRequest PROVE IInv'
<1> USE Distinct
<1>1. PICK q \in requests : q.by = None /\ requests' = requests \ {q}
  BY DEF LoseRequest
<1>2. Types'
  BY <1>1 DEF LoseRequest, IInv, Types, InHand
<1>3. lost
  BY <1>1 DEF IInv, Good, OneExchange
<1> QED BY <1>2, <1>3 DEF IInv, LoseRequest

LEMMA AppRestartsKeepsIInv == ASSUME IInv, AppRestarts PROVE IInv'
<1> USE Distinct
<1>1. /\ requests' \subseteq [id : Int, by : Caller \cup {None}, token : Tok]
      /\ answers' \subseteq [to : Caller, token : Tok \cup {Refused}]
  BY GiveUpTypes, Caller \in SUBSET Caller DEF IInv, AppRestarts
<1>2. /\ caller' = [c \in Caller |-> [pc |-> "idle", token |-> NoToken]]
      /\ lock' = None /\ enrolled' = NoToken
      /\ UNCHANGED <<stored, next, revoked, sent>>
      /\ lost' = (lost \/ \E c \in Caller : Renewing(c))
  BY DEF AppRestarts, Idle, Renewing
<1>3. lost' \in BOOLEAN
  BY <1>2, Zenon
<1>4. Types'
  BY <1>1, <1>2, <1>3 DEF IInv, Types, Holding, InHand
<1>5. ASSUME ~lost' PROVE Good'
  <2>1. Good /\ ~\E c \in Caller : Renewing(c)
    BY <1>2, <1>5 DEF IInv
  <2>2. requests = {} /\ answers = {}
    <3>1. \A a \in answers : a.to \in Caller
      BY DEF IInv, Types
    <3> QED BY <2>1, <3>1 DEF Good, OneExchange, Renewing
  <2>3. requests' = {} /\ answers' = {}
    BY <2>2 DEF AppRestarts, GiveUp
  <2>4. \A c \in Caller : ~InHand(c)'
    BY <1>2 DEF InHand
  <2>5. StoredIsCurrent'
    BY <1>2, <2>1 DEF Good, StoredIsCurrent, Valid
  <2> QED BY <1>2, <2>1, <2>3, <2>4, <2>5 DEF Good, OneExchange, EnrolledIsNew
<1> QED BY <1>4, <1>5 DEF IInv

-----------------------------------------------------------------------------
(* What the user does beside.                                               *)

\* Only the stored token and the enrollment in progress change.
LEMMA DeleteKeepsIInv == ASSUME IInv, DeleteRow \/ DeleteTokens \/ UNCHANGED vars PROVE IInv'
<1> USE Distinct
<1>1. /\ stored' = stored \/ stored' = NoToken
      /\ UNCHANGED <<lock, caller, enrolled, next, revoked, requests, answers, sent, lost>>
  BY DEF DeleteRow, DeleteTokens, vars
<1>2. Types'
  BY <1>1 DEF IInv, Types, InHand
<1>3. Good => Good'
  BY <1>1 DEF Good, OneExchange, EnrolledIsNew, StoredIsCurrent, Sure, Valid, InHand, Renewing
<1> QED BY <1>1, <1>2, <1>3 DEF IInv

\* A new device has no token yet: its first one is not in anybody's hands.
LEMMA EnrollKeepsIInv == ASSUME IInv, NEW d \in Device, Enroll(d) PROVE IInv'
<1> USE Distinct
<1>1. PICK t \in Tok : t.device = d /\ t.n = 0 /\ t = [device |-> d, n |-> 0]
  BY DEF Tok
<1>2. /\ next[d] = NotEnrolled /\ enrolled = NoToken
      /\ next' = [next EXCEPT ![d] = 0] /\ enrolled' = t /\ t # NoToken
      /\ UNCHANGED <<lock, caller, stored, revoked, requests, answers, sent, lost>>
  BY <1>1 DEF Enroll
<1>3. next'[d] = 0 /\ \A e \in Device : e # d => next'[e] = next[e]
  BY <1>2 DEF IInv, Types
<1>4. Types'
  BY <1>2 DEF IInv, Types, InHand
<1>5. \A u : Sure(u) => Sure(u)'
  BY <1>1, <1>2, <1>3 DEF Sure, Valid, Tok
<1>6. ASSUME ~lost PROVE Good'
  <2>1. Good
    BY <1>6 DEF IInv
  <2>2. OneExchange'
    BY <1>2, <1>5, <2>1 DEF Good, OneExchange
  <2>3. \A c \in Caller : InHand(c)' => Sure(caller[c].token)'
    BY <1>2, <1>5, <2>1 DEF Good, InHand
  <2>4. EnrolledIsNew'
    BY <1>1, <1>2, <1>3, <2>1 DEF EnrolledIsNew, Valid, Good
  <2>5. StoredIsCurrent'
    <3>1. stored # NoToken => stored.device \in Device
      BY DEF IInv, Types, Tok
    <3> QED BY <1>1, <1>2, <1>3, <2>1, <3>1 DEF Good, StoredIsCurrent, Valid, Renewing
  <2> QED BY <1>2, <2>1, <2>2, <2>3, <2>4, <2>5 DEF Good
<1> QED BY <1>2, <1>4, <1>6 DEF IInv

LEMMA SaveEnrolledKeepsIInv == ASSUME IInv, SaveEnrolled PROVE IInv'
<1> USE Distinct
<1>1. /\ enrolled # NoToken /\ stored' = enrolled /\ enrolled' = NoToken
      /\ UNCHANGED <<lock, caller, next, revoked, requests, answers, sent, lost>>
  BY DEF SaveEnrolled
<1>2. Types'
  BY <1>1 DEF IInv, Types, InHand
<1>3. \A u : Sure(u) => Sure(u)'
  BY <1>1 DEF Sure, Valid
<1>4. ASSUME ~lost PROVE Good'
  <2>1. Good
    BY <1>4 DEF IInv
  <2>2. StoredIsCurrent'
    BY <1>1, <2>1 DEF Good, EnrolledIsNew, StoredIsCurrent, Valid, IInv, Types, Tok
  <2> QED BY <1>1, <1>3, <2>1, <2>2 DEF Good, OneExchange, EnrolledIsNew, InHand
<1> QED BY <1>1, <1>2, <1>4 DEF IInv

-----------------------------------------------------------------------------
LEMMA StepKeepsIInv == ASSUME IInv, [Next]_vars PROVE IInv'
<1>1. ASSUME NEW c \in Caller, CallerStep(c) PROVE IInv'
  BY <1>1, CallerKeepsIInv, SendKeepsIInv, AnsweredKeepsIInv, SaveRefreshKeepsIInv,
     TimeoutKeepsIInv DEF CallerStep
<1>2. ASSUME NEW q \in requests, Serve(q) \/ ServeUnsaved(q) PROVE IInv'
  BY <1>2, ServeKeepsIInv, ServeUnsavedKeepsIInv
<1>3. ASSUME LoseRequest \/ AppRestarts PROVE IInv'
  BY <1>3, LoseRequestKeepsIInv, AppRestartsKeepsIInv
<1>4. ASSUME DeleteRow \/ DeleteTokens \/ UNCHANGED vars PROVE IInv'
  BY <1>4, DeleteKeepsIInv
<1>5. ASSUME SaveEnrolled \/ \E d \in Device : Enroll(d) PROVE IInv'
  BY <1>5, SaveEnrolledKeepsIInv, EnrollKeepsIInv
<1> QED BY <1>1, <1>2, <1>3, <1>4, <1>5 DEF Next

THEOREM Invariance == Spec => []IInv
  BY InitIInv, StepKeepsIInv, PTL DEF Spec

(***************************************************************************)
(* The single-flight lock does what its comment says                        *)
(* (server_repository_impl.dart:350-392): unless an exchange was cut off,   *)
(* the agent revokes no device of the app, however its callers, a new       *)
(* enrollment and the deletion of the server overlap.                       *)
(***************************************************************************)
THEOREM NeverRevokedByItself == Spec => []RevokedOnlyAfterLoss
<1>1. IInv => RevokedOnlyAfterLoss
  BY DEF IInv, Good, RevokedOnlyAfterLoss
<1> QED BY <1>1, Invariance, PTL

(***************************************************************************)
(* With the lock free and nothing cut off, the token in secure storage is   *)
(* the one the agent takes next (server_repository_impl.dart:377-378).      *)
(***************************************************************************)
THEOREM StorageIsCurrent == Spec => []StoredIsValid
<1>1. ASSUME IInv, ~lost, lock = None, stored # NoToken PROVE Valid(stored)
  <2>1. Good
    BY <1>1 DEF IInv
  <2>2. \A c \in Caller : ~Renewing(c)
    BY <1>1, TokenProtocolAssumption DEF IInv, Types, Renewing, Holding
  <2> QED BY <1>1, <2>1, <2>2 DEF Good, StoredIsCurrent
<1>2. IInv => StoredIsValid
  BY <1>1 DEF StoredIsValid
<1> QED BY <1>2, Invariance, PTL

-----------------------------------------------------------------------------
(* Where the tokens come from: each is one that the agent has issued, and     *)
(* every rotation used up a request.                                          *)

\* The agent has issued the token.
Mine(t) == t \in Tok /\ next[t.device] # NotEnrolled /\ t.n <= next[t.device]

Issued ==
  /\ row \in {"there", "deleting", "gone"} /\ revoked \subseteq Device
  /\ stored # NoToken => Mine(stored)
  /\ enrolled # NoToken => Mine(enrolled)
  /\ \A c \in Caller : caller[c].token # NoToken => Mine(caller[c].token)
  /\ \A q \in requests : Mine(q.token) /\ q.id \in 1 .. sent
  /\ \A a \in answers : a.token # Refused => Mine(a.token)

Counted ==
  /\ sent \in 0 .. MaxRequests /\ IsFiniteSet(requests) /\ Cardinality(requests) <= sent
  /\ \A d \in Device : next[d] + Cardinality(requests) <= sent

Sourced == Issued /\ Counted

\* No counter of the agent goes back.
Onward == \A d \in Device : next[d] # NotEnrolled => next'[d] # NotEnrolled /\ next'[d] >= next[d]

LEMMA StillMine ==
  ASSUME Types, Types', Onward, NEW t, Mine(t) PROVE Mine(t)'
<1>1. t \in Tok /\ t.device \in Device /\ t.n \in Nat
  BY DEF Mine, Tok
<1>2. next[t.device] \in Nat /\ next'[t.device] \in Nat \cup {NotEnrolled}
  BY <1>1 DEF Mine, Types
<1> QED BY <1>1, <1>2 DEF Mine, Onward

LEMMA TokensMove ==
  ASSUME Types, Types', Issued, Onward,
         row' \in {"there", "deleting", "gone"}, revoked' \subseteq Device,
         stored' = stored \/ stored' = NoToken \/ stored' = enrolled \/ \E c \in Caller : stored' = caller[c].token,
         enrolled' # NoToken => enrolled' = enrolled \/ Mine(enrolled)',
         \A c \in Caller : \/ caller'[c].token \in {NoToken, stored, caller[c].token}
                           \/ \E a \in answers : a.token # Refused /\ caller'[c].token = a.token,
         \A q \in requests' : /\ q.id \in 1 .. sent'
                              /\ \/ \E p \in requests : q.token = p.token
                                 \/ \E c \in Caller : caller[c].token # NoToken /\ q.token = caller[c].token,
         \A a \in answers' : a \in answers \/ a.token = Refused \/ Mine(a.token)'
  PROVE  Issued'
<1>1. ASSUME stored' # NoToken PROVE Mine(stored)'
  <2>1. PICK t : t = stored'
    OBVIOUS
  <2>2. Mine(t)
    BY <1>1, <2>1 DEF Issued
  <2>3. Mine(t)'
    BY <2>2, StillMine
  <2> QED BY <2>1, <2>3
<1>2. ASSUME enrolled' # NoToken, enrolled' = enrolled PROVE Mine(enrolled)'
  <2>1. PICK t : t = enrolled'
    OBVIOUS
  <2>2. Mine(t)
    BY <1>2, <2>1 DEF Issued
  <2>3. Mine(t)'
    BY <2>2, StillMine
  <2> QED BY <2>1, <2>3
<1>3. ASSUME NEW c \in Caller, caller'[c].token # NoToken PROVE Mine(caller[c].token)'
  <2>1. PICK t : t = caller'[c].token
    OBVIOUS
  <2>2. Mine(t)
    BY <1>3, <2>1 DEF Issued
  <2>3. Mine(t)'
    BY <2>2, StillMine
  <2> QED BY <2>1, <2>3
<1>4. ASSUME NEW q \in requests' PROVE Mine(q.token)' /\ q.id \in 1 .. sent'
  <2>1. Mine(q.token)
    BY <1>4 DEF Issued
  <2> QED BY <2>1, StillMine
<1>5. ASSUME NEW a \in answers', a.token # Refused PROVE Mine(a.token)'
  <2>1. a \in answers => Mine(a.token)
    BY <1>5 DEF Issued
  <2> QED BY <1>5, <2>1, StillMine
<1> QED BY <1>1, <1>2, <1>3, <1>4, <1>5 DEF Issued

LEMMA CounterBounds ==
  ASSUME Types, Counted
  PROVE  /\ sent \in Nat /\ Cardinality(requests) \in Nat /\ MaxRequests \in Nat
         /\ \A d \in Device : next[d] \in Nat \cup {NotEnrolled}
         /\ NotEnrolled = -1 /\ NotEnrolled \in Int
  BY TokenProtocolAssumption, FS_CardinalityType DEF Types, Counted, NotEnrolled

\* A caller's own step: its token is none, the stored one, or the one it had.
LEMMA CallerKeepsSourced ==
  ASSUME IInv, IInv', Sourced, NEW c \in Caller,
         \/ Call(c) \/ Acquire(c) \/ ReadStored(c) \/ NoRow(c) \/ SaveAccess(c) \/ SaveRefresh(c)
  PROVE  Sourced'
<1>1. Types /\ Types' /\ Issued /\ Counted /\ caller \in [Caller -> [pc : Holding \cup {"idle", "waiting"}, token : Tok \cup {NoToken}]]
  BY DEF IInv, Sourced, Types
<1>2. /\ UNCHANGED <<row, enrolled, next, revoked, requests, answers, sent>>
      /\ stored' = stored \/ stored' = caller[c].token
  BY DEF Call, Acquire, ReadStored, NoRow, SaveAccess, SaveRefresh
<1>3. PICK h : caller' = [caller EXCEPT ![c] = h] /\ h.token \in {NoToken, stored, caller[c].token}
  <2>1. CASE Call(c) \/ Acquire(c)
    BY <2>1 DEF Call, Acquire
  <2>2. CASE ReadStored(c)
    BY <2>2 DEF ReadStored, Release, Idle
  <2>3. CASE NoRow(c) \/ SaveRefresh(c)
    BY <2>3 DEF NoRow, SaveRefresh, Release, Idle
  <2>4. CASE SaveAccess(c)
    <3>1. caller' = [caller EXCEPT ![c] = [pc |-> "save refresh", token |-> caller[c].token]]
      BY <2>4 DEF SaveAccess
    <3>2. PICK h : h = [pc |-> "save refresh", token |-> caller[c].token]
      OBVIOUS
    <3>3. h.token = caller[c].token
      BY <3>2
    <3> QED BY <3>1, <3>2, <3>3, Zenon
  <2> QED BY <2>1, <2>2, <2>3, <2>4
<1>4. \A e \in Caller : caller'[e].token \in {NoToken, stored, caller[e].token}
  BY <1>1, <1>3
<1>5. Onward
  BY <1>1, <1>2, CounterBounds DEF Onward
<1>6. \A q \in requests' : q.id \in 1 .. sent' /\ \E p \in requests : q.token = p.token
  BY <1>1, <1>2 DEF Issued
<1>7. Issued'
  BY <1>1, <1>2, <1>4, <1>5, <1>6, TokensMove DEF Issued
<1> QED BY <1>1, <1>2, <1>7 DEF Sourced, Counted

LEMMA SendKeepsSourced ==
  ASSUME IInv, IInv', Sourced, NEW c \in Caller, Send(c) PROVE Sourced'
<1> DEFINE q == [id |-> sent + 1, by |-> c, token |-> caller[c].token]
<1>1. Types /\ Types' /\ Issued /\ Counted /\ caller \in [Caller -> [pc : Holding \cup {"idle", "waiting"}, token : Tok \cup {NoToken}]]
  BY DEF IInv, Sourced, Types
<1>2. /\ caller[c].pc = "lookup" /\ sent < MaxRequests /\ sent' = sent + 1
      /\ requests' = requests \cup {q}
      /\ caller' = [caller EXCEPT ![c] = [pc |-> "sent", token |-> NoToken]]
      /\ UNCHANGED <<stored, row, enrolled, next, revoked, answers>>
  BY DEF Send
<1>3. caller[c].token # NoToken
  <2>1. InHand(c)
    BY <1>2 DEF InHand
  <2>2. caller[c].token \in Tok
    BY <1>1, <2>1 DEF Types
  <2> QED BY <2>2, Distinct
<1>4. /\ sent \in Nat /\ Cardinality(requests) \in Nat /\ MaxRequests \in Nat
      /\ \A d \in Device : next[d] \in Int
  BY <1>1, CounterBounds
<1>5. q.id = sent + 1 /\ q.token = caller[c].token
  OBVIOUS
<1> HIDE DEF q
<1>6. Onward
  BY <1>2, <1>4 DEF Onward
<1>7. \A p \in requests' : /\ p.id \in 1 .. sent'
                           /\ \/ \E o \in requests : p.token = o.token
                              \/ \E e \in Caller : caller[e].token # NoToken /\ p.token = caller[e].token
  BY <1>1, <1>2, <1>3, <1>4, <1>5 DEF Issued
<1>8. \A e \in Caller : caller'[e].token \in {NoToken, stored, caller[e].token}
  BY <1>1, <1>2
<1>9. Issued'
  BY <1>1, <1>2, <1>6, <1>7, <1>8, TokensMove DEF Issued
<1>10. Counted'
  <2>1. IsFiniteSet(requests \cup {q}) /\ Cardinality(requests \cup {q}) <= Cardinality(requests) + 1
        /\ Cardinality(requests \cup {q}) \in Nat
    <3>1. IsFiniteSet(requests)
      BY <1>1 DEF Counted
    <3>2. /\ IsFiniteSet(requests \cup {q})
          /\ Cardinality(requests \cup {q}) = IF q \in requests THEN Cardinality(requests) ELSE Cardinality(requests) + 1
      BY <3>1, FS_AddElement
    <3> QED BY <1>4, <3>2
  <2>2. \A d \in Device : next[d] + Cardinality(requests) <= sent
    BY <1>1 DEF Counted
  <2>3. \A d \in Device : next'[d] + Cardinality(requests') <= sent'
    BY <1>2, <1>4, <2>1, <2>2
  <2>4. sent' \in 0 .. MaxRequests /\ Cardinality(requests') <= sent'
    BY <1>1, <1>2, <1>4, <2>1 DEF Counted
  <2> QED BY <1>2, <2>1, <2>3, <2>4 DEF Counted
<1> QED BY <1>9, <1>10 DEF Sourced

LEMMA AnsweredKeepsSourced ==
  ASSUME IInv, IInv', Sourced, NEW c \in Caller, Answered(c) PROVE Sourced'
<1>1. Types /\ Types' /\ Issued /\ Counted /\ caller \in [Caller -> [pc : Holding \cup {"idle", "waiting"}, token : Tok \cup {NoToken}]]
  BY DEF IInv, Sourced, Types
<1>2. PICK a \in answers : /\ answers' = answers \ {a}
                           /\ \/ a.token = Refused /\ caller' = [caller EXCEPT ![c] = Idle]
                              \/ a.token # Refused /\ caller' = [caller EXCEPT ![c] = [pc |-> "save access", token |-> a.token]]
                           /\ UNCHANGED <<stored, row, enrolled, next, revoked, requests, sent>>
  BY DEF Answered, Release
<1>3. \A e \in Caller : \/ caller'[e].token \in {NoToken, stored, caller[e].token}
                        \/ a.token # Refused /\ caller'[e].token = a.token
  <2>1. PICK h : /\ caller' = [caller EXCEPT ![c] = h]
                 /\ h.token = NoToken \/ (a.token # Refused /\ h.token = a.token)
    <3>1. PICK h : h = IF a.token = Refused THEN Idle ELSE [pc |-> "save access", token |-> a.token]
      OBVIOUS
    <3>2. caller' = [caller EXCEPT ![c] = h]
      BY <1>2, <3>1, Zenon
    <3>3. h.token = NoToken \/ (a.token # Refused /\ h.token = a.token)
      BY <3>1 DEF Idle
    <3> QED BY <3>2, <3>3, Zenon
  <2> QED BY <1>1, <2>1
<1>4. Onward
  <2>1. \A d \in Device : next[d] \in Int
    BY <1>1, CounterBounds
  <2>2. next' = next
    BY DEF Answered
  <2> QED BY <2>1, <2>2 DEF Onward
<1>5. \A q \in requests' : q.id \in 1 .. sent' /\ \E p \in requests : q.token = p.token
  BY <1>1, <1>2 DEF Issued
<1>6. Issued'
  BY <1>1, <1>2, <1>3, <1>4, <1>5, TokensMove DEF Issued
<1> QED BY <1>1, <1>2, <1>6 DEF Sourced, Counted

\* Fewer requests, and the counters as they were.
LEMMA FewerRequests ==
  ASSUME Types, Counted, sent' = sent, IsFiniteSet(requests'), Cardinality(requests') <= Cardinality(requests),
         \/ next' = next
         \/ /\ Cardinality(requests') + 1 <= Cardinality(requests)
            /\ \A d \in Device : next'[d] = next[d] \/ next'[d] = next[d] + 1
  PROVE  Counted'
<1>1. /\ sent \in Nat /\ Cardinality(requests) \in Nat /\ MaxRequests \in Nat
      /\ \A d \in Device : next[d] \in Int
  BY CounterBounds
<1>2. Cardinality(requests') \in Nat
  BY FS_CardinalityType
<1> QED BY <1>1, <1>2 DEF Counted

LEMMA ServeKeepsSourced ==
  ASSUME IInv, IInv', Sourced, NEW q \in requests, Serve(q) \/ ServeUnsaved(q) PROVE Sourced'
<1> USE Distinct
<1>1. Types /\ Types' /\ Issued /\ Counted
  BY DEF IInv, Sourced
<1>2. PICK t \in Tok : t = q.token
  BY <1>1 DEF Types
<1>3. t.device \in Device /\ t.n \in Nat /\ Mine(t)
  BY <1>1, <1>2 DEF Issued, Tok
<1>4. /\ requests' = requests \ {q} /\ UNCHANGED <<caller, stored, row, enrolled, sent>>
      /\ revoked' \subseteq Device
  BY <1>1, <1>2, <1>3 DEF Serve, ServeUnsaved, Issued
<1>5. \/ next' = next
      \/ Valid(t) /\ next' = [next EXCEPT ![t.device] = t.n + 1] /\ next[t.device] = t.n
  BY <1>2 DEF Serve, ServeUnsaved, Valid
<1>6. /\ sent \in Nat /\ Cardinality(requests) \in Nat /\ next \in [Device -> Nat \cup {NotEnrolled}]
      /\ \A d \in Device : next[d] \in Int
  BY <1>1, CounterBounds DEF Types
<1>7. Onward
  BY <1>3, <1>5, <1>6 DEF Onward
<1>8. \A a \in answers' : a \in answers \/ a.token = Refused \/ Mine(a.token)'
  <2>1. CASE Serve(q) /\ Valid(t)
    <3>1. /\ answers' \subseteq answers \cup {[to |-> q.by, token |-> [t EXCEPT !.n = t.n + 1]]}
          /\ next' = [next EXCEPT ![t.device] = next[t.device] + 1] /\ next[t.device] = t.n
      BY <1>2, <2>1 DEF Serve, Valid
    <3>2. PICK u : u = [t EXCEPT !.n = t.n + 1]
      OBVIOUS
    <3>3. u \in Tok /\ u.device = t.device /\ u.n = t.n + 1 /\ next'[u.device] = u.n /\ u.n \in Nat
      BY <1>3, <1>6, <3>1, <3>2 DEF Tok
    <3>4. Mine(u)'
      BY <3>3 DEF Mine
    <3> QED BY <3>1, <3>2, <3>4
  <2>2. CASE ~(Serve(q) /\ Valid(t))
    BY <1>2, <2>2 DEF Serve, ServeUnsaved
  <2> QED BY <2>1, <2>2
<1>9. \A p \in requests' : p.id \in 1 .. sent' /\ \E o \in requests : p.token = o.token
  BY <1>1, <1>4 DEF Issued
<1>10. Issued'
  BY <1>1, <1>4, <1>7, <1>8, <1>9, TokensMove DEF Issued
<1>11. IsFiniteSet(requests') /\ Cardinality(requests') + 1 = Cardinality(requests) /\ Cardinality(requests') \in Nat
  <2>1. IsFiniteSet(requests)
    BY <1>1 DEF Counted
  <2>2. IsFiniteSet(requests \ {q}) /\ Cardinality(requests \ {q}) = Cardinality(requests) - 1
    BY <2>1, FS_RemoveElement
  <2> QED BY <1>4, <1>6, <2>2, FS_CardinalityType
<1>12. \A d \in Device : next'[d] = next[d] \/ next'[d] = next[d] + 1
  BY <1>3, <1>5, <1>6
<1>13. Cardinality(requests') <= Cardinality(requests) /\ Cardinality(requests') + 1 <= Cardinality(requests)
  BY <1>6, <1>11
<1>14. Counted'
  BY <1>1, <1>4, <1>11, <1>12, <1>13, FewerRequests
<1> QED BY <1>10, <1>14 DEF Sourced

\* Requests given up are as many, with the tokens they had.
LEMMA GiveUpCounts ==
  ASSUME NEW S \in SUBSET Caller, IsFiniteSet(requests), GiveUp(S)
  PROVE  IsFiniteSet(requests') /\ Cardinality(requests') <= Cardinality(requests)
<1> DEFINE f == [q \in requests |-> Orphan(q, S)]
<1>1. f \in Surjection(requests, requests')
  BY DEF GiveUp, Surjection
<1> HIDE DEF f
<1> QED BY <1>1, FS_Surjection

LEMMA GiveUpKeepsSourced ==
  ASSUME IInv, IInv', Sourced, NEW S \in SUBSET Caller, GiveUp(S),
         \A c \in Caller : caller'[c] = Idle \/ caller'[c] = caller[c],
         row' \in {"there", "deleting", "gone"}, enrolled' \in {enrolled, NoToken},
         UNCHANGED <<stored, next, revoked, sent>>
  PROVE  Sourced'
<1>1. Types /\ Types' /\ Issued /\ Counted
  BY DEF IInv, Sourced
<1>2. /\ sent \in Nat /\ Cardinality(requests) \in Nat /\ next \in [Device -> Nat \cup {NotEnrolled}]
      /\ \A d \in Device : next[d] \in Int
  BY <1>1, CounterBounds DEF Types
<1>3. Onward
  BY <1>2 DEF Onward
<1>4. ASSUME NEW q \in requests' PROVE q.id \in 1 .. sent' /\ \E p \in requests : q.token = p.token
  <2>1. PICK p \in requests : q = Orphan(p, S)
    BY DEF GiveUp
  <2>2. p \in [id : Int, by : Caller \cup {None}, token : Tok] /\ p.id \in 1 .. sent
    BY <1>1 DEF Types, Issued
  <2>3. q.id = p.id /\ q.token = p.token
    BY <2>1, <2>2 DEF Orphan
  <2> QED BY <2>2, <2>3
<1>5. \A c \in Caller : caller'[c].token \in {NoToken, stored, caller[c].token}
  BY DEF Idle
<1>6. \A a \in answers' : a \in answers
  BY DEF GiveUp
<1>7. Issued'
  BY <1>1, <1>3, <1>4, <1>5, <1>6, TokensMove DEF Issued
<1>8. IsFiniteSet(requests') /\ Cardinality(requests') <= Cardinality(requests)
  BY <1>1, GiveUpCounts DEF Counted
<1>9. Counted'
  BY <1>1, <1>8, FewerRequests
<1> QED BY <1>7, <1>9 DEF Sourced

LEMMA OthersKeepSourced ==
  ASSUME IInv, IInv', Sourced,
         LoseRequest \/ DeleteRow \/ DeleteTokens \/ SaveEnrolled \/ \E d \in Device : Enroll(d)
  PROVE  Sourced'
<1> USE Distinct
<1>1. Types /\ Types' /\ Issued /\ Counted
  BY DEF IInv, Sourced
<1>2. /\ sent \in Nat /\ Cardinality(requests) \in Nat /\ next \in [Device -> Nat \cup {NotEnrolled}]
      /\ \A d \in Device : next[d] \in Int
      /\ NotEnrolled = -1
  BY <1>1, CounterBounds DEF Types
<1>3. UNCHANGED <<caller, answers, sent, revoked>> /\ requests' \subseteq requests
      /\ row' \in {"there", "deleting", "gone"}
  BY <1>1 DEF LoseRequest, DeleteRow, DeleteTokens, SaveEnrolled, Enroll, Issued
<1>4. \A q \in requests' : q.id \in 1 .. sent' /\ \E p \in requests : q.token = p.token
  BY <1>1, <1>3 DEF Issued
<1>5. IsFiniteSet(requests') /\ Cardinality(requests') <= Cardinality(requests)
  BY <1>1, <1>3, FS_Subset DEF Counted
<1>6. CASE next' = next
  <2>1. /\ stored' = stored \/ stored' = NoToken \/ stored' = enrolled
        /\ enrolled' # NoToken => enrolled' = enrolled
    <3>1. CASE \E d \in Device : Enroll(d)
      <4>1. PICK d \in Device : Enroll(d)
        BY <3>1
      <4>2. next[d] = NotEnrolled /\ next'[d] = 0
        BY <1>2, <4>1 DEF Enroll
      <4> QED BY <1>2, <1>6, <4>2
    <3>2. CASE LoseRequest \/ DeleteRow \/ DeleteTokens \/ SaveEnrolled
      BY <3>2 DEF LoseRequest, DeleteRow, DeleteTokens, SaveEnrolled
    <3> QED BY <3>1, <3>2
  <2>2. Onward
    BY <1>2, <1>6 DEF Onward
  <2>3. Issued'
    BY <1>1, <1>3, <1>4, <2>1, <2>2, TokensMove DEF Issued
  <2>4. Counted'
    BY <1>1, <1>3, <1>5, <1>6, FewerRequests
  <2> QED BY <2>3, <2>4 DEF Sourced
<1>7. CASE \E d \in Device : Enroll(d)
  <2>1. PICK d \in Device : Enroll(d)
    BY <1>7
  <2>2. /\ next[d] = NotEnrolled /\ next' = [next EXCEPT ![d] = 0]
        /\ enrolled' = [device |-> d, n |-> 0] /\ UNCHANGED <<stored, requests>>
    BY <2>1 DEF Enroll
  <2>3. Onward
    BY <1>2, <2>2 DEF Onward
  <2>4. Mine(enrolled)'
    <3>1. PICK t \in Tok : t = [device |-> d, n |-> 0]
      BY DEF Tok
    <3>2. t.device = d /\ t.n = 0 /\ next'[d] = 0
      BY <1>2, <2>2, <3>1
    <3>3. Mine(t)'
      BY <1>2, <3>2 DEF Mine
    <3> QED BY <2>2, <3>1, <3>3
  <2>5. Issued'
    BY <1>1, <1>3, <1>4, <2>2, <2>3, <2>4, TokensMove DEF Issued
  <2>6. Counted'
    BY <1>1, <1>2, <1>3, <2>2 DEF Counted
  <2> QED BY <2>5, <2>6 DEF Sourced
<1>8. next' = next \/ \E d \in Device : Enroll(d)
  BY DEF LoseRequest, DeleteRow, DeleteTokens, SaveEnrolled
<1> QED BY <1>6, <1>7, <1>8

LEMMA StepKeepsSourced == ASSUME IInv, IInv', Sourced, [Next]_vars PROVE Sourced'
<1>1. ASSUME NEW c \in Caller, CallerStep(c) PROVE Sourced'
  <2>1. CASE Timeout(c)
    <3>1. /\ GiveUp({c}) /\ UNCHANGED <<stored, row, enrolled, next, revoked, sent>>
          /\ \A e \in Caller : caller'[e] = Idle \/ caller'[e] = caller[e]
      BY <1>1, <2>1 DEF Timeout, Release, IInv, Types
    <3>2. row \in {"there", "deleting", "gone"}
      BY DEF Sourced, Issued
    <3> QED BY <3>1, <3>2, GiveUpKeepsSourced
  <2> QED BY <1>1, <2>1, CallerKeepsSourced, SendKeepsSourced, AnsweredKeepsSourced DEF CallerStep
<1>2. CASE AppRestarts
  <2>1. /\ GiveUp(Caller) /\ UNCHANGED <<stored, next, revoked, sent>> /\ enrolled' = NoToken
        /\ \A e \in Caller : caller'[e] = Idle
        /\ row' \in {"there", "deleting", "gone"}
    BY <1>2 DEF AppRestarts
  <2> QED BY <2>1, GiveUpKeepsSourced
<1>3. CASE UNCHANGED vars
  BY <1>3 DEF vars, Sourced, Issued, Counted, Mine
<1> QED BY <1>1, <1>2, <1>3, ServeKeepsSourced, OthersKeepSourced DEF Next

(* Whatever is lost, no token anywhere is ahead of the one the agent expects  *)
(* of its device, and every rotation took a request of its own: no answer, no *)
(* retry and no restart makes a token the agent has not issued.               *)
THEOREM TokensAreIssued == Spec => []Sourced
<1>1. Init => Sourced
  <2> SUFFICES ASSUME Init PROVE Sourced
    OBVIOUS
  <2>1. PICK d \in Device : /\ stored = [device |-> d, n |-> 0]
                            /\ next = [e \in Device |-> IF e = d THEN 0 ELSE NotEnrolled]
    BY DEF Init
  <2>2. Mine(stored)
    BY <2>1 DEF Mine, Tok, NotEnrolled
  <2>3. IsFiniteSet(requests) /\ Cardinality(requests) = 0
    BY FS_EmptySet DEF Init
  <2>4. Counted
    BY <2>1, <2>3, TokenProtocolAssumption DEF Init, Counted, NotEnrolled
  <2> QED BY <2>2, <2>4 DEF Init, Sourced, Issued, Idle
<1>2. IInv /\ IInv' /\ Sourced /\ [Next]_vars => Sourced'
  BY StepKeepsSourced
<1> QED BY <1>1, <1>2, Invariance, PTL DEF Spec

(* So every counter of a token stays within the number of requests, however   *)
(* many callers and devices there are.                                        *)
THEOREM TokenTypes == Spec => []TypeOK
<1>1. ASSUME IInv, Sourced PROVE TypeOK
  <2>1. Types /\ Issued /\ Counted
    BY <1>1 DEF IInv, Sourced
  <2>2. /\ sent \in 0 .. MaxRequests /\ Cardinality(requests) \in Nat /\ MaxRequests \in Nat
        /\ NotEnrolled = -1
        /\ \A d \in Device : next[d] \in Nat \cup {NotEnrolled} /\ next[d] <= MaxRequests
    BY <2>1, CounterBounds DEF Counted
  <2>3. ASSUME NEW t, Mine(t) PROVE t \in Token
    <3>1. t \in Tok /\ t.device \in Device /\ t.n \in Nat /\ t.n <= next[t.device] /\ next[t.device] \in Int
      BY <2>2, <2>3 DEF Mine, Tok
    <3>2. t.n \in 0 .. MaxRequests
      BY <2>2, <3>1
    <3> QED BY <3>1, <3>2 DEF Tok, Token
  <2>4. next \in [Device -> NotEnrolled .. MaxRequests]
    BY <2>1, <2>2 DEF Types
  <2>5. ASSUME NEW q \in requests PROVE q \in Request
    <3>1. q.token \in Token /\ q.id \in 1 .. MaxRequests
      BY <2>1, <2>2, <2>3 DEF Issued
    <3> QED BY <2>1, <3>1 DEF Types, Request
  <2>6. ASSUME NEW a \in answers PROVE a \in [to : Caller, token : Token \cup {Refused}]
    <3>1. a.token \in Token \cup {Refused}
      BY <2>1, <2>3 DEF Issued
    <3> QED BY <2>1, <3>1 DEF Types
  <2>7. caller \in [Caller -> [pc : Holding \cup {"idle", "waiting"}, token : Token \cup {NoToken}]]
    <3>1. ASSUME NEW c \in Caller
          PROVE  caller[c] \in [pc : Holding \cup {"idle", "waiting"}, token : Token \cup {NoToken}]
      <4>1. caller[c].token \in Token \cup {NoToken}
        BY <2>1, <2>3 DEF Issued
      <4> QED BY <2>1, <4>1 DEF Types
    <3> QED BY <2>1, <3>1 DEF Types
  <2>8. {stored, enrolled} \subseteq Token \cup {NoToken}
    BY <2>1, <2>3 DEF Issued
  <2>9. lock # None => caller[lock].pc \in Holding
    BY <2>1 DEF Types
  <2> QED BY <2>1, <2>2, <2>4, <2>5, <2>6, <2>7, <2>8, <2>9 DEF Types, Issued, TypeOK
<1> QED BY <1>1, Invariance, TokensAreIssued, PTL
==============================================================================
