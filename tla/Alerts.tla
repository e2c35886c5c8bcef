-------------------------------- MODULE Alerts --------------------------------
(* The engine of agent/internal/alerts/alerts.go: threshold rules with        *)
(* debounce, containers that are down, and the bounded buffer of alerts. Time *)
(* is kept as the age of each breach, up to the age the rule asks for.        *)
EXTENDS HostMetrics, Sequences

CONSTANTS
  Order,      \* the order EvaluateHost checks them in
  For,        \* Threshold.ForSeconds of each, in ticks
  Container,
  Reporter,   \* goroutines that report docker events: one is meant, the agent has none
  MaxBuffer   \* capacity of the buffer

ASSUME AlertsAssumption == /\ Order \in Seq(Metric) /\ For \in [Metric -> Nat]
                           /\ MaxBuffer \in Nat \ {0} /\ Metric \cap Container = {}
                           /\ None \notin Container

VARIABLES
  rules,     \* the metrics whose threshold is above zero
  buffer,    \* Engine.buffer
  raised,    \* how many alerts were ever raised
  breachAt,  \* the age of each breach, or None
  active,    \* Engine.active
  downCtrs,  \* Engine.downCtrs
  checking,  \* EvaluateHost in progress: the values and the metrics left to check
  report,    \* the alert each reporter has still to emit
  observed   \* what the values alone say of each metric, for the properties

alertVars == <<rules, buffer, raised, breachAt, active, downCtrs, checking, report, observed>>

Unbroken == [age |-> None, seen |-> None, alerts |-> 0, gap |-> FALSE]
AlertsInit(on) == /\ rules = on /\ buffer = <<>> /\ raised = 0
                  /\ breachAt = [m \in Metric |-> None] /\ active = {} /\ downCtrs = {}
                  /\ checking = [values |-> None, left |-> <<>>]
                  /\ report = [r \in Reporter |-> None]
                  /\ observed = [m \in Metric |-> Unbroken]

(* emitLocked: append, and forget the oldest ones over the limit.             *)
Newest_Oldest(s) == SubSeq(s, 1, MaxBuffer)
Newest(s) == SubSeq(s, Len(s) - MaxBuffer + 1, Len(s))
Emit(type) ==
  LET longer == Append(buffer, [id |-> raised + 1, type |-> type, acked |-> FALSE]) IN
  /\ buffer' = IF Len(longer) > MaxBuffer THEN Newest(longer) ELSE longer
  /\ raised' = raised + 1

UpdateRules(on) == /\ rules' = on
                   /\ UNCHANGED <<buffer, raised, breachAt, active, downCtrs, checking, report, observed>>

EvaluateHost(values) == /\ checking.left = <<>>
                        /\ checking' = [values |-> values, left |-> Order]
                        /\ UNCHANGED <<rules, buffer, raised, breachAt, active, downCtrs, report, observed>>

(* check, and what an observer of the values notes of it: a metric that is    *)
(* absent or without a rule is skipped and leaves a gap.                      *)
Older_Restarts(age) == 0
Older(age) == IF age = None THEN 0 ELSE age

Note(m, age, seen, alerts, gap) ==
  observed' = [observed EXCEPT ![m] = [age |-> age, seen |-> seen, alerts |-> alerts, gap |-> gap]]

Skip(m) == /\ Note(m, None, None, observed[m].alerts, observed[m].gap \/ breachAt[m] # None)
           /\ UNCHANGED <<buffer, raised, breachAt, active>>

CheckHigh(m) ==
  LET age == Older(breachAt[m])
      fires == m \notin active /\ age >= For[m]
      seen == Older(observed[m].age)
  IN /\ breachAt' = [breachAt EXCEPT ![m] = age]
     /\ active' = IF fires THEN active \cup {m} ELSE active
     /\ IF fires THEN Emit(m) ELSE UNCHANGED <<buffer, raised>>
     /\ Note(m, seen, seen, observed[m].alerts + (IF fires THEN 1 ELSE 0), observed[m].gap)

CheckLow_StaysActive(m) == /\ breachAt' = [breachAt EXCEPT ![m] = None]
                           /\ observed' = [observed EXCEPT ![m] = Unbroken]
                           /\ UNCHANGED <<buffer, raised, active>>

CheckLow(m) == /\ breachAt' = [breachAt EXCEPT ![m] = None]
               /\ active' = active \ {m}
               /\ Note(m, None, None, 0, FALSE)
               /\ UNCHANGED <<buffer, raised>>

Check ==
  /\ checking.left # <<>>
  /\ LET m == Head(checking.left)  value == checking.values[m] IN
       \/ (m \notin rules \/ value = "absent") /\ Skip(m)
       \/ m \in rules /\ value = "high" /\ CheckHigh(m)
       \/ m \in rules /\ value = "low" /\ CheckLow(m)
  /\ checking' = [values |-> IF Len(checking.left) = 1 THEN None ELSE checking.values,
                  left |-> Tail(checking.left)]
  /\ UNCHANGED <<rules, downCtrs, report>>

(* A tick between two evaluations: an evaluation reads the clock once.        *)
Aged(age, m) == IF age = None \/ age = For[m] THEN age ELSE age + 1
AgeBreaches == /\ checking.left = <<>>
               /\ breachAt' = [m \in Metric |-> Aged(breachAt[m], m)]
               /\ observed' = [m \in Metric |-> [age |-> Aged(observed[m].age, m), seen |-> observed[m].seen,
                                                alerts |-> observed[m].alerts, gap |-> observed[m].gap]]
               /\ UNCHANGED <<rules, buffer, raised, active, downCtrs, checking, report>>

-----------------------------------------------------------------------------
(* ContainerDown marks the container under the lock and emits under it again. *)
ContainerDown(r, c) == /\ report[r] = None /\ c \notin downCtrs
                       /\ downCtrs' = downCtrs \cup {c}
                       /\ report' = [report EXCEPT ![r] = c]
                       /\ UNCHANGED <<rules, buffer, raised, breachAt, active, checking, observed>>

DownEmits(r) == /\ report[r] # None
                /\ Emit(report[r])
                /\ report' = [report EXCEPT ![r] = None]
                /\ UNCHANGED <<rules, breachAt, active, downCtrs, checking, observed>>

ContainerUp_Forgets(r, c) ==
  /\ report[r] = None
  /\ downCtrs' = downCtrs \ {c}
  /\ UNCHANGED <<rules, buffer, raised, breachAt, active, checking, report, observed>>

Marked(alert) == [id |-> alert.id, type |-> alert.type, acked |-> TRUE]
ContainerUp(r, c) ==
  /\ report[r] = None
  /\ downCtrs' = downCtrs \ {c}
  /\ buffer' = [i \in DOMAIN buffer |-> IF buffer[i].type = c THEN Marked(buffer[i]) ELSE buffer[i]]
  /\ UNCHANGED <<rules, raised, breachAt, active, checking, report, observed>>

Ack(i) == /\ i \in DOMAIN buffer
          /\ buffer' = [buffer EXCEPT ![i] = Marked(buffer[i])]
          /\ UNCHANGED <<rules, raised, breachAt, active, downCtrs, checking, report, observed>>

-----------------------------------------------------------------------------
AlertsTypeOK ==
  /\ rules \subseteq Metric /\ active \subseteq Metric /\ downCtrs \subseteq Container
  /\ raised \in Nat /\ Len(buffer) <= MaxBuffer
  /\ \A i \in DOMAIN buffer : buffer[i].type \in Metric \cup Container /\ buffer[i].acked \in BOOLEAN
  /\ \A m \in Metric : breachAt[m] \in {None} \cup 0 .. For[m]
  /\ report \in [Reporter -> Container \cup {None}]

(* One alert for a breach, raised at the first check that finds the threshold *)
(* exceeded for as long as the rule asks, and not before; while no check was  *)
(* skipped since the breach began. Never two, skipped or not.                 *)
AlertsMatchBreaches == \A m \in Metric :
  LET o == observed[m] IN
  /\ o.alerts <= 1
  /\ ~o.gap => (o.alerts = 1 <=> o.seen # None /\ o.seen >= For[m])

(* The buffer holds the newest alerts, all of them up to its capacity, in the *)
(* order they were raised.                                                    *)
NewestKept == /\ Len(buffer) = IF raised < MaxBuffer THEN raised ELSE MaxBuffer
              /\ \A i \in DOMAIN buffer : buffer[i].id = raised - Len(buffer) + i

(* "ContainerUp clears a container-down alert": of a container that is not    *)
(* down, and whose alert is not on its way, every alert is acknowledged.      *)
UpIsAcked == \A i \in DOMAIN buffer :
  LET c == buffer[i].type IN
  (c \in Container \ downCtrs /\ \A r \in Reporter : report[r] # c) => buffer[i].acked

(* An acknowledged alert stays so, wherever it moves in the buffer.           *)
AckedStays == [][\A i \in DOMAIN buffer, j \in DOMAIN buffer' :
  (buffer[i].id = buffer'[j].id /\ buffer[i].acked) => buffer'[j].acked]_alertVars
=============================================================================
