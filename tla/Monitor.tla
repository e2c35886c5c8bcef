------------------------------- MODULE Monitor --------------------------------
(* The goroutines of agent/internal/server/server.go around the collector and *)
(* the alerts engine: the one that evaluates the latest sample on a ticker of *)
(* its own, those that broadcast or answer with it, and the handlers of       *)
(* /alerts.                                                                   *)
EXTENDS HostCollector, Alerts

CONSTANTS RuleSets,   \* the rules the engine may be given: the agent gives it none
          MaxChanges  \* bound on what the machine, the daemon and the user do

ASSUME MonitorAssumption == MaxChanges \in Nat /\ RuleSets \subseteq SUBSET Metric

VARIABLE changes  \* what they have done so far

vars == <<hostVars, alertVars, changes>>

Init == HostInit /\ (\E on \in RuleSets : AlertsInit(on)) /\ changes = 0

Counted == changes < MaxChanges /\ changes' = changes + 1

Host == /\ Counted
        /\ \/ \E m \in Metric : \E v \in Value(m) : MetricChanges(m, v)
           \/ Traffic \/ InterfaceVanishes
        /\ UNCHANGED alertVars

(* c.Run: sample, publish, wait.                                              *)
Run == (Gather("Run") \/ SampleStep("Run") \/ Publish) /\ UNCHANGED <<alertVars, changes>>

CallLatest(c) == (LatestSamples(c) \/ SampleStep(c)) /\ UNCHANGED <<alertVars, changes>>

(* broadcastMetrics and handleMetricsLatest send what Latest returns.         *)
Show(c) == LatestReturns(c) /\ UNCHANGED <<alertVars, changes>>

(* The ticker of the evaluation: whatever Latest returns, new or not.         *)
Evaluate(c) == /\ \E s \in {latest, sampler[c].sample} : Returned(c, s) /\ EvaluateHost(s.value)
               /\ LatestReturns(c)
               /\ UNCHANGED changes

CheckNext == Check /\ UNCHANGED <<hostVars, changes>>
Tick == AgeBreaches /\ UNCHANGED <<hostVars, changes>>

DockerEvent(r) == \/ /\ Counted
                     /\ \E c \in Container : ContainerDown(r, c) \/ ContainerUp(r, c)
                     /\ UNCHANGED hostVars
                  \/ DownEmits(r) /\ UNCHANGED <<hostVars, changes>>

Handlers == /\ Counted
            /\ \/ \E i \in DOMAIN buffer : Ack(i)
               \/ \E on \in RuleSets : UpdateRules(on)
            /\ UNCHANGED hostVars

Next == \/ Host \/ Run \/ CheckNext \/ Tick \/ Handlers
        \/ \E c \in Caller : CallLatest(c) \/ Show(c) \/ Evaluate(c)
        \/ \E r \in Reporter : DockerEvent(r)

Spec == Init /\ [][Next]_vars

(* Tickers fire, calls of the operating system return. Time goes on whatever  *)
(* they do; it is the model that lets it pass between evaluations only, hence *)
(* SF.                                                                        *)
Fairness == WF_vars(Run) /\ WF_vars(CheckNext) /\ SF_vars(Tick)
            /\ \A c \in Caller : WF_vars(CallLatest(c)) /\ WF_vars(Evaluate(c))
FairSpec == Spec /\ Fairness

-----------------------------------------------------------------------------
TypeOK == HostTypeOK /\ AlertsTypeOK /\ changes \in 0 .. MaxChanges

(* A threshold that the host goes on exceeding is alerted, though samples are *)
(* taken and evaluated by two goroutines that know nothing of each other.     *)
HighIsAlerted == \A m \in Metric :
  (host.value[m] = "high" /\ m \in rules) ~> (m \in active \/ host.value[m] # "high" \/ m \notin rules)
=============================================================================
