----------------------------- MODULE HostMetrics ------------------------------
(* host.Metrics, the samples that agent/internal/host/host.go takes and       *)
(* agent/internal/alerts/alerts.go evaluates: of each gauge, whether it is    *)
(* over its threshold.                                                        *)
EXTENDS Integers

CONSTANTS
  Metric,    \* what a sample measures: cpu, memory, swap, each mount, each sensor
  Optional,  \* those a sample may lack: mounts and sensors come and go
  None

ASSUME MetricsAssumption == Optional \subseteq Metric /\ None \notin Int

Value(m) == {"low", "high"} \cup IF m \in Optional THEN {"absent"} ELSE {}
=============================================================================
