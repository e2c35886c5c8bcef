---------------------------- MODULE HostCollector -----------------------------
(* The collector of agent/internal/host/host.go: Run samples the host and     *)
(* publishes, Latest hands the published sample out, and samples by itself    *)
(* while there is none. Nothing guards the fields they share.                 *)
EXTENDS HostMetrics

CONSTANT Caller  \* calls of Latest in progress at a time

VARIABLES
  host,     \* [value, counter, dropped]: the machine; dropped once an interface vanished,
            \* which lowers the counter summed over the interfaces
  latest,   \* Collector.latest
  last,     \* Collector.last, and in ever whether Collector.lastN is set
  ever,
  sampler,  \* what each goroutine is doing, with its sample and the counter it read
  overlap   \* two samples were ever taken at once

hostVars == <<host, latest, last, ever, sampler, overlap>>

Sampler == Caller \cup {"Run"}
Away == [at |-> "away", count |-> 0, sample |-> None]

HostInit == /\ host = [value |-> [m \in Metric |-> "low"], counter |-> 0,
                       dropped |-> FALSE]
            /\ latest = None /\ last = 0 /\ ever = FALSE
            /\ sampler = [p \in Sampler |-> Away] /\ overlap = FALSE

MetricChanges(m, v) == /\ v # host.value[m]
                       /\ host' = [host EXCEPT !.value[m] = v]
                       /\ UNCHANGED <<latest, last, ever, sampler, overlap>>

Traffic == /\ host' = [host EXCEPT !.counter = @ + 1]
           /\ UNCHANGED <<latest, last, ever, sampler, overlap>>

InterfaceVanishes == /\ host.counter > 0 /\ ~host.dropped
                     /\ host' = [host EXCEPT !.counter = 0, !.dropped = TRUE]
                     /\ UNCHANGED <<latest, last, ever, sampler, overlap>>

(* Sample reads the gauges and the counters, ...                              *)
Gather(p) == /\ sampler[p] = Away
             /\ sampler' = [sampler EXCEPT ![p] =
                  [at |-> "compare", count |-> host.counter,
                   sample |-> [value |-> host.value, rate |-> "none"]]]
             /\ overlap' = (overlap \/ \E q \in Sampler : sampler[q].at \in {"compare", "store"})
             /\ UNCHANGED <<host, latest, last, ever>>

(* ... takes the difference to the counter of the sample before, as a uint64, *)
Compare_Swapped(p) ==
  /\ sampler[p].at = "compare"
  /\ sampler' = [sampler EXCEPT ![p].at = "store",
       ![p].sample.rate = IF ~ever THEN "none" ELSE IF sampler[p].count > last THEN "wrapped" ELSE "true"]
  /\ UNCHANGED <<host, latest, last, ever, overlap>>

Compare(p) ==
  /\ sampler[p].at = "compare"
  /\ sampler' = [sampler EXCEPT ![p].at = "store",
       ![p].sample.rate = IF ~ever THEN "none" ELSE IF sampler[p].count < last THEN "wrapped" ELSE "true"]
  /\ UNCHANGED <<host, latest, last, ever, overlap>>

(* ... and stores counter and time, of which only the counter matters here.   *)
Store(p) == /\ sampler[p].at = "store"
            /\ last' = sampler[p].count /\ ever' = TRUE
            /\ sampler' = [sampler EXCEPT ![p].at = "sampled", ![p].count = 0]
            /\ UNCHANGED <<host, latest, overlap>>

SampleStep(p) == Compare(p) \/ Store(p)

(* Run publishes its sample and waits for the interval to pass.               *)
Publish == /\ sampler["Run"].at = "sampled"
           /\ latest' = sampler["Run"].sample
           /\ sampler' = [sampler EXCEPT !["Run"] = Away]
           /\ UNCHANGED <<host, last, ever, overlap>>

(* Latest: the published sample, or one of the caller's own.                  *)
LatestSamples(c) == latest = None /\ Gather(c)
Returned(c, sample) == \/ sampler[c] = Away /\ latest # None /\ sample = latest
                       \/ sampler[c].at = "sampled" /\ sample = sampler[c].sample
LatestReturns(c) == /\ \E s \in {latest, sampler[c].sample} : Returned(c, s)
                    /\ sampler' = [sampler EXCEPT ![c] = Away]
                    /\ UNCHANGED <<host, latest, last, ever, overlap>>

-----------------------------------------------------------------------------
Sample == [value : [Metric -> {"low", "high", "absent"}], rate : {"none", "true", "wrapped"}]
HostTypeOK ==
  /\ host.value \in [Metric -> {"low", "high", "absent"}] /\ host.counter \in Nat
  /\ latest \in Sample \cup {None} /\ last \in Nat /\ ever \in BOOLEAN
  /\ sampler \in [Sampler -> [at : {"away", "compare", "store", "sampled"},
                              count : Nat, sample : Sample \cup {None}]]

(* The difference of two counters wraps around, and the app is shown an       *)
(* absurd rate, only when an interface vanished or when the first samples     *)
(* were taken at once: after that Run is the only one that samples.           *)
WrapIsExplained ==
  (latest # None /\ latest.rate = "wrapped") => (host.dropped \/ overlap)
=============================================================================
