----------------------------- MODULE DockerStats ------------------------------
(* annotateStats of agent/internal/docker/docker.go: one goroutine for each   *)
(* container of a list, no more than Slots of them at work, each reporting on *)
(* an unbuffered channel that the caller reads once it has started them all.  *)
EXTENDS Integers, FiniteSets

CONSTANTS N,     \* length of the list
          Slots  \* capacity of sem, 8 in the code

ASSUME StatsAssumption == N \in Nat /\ Slots \in Nat \ {0}

VARIABLES
  caller,    \* [at, next]: what the caller does, and the next index it starts
  sem,       \* messages in the semaphore channel
  worker,    \* the goroutine of each index
  collected  \* messages taken from done

statsVars == <<caller, sem, worker, collected>>

Index == 1 .. N
StatsInit == /\ caller = [at |-> "starting", next |-> 1]
             /\ sem = 0 /\ collected = 0
             /\ worker = [i \in Index |-> "none"]

(* sem <- struct{}{}, then go.                                                *)
StartWorker == /\ caller.at = "starting" /\ caller.next <= N /\ sem < Slots
               /\ sem' = sem + 1
               /\ worker' = [worker EXCEPT ![caller.next] = "calling"]
               /\ caller' = [caller EXCEPT !.next = @ + 1]
               /\ UNCHANGED collected

AllStarted == /\ caller.at = "starting" /\ caller.next > N
              /\ caller' = [caller EXCEPT !.at = "collecting"]
              /\ UNCHANGED <<sem, worker, collected>>

(* ContainerStatsOneShot answers and the worker writes its entry, or it fails *)
(* and the entry stays zero.                                                  *)
CallReturns(i) == /\ worker[i] = "calling"
                  /\ \E result \in {"wrote", "failed"} : worker' = [worker EXCEPT ![i] = result]
                  /\ UNCHANGED <<caller, sem, collected>>

(* The deferred function: <-sem, and only then done <- struct{}{}.            *)
Release_AfterReport(i) == /\ worker[i] \in {"wrote", "failed"} /\ caller.at = "collecting"
                          /\ sem' = sem - 1
                          /\ worker' = [worker EXCEPT ![i] = "reporting"]
                          /\ UNCHANGED <<caller, collected>>

Release(i) == /\ worker[i] \in {"wrote", "failed"} /\ sem > 0
              /\ sem' = sem - 1
              /\ worker' = [worker EXCEPT ![i] = "reporting"]
              /\ UNCHANGED <<caller, collected>>

Collect(i) == /\ caller.at = "collecting" /\ collected < N /\ worker[i] = "reporting"
              /\ worker' = [worker EXCEPT ![i] = "ended"]
              /\ collected' = collected + 1
              /\ UNCHANGED <<caller, sem>>

AllCollected_Early == /\ caller.at = "collecting" /\ collected >= N - Slots
                      /\ caller' = [caller EXCEPT !.at = "returned"]
                      /\ UNCHANGED <<sem, worker, collected>>

AllCollected == /\ caller.at = "collecting" /\ collected = N
                /\ caller' = [caller EXCEPT !.at = "returned"]
                /\ UNCHANGED <<sem, worker, collected>>

StatsNext == \/ StartWorker \/ AllStarted \/ AllCollected
             \/ \E i \in Index : CallReturns(i) \/ Release(i) \/ Collect(i)

StatsSpec == StatsInit /\ [][StatsNext]_statsVars

-----------------------------------------------------------------------------
StatsTypeOK ==
  /\ caller \in [at : {"starting", "collecting", "returned"}, next : 1 .. N + 1]
  /\ sem \in Nat /\ collected \in 0 .. N
  /\ worker \in [Index -> {"none", "calling", "wrote", "failed", "reporting", "ended"}]

AtWork == {i \in Index : worker[i] \in {"calling", "wrote", "failed"}}

(* "bounded concurrency": the daemon is never asked for more than Slots       *)
(* snapshots at a time.                                                       *)
BoundedConcurrency == Cardinality(AtWork) <= Slots

(* ListContainers may hand the list on when annotateStats returns: no worker  *)
(* is left that could still write to it or wait to be heard.                  *)
ReturnedIsQuiet == caller.at = "returned" => \A i \in Index : worker[i] = "ended"
=============================================================================
