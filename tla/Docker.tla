-------------------------------- MODULE Docker --------------------------------
(* The Docker manager of the agent: the connection made by New, retried by    *)
(* retryDocker of agent/internal/server/server.go and read by dockerManager,  *)
(* and the requests that use it, one at a time: they share nothing else.      *)
EXTENDS DockerStats, DockerLogs

CONSTANT Attempts  \* retries, 6 in the code

ASSUME DockerAssumption == Attempts \in Nat

VARIABLES
  daemon,   \* whether the daemon can be reached
  manager,  \* whether Server.docker is set
  retry,    \* [at, left]: the goroutine of retryDocker and the attempts it has left
  request,  \* [at, kind]: the request in progress
  done,     \* whether the daemon did what the request in progress asks for
  answer    \* its answer

connVars == <<daemon, manager, retry>>
vars == <<statsVars, logVars, connVars, request, done, answer>>

Kinds == {"list", "logs", "act"}

(* New in server.go pings once; Run starts the retries when that failed.      *)
Init == /\ StatsInit /\ LogsInit
        /\ daemon \in BOOLEAN /\ manager \in {FALSE, daemon}
        /\ retry = [at |-> IF manager THEN "off" ELSE "waiting", left |-> Attempts]
        /\ request = [at |-> "none", kind |-> "act"]
        /\ done = FALSE /\ answer = 0

DaemonTurns == /\ daemon' = ~daemon
               /\ UNCHANGED <<statsVars, logVars, manager, retry, request, done, answer>>

(* Five seconds pass and docker.New pings the daemon.                         *)
RetryPing_Last == /\ retry.at = "waiting" /\ retry.left > 0
                  /\ retry' = [at |-> IF retry.left = 1 THEN "off" ELSE "waiting", left |-> retry.left - 1]
                  /\ manager' = (daemon /\ retry.left > 1)
                  /\ UNCHANGED <<statsVars, logVars, daemon, request, done, answer>>

RetryPing == /\ retry.at = "waiting" /\ retry.left > 0
             /\ manager' = daemon
             /\ retry' = [at |-> IF daemon \/ retry.left = 1 THEN "off" ELSE "waiting",
                          left |-> retry.left - 1]
             /\ UNCHANGED <<statsVars, logVars, daemon, request, done, answer>>

RetryCancelled == /\ retry.at = "waiting"
                  /\ retry' = [retry EXCEPT !.at = "off"]
                  /\ UNCHANGED <<statsVars, logVars, daemon, manager, request, done, answer>>

(* Every handler of /docker begins with dockerManager().                      *)
Begin(kind) == /\ request.at = "none"
               /\ request' = [at |-> IF manager THEN kind ELSE "none", kind |-> kind]
               /\ answer' = IF manager THEN 0 ELSE 503
               /\ done' = FALSE
               /\ caller' = [at |-> "starting", next |-> 1] /\ sem' = 0 /\ collected' = 0
               /\ worker' = [i \in Index |-> "none"]
               /\ reader' = "opening" /\ tty' \in BOOLEAN /\ lines' = <<>>
               /\ text' = [s \in Stream |-> <<>>] /\ buf' = [s \in Stream |-> <<>>]
               /\ UNCHANGED connVars

Finish(code) == /\ request' = [request EXCEPT !.at = "none"]
                /\ answer' = code

(* ListContainers with stats: the list, then a snapshot of each container.    *)
ListStep == /\ request.at = "list"
            /\ \/ StatsNext /\ UNCHANGED <<request, done, answer>>
               \/ /\ caller.at = "returned" /\ Finish(200) /\ done' = TRUE
                  /\ UNCHANGED statsVars
               \/ /\ caller = [at |-> "starting", next |-> 1]
                  /\ Finish(500) /\ UNCHANGED <<statsVars, done>>
            /\ UNCHANGED <<logVars, connVars>>

LogsStep == /\ request.at = "logs"
            /\ \/ LogsNext /\ UNCHANGED <<request, done, answer>>
               \/ /\ reader = "ended" /\ Finish(200) /\ done' = TRUE
                  /\ UNCHANGED logVars
               \/ /\ reader = "failed" /\ Finish(500)
                  /\ UNCHANGED <<logVars, done>>
            /\ UNCHANGED <<statsVars, connVars>>

(* start, stop, restart, pause, unpause, kill and remove pass one call on.    *)
(* The daemon does it or refuses; when the client goes away the handler       *)
(* reports an error of a call that may have been carried out.                 *)
DaemonActs == /\ request.at = "act" /\ ~done /\ daemon
              /\ done' = TRUE
              /\ UNCHANGED <<statsVars, logVars, connVars, request, answer>>

ActEnds_ErrorIgnored == /\ request.at = "act"
                        /\ Finish(204)
                        /\ UNCHANGED <<statsVars, logVars, connVars, done>>

ActEnds == /\ request.at = "act"
           /\ \/ Finish(500)
              \/ done /\ Finish(204)
           /\ UNCHANGED <<statsVars, logVars, connVars, done>>

Next == \/ DaemonTurns \/ RetryPing \/ RetryCancelled
        \/ \E kind \in Kinds : Begin(kind)
        \/ ListStep \/ LogsStep \/ DaemonActs \/ ActEnds

Spec == Init /\ [][Next]_vars

(* The daemon answers every call in the end, the log stream of a request that *)
(* does not follow ends, and goroutines that can run do.                      *)
Fairness == /\ WF_vars(RetryPing) /\ WF_vars(ListStep) /\ WF_vars(ActEnds)
            /\ WF_vars(request.at = "logs" /\ LogsStep /\ reader' # reader)
            /\ WF_vars(LogsStep /\ request' # request)
            /\ \A s \in Stream : WF_vars(LogsStep /\ EmitLine(s))
FairSpec == Spec /\ Fairness

-----------------------------------------------------------------------------
TypeOK == /\ StatsTypeOK /\ LogsTypeOK
          /\ daemon \in BOOLEAN /\ manager \in BOOLEAN /\ done \in BOOLEAN
          /\ retry \in [at : {"off", "waiting"}, left : 0 .. Attempts]
          /\ request \in [at : Kinds \cup {"none"}, kind : Kinds]
          /\ answer \in {0, 200, 204, 500, 503}

(* An answer says what happened: a success only after the daemon did what was *)
(* asked, "unavailable" only without asking it, a list only with every worker *)
(* gone, logs only when the whole stream was read.                            *)
AnswersAreTrue ==
  /\ answer \in {200, 204} => done
  /\ answer = 503 => ~done
  /\ answer = 200 /\ request.kind = "list" => \A i \in Index : worker[i] = "ended"
  /\ answer = 200 /\ request.kind = "logs" =>
       /\ Quiet /\ ~(tty /\ reader = "multiplexed")
       /\ \A s \in Stream : Emitted(s) = LinesOf(s)

(* A daemon that is up while retries are left is connected, unless it goes    *)
(* down again or the agent stops.                                             *)
UpIsConnected ==
  (retry.at = "waiting" /\ daemon) ~> (manager \/ ~daemon \/ (retry.at = "off" /\ retry.left > 0))

(* Every request is answered: the workers of a list never wait for each other *)
(* and for the caller at once.                                                *)
RequestEnds == request.at # "none" ~> request.at = "none"
=============================================================================
