------------------------------- MODULE Terminal -------------------------------
(* The PTY sessions of agent/internal/terminal/terminal.go: the registry of   *)
(* the Manager, the requests that create and kill sessions, the pump of each  *)
(* session, and the goroutines that discard its output while it is detached.  *)
EXTENDS Naturals, FiniteSets

CONSTANTS
  Session,      \* the sessions that may ever be spawned
  Request,      \* handlers in progress at a time
  MaxSessions,  \* terminal.maxSessions
  OutCap,       \* capacity of Session.out (256 in the code)
  MaxStopping,  \* bound on discarders of a session that were told to stop
  Swept,        \* whether anything calls Sweep and KillAll: the agent does not
  Streamed,     \* sessions that anything attaches to and detaches from: the agent has none
  None

ASSUME TerminalAssumption == /\ MaxSessions \in Nat \ {0} /\ OutCap \in Nat \ {0}
                             /\ MaxStopping \in Nat /\ IsFiniteSet(Request)
                             /\ Swept \in BOOLEAN /\ Streamed \subseteq Session
                             /\ None \notin Session

VARIABLES
  registry,  \* Manager.sessions
  req,       \* what each handler is doing and with which sessions
  refused,   \* whether the last Create was refused with ErrFull
  shell,     \* the process of each session
  done,      \* whether Session.done is closed
  pump,      \* the goroutine that reads the PTY
  out,       \* how many chunks wait in Session.out
  idle,      \* the session was last active longer than idleTimeout ago
  attached,  \* Session.attached
  discards,  \* whether a discarder runs, and how many were told to stop
  lost       \* output was discarded while a client was attached

sessionVars == <<shell, done, pump, out, idle, attached, discards, lost>>
termVars == <<registry, req, refused, sessionVars>>

Waiting == [at |-> "idle", sessions |-> {}]
Live(s) == shell[s] = "running"

TermInit == /\ registry = {} /\ refused = FALSE
            /\ req = [r \in Request |-> Waiting]
            /\ shell = [s \in Session |-> "none"]
            /\ done = [s \in Session |-> FALSE]
            /\ pump = [s \in Session |-> "none"]
            /\ out = [s \in Session |-> 0]
            /\ idle = [s \in Session |-> FALSE]
            /\ attached = [s \in Session |-> FALSE]
            /\ discards = [s \in Session |-> [running |-> FALSE, stopping |-> 0]]
            /\ lost = FALSE

(* Session.Kill: done is closed once, the PTY closed, the process killed.     *)
Kill(S) == /\ done' = [s \in Session |-> done[s] \/ s \in S]
           /\ shell' = [s \in Session |-> IF s \in S THEN "exited" ELSE shell[s]]

-----------------------------------------------------------------------------
(* Manager.Create: the limit is checked, the lock released, the shell         *)
(* started, and the session registered under the lock again.                  *)
CreateCheck_OffByOne(r) == /\ req[r].at = "idle"
                           /\ Cardinality(registry) <= MaxSessions
                           /\ req' = [req EXCEPT ![r] = [at |-> "create", sessions |-> {}]]
                           /\ refused' = FALSE
                           /\ UNCHANGED <<registry, sessionVars>>

CreateCheck(r) == /\ req[r].at = "idle"
                  /\ Cardinality(registry) < MaxSessions
                  /\ req' = [req EXCEPT ![r] = [at |-> "create", sessions |-> {}]]
                  /\ refused' = FALSE
                  /\ UNCHANGED <<registry, sessionVars>>

CreateRefused(r) == /\ req[r].at = "idle"
                    /\ Cardinality(registry) >= MaxSessions
                    /\ refused' = TRUE
                    /\ UNCHANGED <<registry, req, sessionVars>>

Spawn(r, s) == /\ req[r].at = "create" /\ shell[s] = "none"
               /\ shell' = [shell EXCEPT ![s] = "running"]
               /\ pump' = [pump EXCEPT ![s] = "reading"]
               /\ req' = [req EXCEPT ![r] = [at |-> "spawned", sessions |-> {s}]]
               /\ UNCHANGED <<registry, refused, done, out, idle, attached, discards, lost>>

SpawnFails(r) == /\ req[r].at = "create"
                 /\ req' = [req EXCEPT ![r] = Waiting]
                 /\ UNCHANGED <<registry, refused, sessionVars>>

Insert(r) == /\ req[r].at = "spawned"
             /\ registry' = registry \cup req[r].sessions
             /\ req' = [req EXCEPT ![r] = Waiting]
             /\ UNCHANGED <<refused, sessionVars>>

(* Manager.Kill, KillAll and Sweep take sessions out of the registry under    *)
(* the lock and kill them after it.                                           *)
Unlist(r, S) == /\ req[r].at = "idle" /\ S \subseteq registry
                /\ registry' = registry \ S
                /\ req' = [req EXCEPT ![r] = [at |-> "kill", sessions |-> S]]
                /\ UNCHANGED <<refused, sessionVars>>

Delete(r, s) == s \in registry /\ Unlist(r, {s})
KillAll(r)   == Swept /\ Unlist(r, registry)
Sweep(r)     == Swept /\ Unlist(r, {s \in registry : idle[s]})

KillRemoved_First(r) == /\ req[r].at = "kill"
                        /\ \/ \E s \in req[r].sessions : Kill({s})
                           \/ req[r].sessions = {} /\ UNCHANGED <<done, shell>>
                        /\ req' = [req EXCEPT ![r] = Waiting]
                        /\ UNCHANGED <<registry, refused, pump, out, idle, attached, discards, lost>>

KillRemoved(r) == /\ req[r].at = "kill"
                  /\ Kill(req[r].sessions)
                  /\ req' = [req EXCEPT ![r] = Waiting]
                  /\ UNCHANGED <<registry, refused, pump, out, idle, attached, discards, lost>>

-----------------------------------------------------------------------------
(* The user leaves the shell, or it dies.                                     *)
Exit(s) == /\ Live(s)
           /\ shell' = [shell EXCEPT ![s] = "exited"]
           /\ UNCHANGED <<registry, req, refused, done, pump, out, idle, attached, discards, lost>>

(* The pump reads a chunk, which a shell that has exited may have left in the *)
(* PTY, touches the session, and sends the chunk on unless the session is     *)
(* done.                                                                      *)
PumpRead(s) == /\ pump[s] = "reading" /\ ~done[s]
               /\ pump' = [pump EXCEPT ![s] = "sending"]
               /\ idle' = [idle EXCEPT ![s] = FALSE]
               /\ UNCHANGED <<registry, req, refused, shell, done, out, attached, discards, lost>>

PumpSend(s) == /\ pump[s] = "sending" /\ out[s] < OutCap
               /\ pump' = [pump EXCEPT ![s] = "reading"]
               /\ out' = [out EXCEPT ![s] = @ + 1]
               /\ UNCHANGED <<registry, req, refused, shell, done, idle, attached, discards, lost>>

PumpDone_Never(s) == FALSE

PumpDone(s) == /\ pump[s] = "sending" /\ done[s]
               /\ pump' = [pump EXCEPT ![s] = "ended"]
               /\ UNCHANGED <<registry, req, refused, shell, done, out, idle, attached, discards, lost>>

(* The PTY is closed: the pump kills the session, which stays registered.     *)
PumpError(s) == /\ pump[s] = "reading" /\ shell[s] = "exited"
                /\ pump' = [pump EXCEPT ![s] = "ended"]
                /\ Kill({s})
                /\ UNCHANGED <<registry, req, refused, out, idle, attached, discards, lost>>

(* Input and Resize touch the session, Resize even one that is done.          *)
Input(s) == /\ shell[s] # "none"
            /\ idle' = [idle EXCEPT ![s] = FALSE]
            /\ UNCHANGED <<registry, req, refused, shell, done, pump, out, attached, discards, lost>>

BecomeIdle(s) == /\ shell[s] # "none" /\ ~idle[s]
                 /\ idle' = [idle EXCEPT ![s] = TRUE]
                 /\ UNCHANGED <<registry, req, refused, shell, done, pump, out, attached, discards, lost>>

-----------------------------------------------------------------------------
(* Attach tells the running discarder to stop; Detach starts one, only if the *)
(* session was attached.                                                      *)
Attach_Forgets(s) == /\ s \in Streamed /\ shell[s] # "none"
                     /\ attached' = [attached EXCEPT ![s] = TRUE]
                     /\ UNCHANGED <<registry, req, refused, shell, done, pump, out, idle, discards, lost>>

Attach(s) == /\ s \in Streamed /\ shell[s] # "none" /\ discards[s].stopping < MaxStopping
             /\ attached' = [attached EXCEPT ![s] = TRUE]
             /\ discards' = [discards EXCEPT ![s] =
                  IF @.running THEN [running |-> FALSE, stopping |-> @.stopping + 1] ELSE @]
             /\ UNCHANGED <<registry, req, refused, shell, done, pump, out, idle, lost>>

Detach(s) == /\ s \in Streamed /\ shell[s] # "none" /\ attached[s]
             /\ attached' = [attached EXCEPT ![s] = FALSE]
             /\ discards' = [discards EXCEPT ![s] = [running |-> TRUE, stopping |-> @.stopping]]
             /\ UNCHANGED <<registry, req, refused, shell, done, pump, out, idle, lost>>

(* A discarder that was told to stop may still take a chunk: its select has   *)
(* both ready.                                                                *)
Discard(s) == /\ discards[s].running \/ discards[s].stopping > 0
              /\ out[s] > 0
              /\ out' = [out EXCEPT ![s] = @ - 1]
              /\ lost' = (lost \/ attached[s])
              /\ UNCHANGED <<registry, req, refused, shell, done, pump, idle, attached, discards>>

DiscardStops(s) == /\ discards[s].stopping > 0
                   /\ discards' = [discards EXCEPT ![s] = [running |-> @.running, stopping |-> @.stopping - 1]]
                   /\ UNCHANGED <<registry, req, refused, shell, done, pump, out, idle, attached, lost>>

(* The attached client takes a chunk from Out().                              *)
Receive(s) == /\ attached[s] /\ out[s] > 0
              /\ out' = [out EXCEPT ![s] = @ - 1]
              /\ UNCHANGED <<registry, req, refused, shell, done, pump, idle, attached, discards, lost>>

RequestStep(r) == \/ CreateCheck(r) \/ CreateRefused(r) \/ SpawnFails(r)
                  \/ \E s \in Session : Spawn(r, s) \/ Delete(r, s)
                  \/ Insert(r) \/ KillAll(r) \/ Sweep(r) \/ KillRemoved(r)

SessionStep(s) == \/ Exit(s) \/ PumpRead(s) \/ PumpSend(s) \/ PumpDone(s) \/ PumpError(s)
                  \/ Input(s) \/ BecomeIdle(s) \/ Attach(s) \/ Detach(s)
                  \/ Discard(s) \/ DiscardStops(s) \/ Receive(s)

TermNext == \/ \E r \in Request : RequestStep(r)
            \/ \E s \in Session : SessionStep(s)

TermSpec == TermInit /\ [][TermNext]_termVars

(* Goroutines that can run do; users, shells and clients owe nothing.         *)
TermFairness == /\ \A r \in Request : /\ WF_termVars(Insert(r)) /\ WF_termVars(KillRemoved(r))
                /\ \A s \in Session : /\ WF_termVars(PumpSend(s)) /\ WF_termVars(PumpDone(s))
                                      /\ WF_termVars(PumpError(s))
                                      /\ WF_termVars(Discard(s)) /\ WF_termVars(DiscardStops(s))
TermFairSpec == TermSpec /\ TermFairness

-----------------------------------------------------------------------------
TermTypeOK ==
  /\ registry \subseteq {s \in Session : shell[s] # "none"}
  /\ req \in [Request -> [at : {"idle", "create", "spawned", "kill"}, sessions : SUBSET Session]]
  /\ refused \in BOOLEAN /\ lost \in BOOLEAN
  /\ shell \in [Session -> {"none", "running", "exited"}]
  /\ done \in [Session -> BOOLEAN]
  /\ pump \in [Session -> {"none", "reading", "sending", "ended"}]
  /\ out \in [Session -> 0 .. OutCap]
  /\ idle \in [Session -> BOOLEAN] /\ attached \in [Session -> BOOLEAN]
  /\ discards \in [Session -> [running : BOOLEAN, stopping : 0 .. MaxStopping]]

Creating == {r \in Request : req[r].at \in {"create", "spawned"}}

(* Create checks the limit and registers in two lock sections: creators that  *)
(* race pass it, but by no more than one session each.                        *)
LimitWithRaces == Cardinality(registry) + Cardinality(Creating)
                    <= MaxSessions + Cardinality(Request) - 1

(* A session has a discarder exactly while it is detached after an Attach, so *)
(* a client never reads beside one that was not told to stop.                 *)
NoDiscarderWhileAttached == \A s \in Session : ~(attached[s] /\ discards[s].running)

(* config.example.yaml: "Max concurrent PTY sessions."                        *)
MaxConcurrent == Cardinality({s \in Session : Live(s)}) <= MaxSessions

(* ErrFull says "too many sessions": Create refuses only then.                *)
RefusedOnlyWhenFull == [][(\E r \in Request : CreateRefused(r)) =>
                            Cardinality({s \in Session : Live(s)}) >= MaxSessions]_termVars

(* Attach "stops output discarding".                                          *)
NothingLostWhileAttached == ~lost

(* A session taken out of the registry by Kill, KillAll or Sweep is killed.   *)
RemovedIsKilled == \A s \in Session : (shell[s] # "none" /\ s \notin registry)
                                         ~> (done[s] \/ s \in registry)

(* Create and Kill have a session in their hands between their lock sections: *)
(* one that is neither registered nor done is still a handler's.              *)
NobodyForgotten == \A s \in Session : shell[s] # "none" =>
  \/ s \in registry \/ done[s]
  \/ \E r \in Request : req[r].at \in {"spawned", "kill"} /\ s \in req[r].sessions

(* The pump of a session that is done never waits: it is at a send whose      *)
(* select has done beside it, or at a read of a PTY that is closed.           *)
DonePumpGoesOn == \A s \in Session : done[s] =>
  \/ pump[s] \in {"sending", "ended"}
  \/ pump[s] = "reading" /\ shell[s] = "exited"

(* The pump of a session that is done ends, blocked on a full channel or not. *)
PumpEnds == \A s \in Session : done[s] ~> pump[s] = "ended"

(* config.example.yaml: "Idle timeout in seconds before killing a session."   *)
IdleIsKilled == \A s \in Session : (s \in registry /\ idle[s]) ~> (done[s] \/ ~idle[s])

(* Detach discards output "so a busy shell cannot block while nobody is       *)
(* listening".                                                                *)
BusyShellGoesOn == \A s \in Session :
  (pump[s] = "sending" /\ ~attached[s]) ~> (pump[s] # "sending" \/ attached[s])
=============================================================================
