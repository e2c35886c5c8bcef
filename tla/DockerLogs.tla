------------------------------ MODULE DockerLogs ------------------------------
(* StreamLogs and lineWriter of agent/internal/docker/docker.go. The daemon   *)
(* cuts what a container wrote into frames wherever it likes; each stream has *)
(* a buffer of its own and both share one sequence number.                    *)
EXTENDS Integers, Sequences, SequencesExt

CONSTANTS Char,     \* "LF", "CR" and other characters
          MaxText,  \* bound on what a stream holds
          MaxFrame  \* bound on the length of a frame

ASSUME LogsAssumption == /\ {"LF", "CR"} \subseteq Char
                         /\ MaxText \in Nat /\ MaxFrame \in Nat \ {0}

VARIABLES
  reader,  \* what StreamLogs does: "opening", "tty", "multiplexed", "ended", "failed"
  tty,     \* whether the container has a terminal
  text,    \* everything the daemon sent, for each stream
  buf,     \* lineWriter.buf
  lines    \* what cb was given: LogLine.Seq is the place in it

logVars == <<reader, tty, text, buf, lines>>

Stream == {"stdout", "stderr"}
Frame == {f \in BoundedSeq(Char, MaxFrame) : f # <<>>}

LogsInit == /\ reader = "opening" /\ tty \in BOOLEAN
            /\ text = [s \in Stream |-> <<>>] /\ buf = [s \in Stream |-> <<>>]
            /\ lines = <<>>

(* ContainerLogs may fail; a failed ContainerInspect counts as "no terminal". *)
OpenLogs == /\ reader = "opening"
            /\ reader' \in {"failed", "multiplexed", IF tty THEN "tty" ELSE "multiplexed"}
            /\ UNCHANGED <<tty, text, buf, lines>>

TrimCR(s) == SubSeq(s, 1, Max({0} \cup {i \in DOMAIN s : s[i] # "CR"}))

HasLine(s) == \E i \in DOMAIN buf[s] : buf[s][i] = "LF"
Quiet == \A s \in Stream : ~HasLine(s)

(* Where a frame can go: all of it to stdout for a terminal; raw output that  *)
(* is taken for frames goes nowhere.                                          *)
Reads(s) == \/ reader = "tty" /\ s = "stdout"
            \/ reader = "multiplexed" /\ ~tty

(* A frame reaches Write, which first appends it to the buffer.               *)
Receive_Fresh(s, frame) == /\ Quiet /\ Reads(s)
                           /\ Len(text[s]) + Len(frame) <= MaxText
                           /\ text' = [text EXCEPT ![s] = @ \o frame]
                           /\ buf' = [buf EXCEPT ![s] = frame]
                           /\ UNCHANGED <<reader, tty, lines>>

Receive(s, frame) == /\ Quiet /\ Reads(s)
                     /\ Len(text[s]) + Len(frame) <= MaxText
                     /\ text' = [text EXCEPT ![s] = @ \o frame]
                     /\ buf' = [buf EXCEPT ![s] = @ \o frame]
                     /\ UNCHANGED <<reader, tty, lines>>

(* One turn of the loop of Write: cut the first line off and hand it on.      *)
EmitLine(s) ==
  LET lf == Min({i \in DOMAIN buf[s] : buf[s][i] = "LF"}) IN
  /\ HasLine(s)
  /\ lines' = Append(lines, [stream |-> s, line |-> TrimCR(SubSeq(buf[s], 1, lf - 1))])
  /\ buf' = [buf EXCEPT ![s] = SubSeq(@, lf + 1, Len(@))]
  /\ UNCHANGED <<reader, tty, text>>

(* The daemon ends the stream. An error, and raw output taken for frames,     *)
(* ends it too, unless the request was cancelled: then nil is returned.       *)
EndLogs_Swallows == /\ Quiet /\ reader \in {"tty", "multiplexed"}
                    /\ reader' = "ended"
                    /\ UNCHANGED <<tty, text, buf, lines>>

EndLogs == /\ Quiet /\ reader \in {"tty", "multiplexed"}
           /\ reader' \in IF tty /\ reader = "multiplexed" THEN {"failed"} ELSE {"ended", "failed"}
           /\ UNCHANGED <<tty, text, buf, lines>>

LogsNext == \/ OpenLogs \/ EndLogs
            \/ \E s \in Stream : EmitLine(s) \/ \E frame \in Frame : Receive(s, frame)

-----------------------------------------------------------------------------
LogsTypeOK == /\ reader \in {"opening", "tty", "multiplexed", "ended", "failed"}
              /\ tty \in BOOLEAN
              /\ text \in [Stream -> Seq(Char)] /\ buf \in [Stream -> Seq(Char)]
              /\ lines \in Seq([stream : Stream, line : Seq(Char)])

(* The lines of a text read as a whole, and what follows the last of them.    *)
Scan(t) ==
  LET scan[n \in 0 .. Len(t)] ==
        IF n = 0 THEN [lines |-> <<>>, rest |-> <<>>]
        ELSE IF t[n] = "LF"
             THEN [lines |-> Append(scan[n - 1].lines, TrimCR(scan[n - 1].rest)), rest |-> <<>>]
             ELSE [lines |-> scan[n - 1].lines, rest |-> Append(scan[n - 1].rest, t[n])]
  IN scan[Len(t)]

LinesOf(s) == Scan(text[s]).lines

(* The lines of one stream among those handed on.                             *)
Pick(s, mixed) ==
  LET pick[n \in 0 .. Len(mixed)] ==
        IF n = 0 THEN <<>>
        ELSE IF mixed[n].stream = s THEN Append(pick[n - 1], mixed[n].line) ELSE pick[n - 1]
  IN pick[Len(mixed)]

Emitted(s) == Pick(s, lines)

(* "invoking cb per complete line": the lines handed on are the lines of what *)
(* each stream sent, however the daemon cut it into frames and mixed them.    *)
FramingIsInvisible == Quiet => \A s \in Stream : Emitted(s) = LinesOf(s)
=============================================================================
