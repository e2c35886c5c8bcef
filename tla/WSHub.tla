-------------------------------- MODULE WSHub --------------------------------
(* The WebSocket hub of the agent, agent/internal/server/ws.go: the hub       *)
(* goroutine, which owns the map of clients and closes their send channels,   *)
(* and the read and write pump of every connection.                           *)
EXTENDS Naturals, Sequences, SequencesExt

CONSTANTS Client, Channel,
          SendCap,   \* capacity of a client's send channel (256 in the code)
          HubCap,    \* capacity of the hub's broadcast channel (256)
          MaxMsgs,   \* bound on the messages ever broadcast
          MayStop    \* whether the agent's context may be cancelled

ASSUME WSHubAssumption == /\ SendCap \in Nat \ {0} /\ HubCap \in Nat \ {0}
                          /\ MaxMsgs \in Nat /\ MayStop \in BOOLEAN

VARIABLES
  hub,        \* "running", or "stopped" once ctx is done
  broadcast,  \* the hub's channel of messages
  posted,     \* how many messages Broadcast was called with
  clients,    \* the hub's map
  channels,   \* what each client is subscribed to
  send,       \* the send channel of each client
  closed,     \* whether the hub has closed it
  reader,     \* the goroutine that accepted the connection, then readPump
  writer,     \* writePump
  left,       \* how many messages its drain loop still takes
  frame,      \* the messages of the frame it is writing
  conn,       \* the connection
  got,        \* what the peer has received
  owed,       \* the messages the hub took while the client was subscribed
  dropped,    \* the clients the hub dropped because they were slow
  panicked    \* a send on, or a close of, a closed channel: the agent is dead

hubVars  == <<hub, broadcast, posted, clients>>
pumpVars == <<reader, writer, left, frame, conn, got>>
vars == <<hub, broadcast, posted, clients, channels, send, closed, reader,
          writer, left, frame, conn, got, owed, dropped, panicked>>

Pong == [id |-> 0, ch |-> "control"]
Message == [id : 1 .. MaxMsgs, ch : Channel]
IsData(m) == m # Pong

(* The messages of a frame or a channel: the pongs left out.                  *)
Data(s) ==
  LET pick[n \in 0 .. Len(s)] ==
        IF n = 0 THEN <<>>
        ELSE IF IsData(s[n]) THEN Append(pick[n - 1], s[n]) ELSE pick[n - 1]
  IN pick[Len(s)]

Alive == ~panicked

Init == /\ hub = "running" /\ broadcast = <<>> /\ posted = 0 /\ clients = {}
        /\ channels = [c \in Client |-> {}]
        /\ send = [c \in Client |-> <<>>] /\ closed = [c \in Client |-> FALSE]
        /\ reader = [c \in Client |-> "none"] /\ writer = [c \in Client |-> "none"]
        /\ left = [c \in Client |-> 0] /\ frame = [c \in Client |-> <<>>]
        /\ conn = [c \in Client |-> "none"]
        /\ got = [c \in Client |-> <<>>] /\ owed = [c \in Client |-> <<>>]
        /\ dropped = {} /\ panicked = FALSE

(* close(client.send): closing twice panics.                                  *)
Close(S) == /\ closed' = [c \in Client |-> closed[c] \/ c \in S]
            /\ panicked' = \E c \in S : closed[c]

-----------------------------------------------------------------------------
(* HandleWebSocket: the connection is accepted with the channels of its query *)
(* and waits for the hub to take it; the pumps start once it has.             *)
Accept(c) == /\ Alive /\ reader[c] = "none"
             /\ \E S \in SUBSET Channel : channels' = [channels EXCEPT ![c] = S]
             /\ reader' = [reader EXCEPT ![c] = "registering"]
             /\ conn' = [conn EXCEPT ![c] = "open"]
             /\ UNCHANGED <<hubVars, send, closed, writer, left, frame, got, owed, dropped, panicked>>

Register(c) == /\ Alive /\ hub = "running" /\ reader[c] = "registering"
               /\ clients' = clients \cup {c}
               /\ reader' = [reader EXCEPT ![c] = "reading"]
               /\ writer' = [writer EXCEPT ![c] = "waiting"]
               /\ UNCHANGED <<hub, broadcast, posted, channels, send, closed, left,
                              frame, conn, got, owed, dropped, panicked>>

(* The hub takes what the read pump sends to unregister; only a client still  *)
(* in the map has its channel closed.  The pump then closes the connection.   *)
Unregister(c) == /\ Alive /\ hub = "running" /\ reader[c] = "leaving"
                 /\ clients' = clients \ {c}
                 /\ Close({c} \cap clients)
                 /\ reader' = [reader EXCEPT ![c] = "done"]
                 /\ conn' = [conn EXCEPT ![c] = "closed"]
                 /\ UNCHANGED <<hub, broadcast, posted, channels, send, writer,
                                left, frame, got, owed, dropped>>

(* Broadcast: a full channel drops the message.                               *)
Broadcast(ch) ==
  /\ Alive /\ posted < MaxMsgs
  /\ posted' = posted + 1
  /\ broadcast' = IF Len(broadcast) < HubCap
                  THEN Append(broadcast, [id |-> posted + 1, ch |-> ch])
                  ELSE broadcast
  /\ UNCHANGED <<hub, clients, channels, send, closed, pumpVars, owed, dropped, panicked>>

(* The hub passes a message on; a client whose channel is full is dropped.    *)
Subscribers(m) == {c \in clients : m.ch \in channels[c]}
Slow(m) == {c \in Subscribers(m) : Len(send[c]) = SendCap}

HubSend_SkipsSlow ==
  /\ Alive /\ hub = "running" /\ broadcast # <<>>
  /\ LET m == Head(broadcast) IN
       /\ send' = [c \in Client |-> IF c \in Subscribers(m) \ Slow(m)
                                    THEN Append(send[c], m) ELSE send[c]]
       /\ owed' = [c \in Client |-> IF c \in Subscribers(m) THEN Append(owed[c], m) ELSE owed[c]]
  /\ broadcast' = Tail(broadcast)
  /\ UNCHANGED <<hub, posted, clients, channels, closed, pumpVars, dropped, panicked>>

HubSend_KeepsSlow ==
  /\ Alive /\ hub = "running" /\ broadcast # <<>>
  /\ LET m == Head(broadcast) IN
       /\ send' = [c \in Client |-> IF c \in Subscribers(m) \ Slow(m)
                                    THEN Append(send[c], m) ELSE send[c]]
       /\ owed' = [c \in Client |-> IF c \in Subscribers(m) \ Slow(m)
                                    THEN Append(owed[c], m) ELSE owed[c]]
       /\ dropped' = dropped \cup Slow(m)
       /\ Close(Slow(m))
  /\ broadcast' = Tail(broadcast)
  /\ UNCHANGED <<hub, clients, posted, channels, pumpVars>>

HubSend_DropsUnsubscribed ==
  /\ Alive /\ hub = "running" /\ broadcast # <<>>
  /\ LET m == Head(broadcast) IN
       /\ send' = [c \in Client |-> IF c \in Subscribers(m) \ Slow(m)
                                    THEN Append(send[c], m) ELSE send[c]]
       /\ owed' = [c \in Client |-> IF c \in Subscribers(m) \ Slow(m)
                                    THEN Append(owed[c], m) ELSE owed[c]]
       /\ clients' = Subscribers(m) \ Slow(m)
       /\ dropped' = dropped \cup Slow(m)
       /\ Close(clients \ clients')
  /\ broadcast' = Tail(broadcast)
  /\ UNCHANGED <<hub, posted, channels, pumpVars>>

HubSend ==
  /\ Alive /\ hub = "running" /\ broadcast # <<>>
  /\ LET m == Head(broadcast) IN
       /\ send' = [c \in Client |-> IF c \in Subscribers(m) \ Slow(m)
                                    THEN Append(send[c], m) ELSE send[c]]
       /\ owed' = [c \in Client |-> IF c \in Subscribers(m) \ Slow(m)
                                    THEN Append(owed[c], m) ELSE owed[c]]
       /\ clients' = clients \ Slow(m)
       /\ dropped' = dropped \cup Slow(m)
       /\ Close(Slow(m))
  /\ broadcast' = Tail(broadcast)
  /\ UNCHANGED <<hub, posted, channels, pumpVars>>

(* ctx is done: the hub closes every channel and returns, the map as it is.   *)
Stop == /\ Alive /\ MayStop /\ hub = "running"
        /\ hub' = "stopped"
        /\ Close(clients)
        /\ UNCHANGED <<broadcast, posted, clients, channels, send, pumpVars, owed, dropped>>

-----------------------------------------------------------------------------
(* readPump.  A ping is answered through the send channel, without a look at  *)
(* whether the hub has closed it; a full channel drops the pong.              *)
Ping(c) == /\ Alive /\ reader[c] = "reading" /\ conn[c] = "open"
           /\ panicked' = closed[c]
           /\ send' = IF ~closed[c] /\ Len(send[c]) < SendCap
                      THEN [send EXCEPT ![c] = Append(@, Pong)] ELSE send
           /\ UNCHANGED <<hubVars, channels, closed, pumpVars, owed, dropped>>

Subscribe(c, ch) == /\ Alive /\ reader[c] = "reading" /\ conn[c] = "open"
                    /\ channels' = [channels EXCEPT ![c] = @ \cup {ch}]
                    /\ UNCHANGED <<hubVars, send, closed, pumpVars, owed, dropped, panicked>>

Unsubscribe(c, ch) == /\ Alive /\ reader[c] = "reading" /\ conn[c] = "open"
                      /\ channels' = [channels EXCEPT ![c] = @ \ {ch}]
                      /\ UNCHANGED <<hubVars, send, closed, pumpVars, owed, dropped, panicked>>

(* The peer or the network goes, or nothing was read for a minute.            *)
Disconnect(c) == /\ Alive /\ conn[c] = "open"
                 /\ conn' = [conn EXCEPT ![c] = "closed"]
                 /\ UNCHANGED <<hubVars, channels, send, closed, reader, writer,
                                left, frame, got, owed, dropped, panicked>>

ReadFails_Retries(c) == /\ Alive /\ reader[c] = "reading" /\ conn[c] = "closed"
                        /\ UNCHANGED vars

ReadFails(c) == /\ Alive /\ reader[c] = "reading" /\ conn[c] = "closed"
                /\ reader' = [reader EXCEPT ![c] = "leaving"]
                /\ UNCHANGED <<hubVars, channels, send, closed, writer, left,
                               frame, conn, got, owed, dropped, panicked>>

-----------------------------------------------------------------------------
(* writePump.  It takes one message, opens a frame, then takes as many more   *)
(* as the channel held when it looked.                                        *)
WriterTake(c) == /\ Alive /\ writer[c] = "waiting" /\ send[c] # <<>> /\ conn[c] = "open"
                 /\ writer' = [writer EXCEPT ![c] = "draining"]
                 /\ frame' = [frame EXCEPT ![c] = <<Head(send[c])>>]
                 /\ left' = [left EXCEPT ![c] = Len(send[c]) - 1]
                 /\ send' = [send EXCEPT ![c] = Tail(@)]
                 /\ UNCHANGED <<hubVars, channels, closed, reader, conn, got, owed, dropped, panicked>>

WriterDrain_Refetches(c) ==
  /\ Alive /\ writer[c] = "draining" /\ left[c] > 0 /\ send[c] # <<>>
  /\ frame' = [frame EXCEPT ![c] = Append(@, Head(send[c]))]
  /\ send' = [send EXCEPT ![c] = Tail(@)]
  /\ left' = [left EXCEPT ![c] = Len(send[c])]
  /\ UNCHANGED <<hubVars, channels, closed, reader, writer, conn, got, owed, dropped, panicked>>

WriterDrain(c) ==
  /\ Alive /\ writer[c] = "draining" /\ left[c] > 0 /\ send[c] # <<>>
  /\ frame' = [frame EXCEPT ![c] = Append(@, Head(send[c]))]
  /\ send' = [send EXCEPT ![c] = Tail(@)]
  /\ left' = [left EXCEPT ![c] = @ - 1]
  /\ UNCHANGED <<hubVars, channels, closed, reader, writer, conn, got, owed, dropped, panicked>>

WriterFlush(c) ==
  /\ Alive /\ writer[c] = "draining" /\ left[c] = 0
  /\ frame' = [frame EXCEPT ![c] = <<>>]
  /\ IF conn[c] = "open"
     THEN /\ got' = [got EXCEPT ![c] = @ \o Data(frame[c])]
          /\ writer' = [writer EXCEPT ![c] = "waiting"]
     ELSE /\ writer' = [writer EXCEPT ![c] = "done"]
          /\ UNCHANGED got
  /\ UNCHANGED <<hubVars, channels, send, closed, reader, left, conn, owed, dropped, panicked>>

(* A closed and empty channel, a message for a connection that is gone, or a  *)
(* ping of the ticker that fails: the pump closes the connection and ends.    *)
WriterEnds(c) ==
  /\ Alive /\ writer[c] = "waiting"
  /\ conn[c] = "closed" \/ (closed[c] /\ send[c] = <<>>)
  /\ writer' = [writer EXCEPT ![c] = "done"]
  /\ conn' = [conn EXCEPT ![c] = "closed"]
  /\ UNCHANGED <<hubVars, channels, send, closed, reader, left, frame, got, owed, dropped, panicked>>

Next == \/ \E c \in Client :
             \/ Accept(c) \/ Register(c) \/ Unregister(c) \/ Ping(c)
             \/ \E ch \in Channel : Subscribe(c, ch) \/ Unsubscribe(c, ch)
             \/ Disconnect(c) \/ ReadFails(c)
             \/ WriterTake(c) \/ WriterDrain(c) \/ WriterFlush(c) \/ WriterEnds(c)
        \/ \E ch \in Channel : Broadcast(ch)
        \/ HubSend \/ Stop

Spec == Init /\ [][Next]_vars

(* The goroutines run; peers, the network and the broadcaster owe nothing.  A *)
(* write to an open connection may block for ever, to a closed one it fails.  *)
Fairness == \A c \in Client :
  /\ WF_vars(Register(c)) /\ WF_vars(Unregister(c)) /\ WF_vars(ReadFails(c))
  /\ WF_vars(WriterTake(c)) /\ WF_vars(WriterDrain(c)) /\ WF_vars(WriterEnds(c))
  /\ WF_vars(conn[c] = "closed" /\ WriterFlush(c))

FairSpec == Spec /\ Fairness

-----------------------------------------------------------------------------
TypeOK ==
  /\ hub \in {"running", "stopped"} /\ posted \in 0 .. MaxMsgs
  /\ broadcast \in Seq(Message) /\ Len(broadcast) <= HubCap
  /\ clients \subseteq Client /\ channels \in [Client -> SUBSET Channel]
  /\ send \in [Client -> Seq(Message \cup {Pong})]
  /\ \A c \in Client : Len(send[c]) <= SendCap
  /\ closed \in [Client -> BOOLEAN]
  /\ reader \in [Client -> {"none", "registering", "reading", "leaving", "done"}]
  /\ writer \in [Client -> {"none", "waiting", "draining", "done"}]
  /\ left \in [Client -> 0 .. SendCap] /\ frame \in [Client -> Seq(Message \cup {Pong})]
  /\ conn \in [Client -> {"none", "open", "closed"}]
  /\ got \in [Client -> Seq(Message)] /\ owed \in [Client -> Seq(Message)]
  /\ dropped \subseteq Client /\ panicked \in BOOLEAN

(* While the hub runs, the clients of its map are exactly those it may still  *)
(* send to and close: the map, the send channels and the pumps agree.         *)
MapMatchesChannels ==
  hub = "running" => \A c \in clients : ~closed[c] /\ reader[c] \in {"reading", "leaving"}

(* Nothing sends on a closed channel or closes one twice as long as no slow   *)
(* client was dropped and the agent is not shutting down.  After either, the  *)
(* read pump of a client may: its select does not guard against it.           *)
PanicOnlyAfterDrop == panicked => hub = "stopped" \/ dropped # {}

(* The drain loop of writePump takes len(c.send) messages without a select:   *)
(* they are all there, so it never waits inside an open frame.                *)
DrainNeverBlocks == \A c \in Client : writer[c] = "draining" => left[c] <= Len(send[c])

(* A peer receives, once and in order, the messages the hub took while it was *)
(* subscribed: what it got, the open frame and the channel together are them. *)
OnceInOrder ==
  \A c \in Client :
    /\ IsPrefix(got[c], owed[c])
    /\ writer[c] \in {"waiting", "draining"} =>
         got[c] \o Data(frame[c] \o send[c]) = owed[c]
    /\ \A i, j \in 1 .. Len(got[c]) : i < j => got[c][i].id < got[c][j].id

(* A connection that is gone is taken out of the map and its read pump ends,  *)
(* as long as the hub runs.                                                   *)
ConnectionReaped ==
  \A c \in Client : conn[c] = "closed" ~> panicked \/ (c \notin clients /\ reader[c] = "done")
=============================================================================
