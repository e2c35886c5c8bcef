----------------------------- MODULE StreamsProof -----------------------------
(***************************************************************************)
(* The two parts of the agent that pump data: the hub's connections (WSHub)  *)
(* and the terminal sessions (Terminal).                                     *)
(*                                                                           *)
(* For any number of clients, channels and messages and any capacities: the  *)
(* hub's map and the channels it closes agree, a closed channel is touched   *)
(* only after a drop or a shutdown, the drain loop of a write pump never     *)
(* waits, and a peer receives what it is owed once and in order.             *)
(*                                                                           *)
(* For any limit, any number of requests and sessions: how far racing        *)
(* creators may exceed the limit, that Attach and Detach keep at most one    *)
(* reader of a session's output that was not told to stop, that no session   *)
(* leaks between two lock sections, and that the pump of a killed one goes on.*)
(***************************************************************************)
EXTENDS WSHub, Terminal, SequenceTheorems, FiniteSetTheorems, WellFoundedInduction, TLAPS

Readers == {"none", "registering", "reading", "leaving", "done"}
Queue   == Seq(Message \cup {Pong})

Types == /\ hub \in {"running", "stopped"}
         /\ clients \subseteq Client
         /\ reader \in [Client -> Readers]
         /\ writer \in [Client -> {"none", "waiting", "draining", "done"}]
         /\ send \in [Client -> Queue]
         /\ left \in [Client -> Int]
         /\ broadcast \in Seq(Message)
         /\ posted \in 0 .. MaxMsgs

\* Whose channel is closed: a client that has left, or, after a drop or at
\* shutdown, one that may still be answering pings.
ClosedWhy ==
  \A c \in Client : closed[c] =>
    /\ reader[c] \notin {"none", "registering"}
    /\ reader[c] = "done" \/ hub = "stopped" \/ dropped # {}

IInv == /\ Types
        /\ MapMatchesChannels
        /\ ClosedWhy
        /\ PanicOnlyAfterDrop
        /\ DrainNeverBlocks

-----------------------------------------------------------------------------
LEMMA InitIInv == Init => IInv
<1> SUFFICES ASSUME Init PROVE IInv
  OBVIOUS
<1>1. Types
  BY WSHubAssumption DEF Init, Types, Readers, Queue
<1> QED
  BY <1>1 DEF Init, IInv, MapMatchesChannels, ClosedWhy, PanicOnlyAfterDrop, DrainNeverBlocks

\* close on channels that are open does not panic.
LEMMA CloseOpen ==
  ASSUME NEW S \in SUBSET Client, Close(S), \A c \in S : ~closed[c]
  PROVE  /\ ~panicked'
         /\ \A c \in Client : closed'[c] <=> closed[c] \/ c \in S
  BY DEF Close

\* A step of one client's goroutines that leaves hub and channels alone.
LEMMA LocalStep ==
  ASSUME IInv, Types', DrainNeverBlocks',
         UNCHANGED <<hub, clients, closed, dropped>>,
         panicked' => panicked \/ hub = "stopped" \/ dropped # {},
         \A c \in Client : \/ reader'[c] = reader[c]
                           \/ reader[c] = "none" /\ reader'[c] = "registering"
                           \/ reader[c] = "reading" /\ reader'[c] = "leaving"
  PROVE  IInv'
<1>1. MapMatchesChannels'
  BY DEF IInv, Types, MapMatchesChannels
<1>2. ClosedWhy'
  BY DEF IInv, ClosedWhy
<1> QED BY <1>1, <1>2 DEF IInv, PanicOnlyAfterDrop

\* Appending to a channel does not make a drain loop wait.
LEMMA AppendKeepsDrain ==
  ASSUME IInv, send' \in [Client -> Queue], UNCHANGED <<writer, left>>,
         \A c \in Client : Len(send'[c]) >= Len(send[c])
  PROVE  DrainNeverBlocks'
  BY DEF IInv, Types, DrainNeverBlocks, Queue

-----------------------------------------------------------------------------
LEMMA ReaderKeepsIInv ==
  ASSUME IInv, NEW c \in Client,
         \/ Accept(c) \/ ReadFails(c) \/ Disconnect(c)
         \/ \E ch \in Channel : Subscribe(c, ch) \/ Unsubscribe(c, ch)
  PROVE  IInv'
<1>1. /\ UNCHANGED <<hub, clients, closed, dropped, panicked, writer, left, send, broadcast, posted>>
      /\ \/ reader' = reader
         \/ reader[c] = "none" /\ reader' = [reader EXCEPT ![c] = "registering"]
         \/ reader[c] = "reading" /\ reader' = [reader EXCEPT ![c] = "leaving"]
  BY DEF Accept, ReadFails, Disconnect, Subscribe, Unsubscribe, hubVars, pumpVars
<1>2. Types'
  BY <1>1 DEF IInv, Types, Readers
<1>3. DrainNeverBlocks'
  BY <1>1 DEF IInv, DrainNeverBlocks
<1> QED BY <1>1, <1>2, <1>3, LocalStep DEF IInv, Types

LEMMA PingKeepsIInv == ASSUME IInv, NEW c \in Client, Ping(c) PROVE IInv'
<1>1. /\ reader[c] = "reading" /\ (panicked' => closed[c])
      /\ UNCHANGED <<hub, clients, closed, dropped, reader, writer, left, broadcast, posted>>
  BY DEF Ping, hubVars, pumpVars
<1>2. /\ send' \in [Client -> Queue]
      /\ \A d \in Client : Len(send'[d]) >= Len(send[d])
  BY DEF Ping, IInv, Types, Queue
<1>3. Types'
  BY <1>1, <1>2 DEF IInv, Types
<1>4. DrainNeverBlocks'
  BY <1>1, <1>2, AppendKeepsDrain
<1>5. panicked' => hub = "stopped" \/ dropped # {}
  BY <1>1 DEF IInv, ClosedWhy
<1> QED BY <1>1, <1>3, <1>4, <1>5, LocalStep

LEMMA WriterKeepsIInv ==
  ASSUME IInv, NEW c \in Client,
         WriterTake(c) \/ WriterDrain(c) \/ WriterFlush(c) \/ WriterEnds(c)
  PROVE  IInv'
<1>1. UNCHANGED <<hub, clients, closed, dropped, panicked, reader, broadcast, posted>>
  BY DEF WriterTake, WriterDrain, WriterFlush, WriterEnds, hubVars
<1>2. send[c] \in Queue /\ left[c] \in Int
  BY DEF IInv, Types
<1>3. CASE WriterTake(c)
  <2>1. Tail(send[c]) \in Queue /\ Len(Tail(send[c])) = Len(send[c]) - 1
    BY <1>2, <1>3 DEF WriterTake, Queue
  <2>2. Types' /\ DrainNeverBlocks'
    BY <1>1, <1>2, <1>3, <2>1 DEF IInv, Types, DrainNeverBlocks, WriterTake, Queue
  <2> QED BY <1>1, <2>2, LocalStep
<1>4. CASE WriterDrain(c)
  <2>1. Tail(send[c]) \in Queue /\ Len(Tail(send[c])) = Len(send[c]) - 1
    BY <1>2, <1>4 DEF WriterDrain, Queue
  <2>2. Types' /\ DrainNeverBlocks'
    BY <1>1, <1>2, <1>4, <2>1 DEF IInv, Types, DrainNeverBlocks, WriterDrain, Queue
  <2> QED BY <1>1, <2>2, LocalStep
<1>5. CASE WriterFlush(c) \/ WriterEnds(c)
  <2>1. /\ UNCHANGED <<send, left>>
        /\ writer' = [writer EXCEPT ![c] = "waiting"] \/ writer' = [writer EXCEPT ![c] = "done"]
    BY <1>5 DEF WriterFlush, WriterEnds
  <2>2. Types' /\ DrainNeverBlocks'
    BY <1>1, <2>1 DEF IInv, Types, DrainNeverBlocks
  <2> QED BY <1>1, <2>2, LocalStep
<1> QED BY <1>3, <1>4, <1>5

-----------------------------------------------------------------------------
LEMMA RegisterKeepsIInv == ASSUME IInv, NEW c \in Client, Register(c) PROVE IInv'
<1>1. /\ hub = "running" /\ reader[c] = "registering" /\ ~panicked
      /\ clients' = clients \cup {c}
      /\ reader' = [reader EXCEPT ![c] = "reading"]
      /\ writer' = [writer EXCEPT ![c] = "waiting"]
      /\ UNCHANGED <<hub, closed, dropped, panicked, send, left, broadcast, posted>>
  BY DEF Register, Alive
<1>2. Types' /\ DrainNeverBlocks'
  BY <1>1 DEF IInv, Types, Readers, DrainNeverBlocks
<1>3. ~closed[c]
  BY <1>1 DEF IInv, ClosedWhy
<1>4. MapMatchesChannels'
  BY <1>1, <1>3 DEF IInv, Types, MapMatchesChannels
<1>5. ClosedWhy'
  BY <1>1, <1>3 DEF IInv, Types, ClosedWhy
<1> QED BY <1>1, <1>2, <1>4, <1>5 DEF IInv, PanicOnlyAfterDrop

LEMMA UnregisterKeepsIInv == ASSUME IInv, NEW c \in Client, Unregister(c) PROVE IInv'
<1>1. /\ hub = "running" /\ reader[c] = "leaving"
      /\ clients' = clients \ {c}
      /\ reader' = [reader EXCEPT ![c] = "done"]
      /\ UNCHANGED <<hub, dropped, send, writer, left, broadcast, posted>>
  BY DEF Unregister
<1>2. /\ ~panicked'
      /\ \A d \in Client : closed'[d] <=> closed[d] \/ d \in {c} \cap clients
  BY <1>1, CloseOpen DEF Unregister, IInv, MapMatchesChannels
<1>3. Types' /\ DrainNeverBlocks'
  BY <1>1 DEF IInv, Types, Readers, DrainNeverBlocks
<1>4. MapMatchesChannels'
  BY <1>1, <1>2 DEF IInv, Types, MapMatchesChannels
<1>5. ClosedWhy'
  BY <1>1, <1>2 DEF IInv, Types, ClosedWhy
<1> QED BY <1>2, <1>3, <1>4, <1>5 DEF IInv, PanicOnlyAfterDrop

LEMMA HubSendKeepsIInv == ASSUME IInv, HubSend PROVE IInv'
<1>1. PICK m : m = Head(broadcast)
  OBVIOUS
<1>2. m \in Message /\ Tail(broadcast) \in Seq(Message)
  BY <1>1 DEF IInv, Types, HubSend
<1>3. PICK S : S = Slow(m)
  OBVIOUS
<1>4. S \subseteq clients /\ S \in SUBSET Client
  BY <1>3 DEF Slow, Subscribers, IInv, Types
<1>5. /\ hub = "running" /\ clients' = clients \ S
      /\ dropped' = dropped \cup S /\ Close(S)
      /\ send' = [c \in Client |-> IF c \in Subscribers(m) \ S THEN Append(send[c], m) ELSE send[c]]
      /\ broadcast' = Tail(broadcast)
      /\ UNCHANGED <<hub, reader, writer, left, posted>>
  BY <1>1, <1>3 DEF HubSend, pumpVars
<1>6. /\ ~panicked'
      /\ \A c \in Client : closed'[c] <=> closed[c] \/ c \in S
  BY <1>4, <1>5, CloseOpen DEF IInv, MapMatchesChannels
<1>7. /\ send' \in [Client -> Queue]
      /\ \A c \in Client : Len(send'[c]) >= Len(send[c])
  BY <1>2, <1>5 DEF IInv, Types, Queue
<1>8. Types'
  BY <1>2, <1>5, <1>7 DEF IInv, Types
<1>9. DrainNeverBlocks'
  BY <1>5, <1>7, AppendKeepsDrain
<1>10. MapMatchesChannels'
  BY <1>5, <1>6 DEF IInv, Types, MapMatchesChannels
<1>11. ClosedWhy'
  BY <1>4, <1>5, <1>6 DEF IInv, ClosedWhy, MapMatchesChannels
<1> QED BY <1>6, <1>8, <1>9, <1>10, <1>11 DEF IInv, PanicOnlyAfterDrop

LEMMA StopKeepsIInv == ASSUME IInv, Stop PROVE IInv'
<1>1. /\ hub = "running" /\ hub' = "stopped"
      /\ UNCHANGED <<clients, dropped, send, reader, writer, left, broadcast, posted>>
  BY DEF Stop, pumpVars
<1>2. \A c \in Client : closed'[c] <=> closed[c] \/ c \in clients
  BY <1>1, CloseOpen DEF Stop, IInv, Types, MapMatchesChannels
<1>3. Types' /\ DrainNeverBlocks'
  BY <1>1 DEF IInv, Types, DrainNeverBlocks
<1>4. ClosedWhy'
  BY <1>1, <1>2 DEF IInv, ClosedWhy, MapMatchesChannels
<1> QED BY <1>1, <1>3, <1>4 DEF IInv, MapMatchesChannels, PanicOnlyAfterDrop

LEMMA BroadcastKeepsIInv == ASSUME IInv, NEW ch \in Channel, Broadcast(ch) PROVE IInv'
<1>1. /\ posted' = posted + 1 /\ posted < MaxMsgs
      /\ UNCHANGED <<hub, clients, closed, dropped, panicked, reader, writer, left, send>>
  BY DEF Broadcast, pumpVars
<1>2. [id |-> posted + 1, ch |-> ch] \in Message
  BY <1>1, WSHubAssumption DEF Message, IInv, Types
<1>3. broadcast' \in Seq(Message)
  BY <1>2 DEF Broadcast, IInv, Types
<1>4. Types'
  BY <1>1, <1>3, WSHubAssumption DEF IInv, Types
<1>5. DrainNeverBlocks'
  BY <1>1 DEF IInv, DrainNeverBlocks
<1> QED BY <1>1, <1>4, <1>5, LocalStep

-----------------------------------------------------------------------------
LEMMA StepKeepsIInv == ASSUME IInv, [Next]_vars PROVE IInv'
<1>1. ASSUME NEW c \in Client,
             \/ Accept(c) \/ Register(c) \/ Unregister(c) \/ Ping(c)
             \/ \E ch \in Channel : Subscribe(c, ch) \/ Unsubscribe(c, ch)
             \/ Disconnect(c) \/ ReadFails(c)
             \/ WriterTake(c) \/ WriterDrain(c) \/ WriterFlush(c) \/ WriterEnds(c)
      PROVE  IInv'
  BY <1>1, ReaderKeepsIInv, RegisterKeepsIInv, UnregisterKeepsIInv, PingKeepsIInv, WriterKeepsIInv
<1>2. ASSUME HubSend \/ Stop \/ \E ch \in Channel : Broadcast(ch) PROVE IInv'
  BY <1>2, HubSendKeepsIInv, StopKeepsIInv, BroadcastKeepsIInv
<1>3. ASSUME UNCHANGED vars PROVE IInv'
  BY <1>3 DEF IInv, Types, MapMatchesChannels, ClosedWhy, PanicOnlyAfterDrop, DrainNeverBlocks, vars
<1> QED BY <1>1, <1>2, <1>3 DEF Next

THEOREM Invariance == Spec => []IInv
  BY InitIInv, StepKeepsIInv, PTL DEF Spec

(***************************************************************************)
(* While the hub runs, every client of its map has an open channel and a    *)
(* read pump that has yet to leave (ws.go:45-84).                           *)
(***************************************************************************)
THEOREM MapAndChannelsAgree == Spec => []MapMatchesChannels
  BY Invariance, PTL DEF IInv

(***************************************************************************)
(* Before the hub drops a slow client or stops, no pump sends on a closed   *)
(* channel and the hub closes none twice (ws.go:62-78, 162-166).            *)
(***************************************************************************)
THEOREM NoPanicBeforeDrop == Spec => []PanicOnlyAfterDrop
  BY Invariance, PTL DEF IInv

(***************************************************************************)
(* The drain loop of a write pump finds every message it counted            *)
(* (ws.go:205-210).                                                         *)
(***************************************************************************)
THEOREM DrainFindsItsMessages == Spec => []DrainNeverBlocks
  BY Invariance, PTL DEF IInv
-----------------------------------------------------------------------------
(* Induction, by way of sets: the natural numbers are well-founded, so a set  *)
(* with 0 and all successors misses none of them.                             *)

Below == {p \in Nat \X Nat : p[1] < p[2]}

LEMMA Induction ==
  ASSUME NEW T, 0 \in T, \A n \in Nat : n \in T => n + 1 \in T
  PROVE  Nat \subseteq T
<1> DEFINE rest == Nat \ T
<1>1. SUFFICES ASSUME rest # {} PROVE FALSE
  OBVIOUS
<1>2. IsWellFoundedOn(Below, Nat)
  <2>1. Below = OpToRel(<, Nat)
    BY DEF OpToRel, Below
  <2> QED BY <2>1, NatLessThanWellFounded
<1>3. PICK x \in rest : \A y \in rest : <<y, x>> \notin Below
  <2> HIDE DEF rest
  <2>1. IsWellFoundedOn(Below, rest)
    BY <1>2, IsWellFoundedOnSubset DEF rest
  <2> QED BY <1>1, <2>1, WFMin
<1>4. x \in Nat /\ x - 1 \in Nat
  BY <1>3
<1>5. <<x - 1, x>> \in Below
  BY <1>4 DEF Below
<1> QED BY <1>3, <1>4, <1>5

(* What Data computes.                                                        *)

Picks(s, g) ==
  g = [n \in 0 .. Len(s) |->
        IF n = 0 THEN <<>>
        ELSE IF IsData(s[n]) THEN Append(g[n - 1], s[n]) ELSE g[n - 1]]

\* The recursion of Data has a solution, and Data is its last value.
LEMMA DataPicks ==
  ASSUME NEW S, NEW s \in Seq(S)
  PROVE  \E g : Picks(s, g) /\ Data(s) = g[Len(s)]
<1> DEFINE T == {n \in Nat : \A t \in Seq(S) : Len(t) = n => \E g : Picks(t, g)}
<1>1. 0 \in T
  <2>1. \A t \in Seq(S) : Len(t) = 0 => Picks(t, [n \in 0 .. 0 |-> <<>>])
    BY DEF Picks
  <2> QED BY <2>1
<1>2. ASSUME NEW n \in Nat, n \in T PROVE n + 1 \in T
  <2> SUFFICES ASSUME NEW t \in Seq(S), Len(t) = n + 1 PROVE \E g : Picks(t, g)
    OBVIOUS
  <2> DEFINE u == SubSeq(t, 1, n)
  <2>1. u \in Seq(S) /\ Len(u) = n /\ \A i \in 1 .. n : u[i] = t[i]
    OBVIOUS
  <2>2. PICK g : Picks(u, g)
    BY <1>2, <2>1
  <2> DEFINE h == [i \in 0 .. n + 1 |->
                    IF i <= n THEN g[i]
                    ELSE IF IsData(t[i]) THEN Append(g[n], t[i]) ELSE g[n]]
  <2> HIDE DEF u
  <2>3. \A i \in 0 .. n : g[i] = IF i = 0 THEN <<>>
                                 ELSE IF IsData(t[i]) THEN Append(g[i - 1], t[i])
                                 ELSE g[i - 1]
    <3>1. \A i \in 0 .. n : g[i] = IF i = 0 THEN <<>>
                                   ELSE IF IsData(u[i]) THEN Append(g[i - 1], u[i])
                                   ELSE g[i - 1]
      BY <2>1, <2>2 DEF Picks
    <3>2. \A i \in 0 .. n : i = 0 \/ u[i] = t[i]
      BY <2>1
    <3> QED BY <3>1, <3>2
  <2>4. \A i \in 0 .. n : h[i] = g[i]
    OBVIOUS
  <2>5. \A i \in 0 .. n + 1 : h[i] = IF i = 0 THEN <<>>
                                     ELSE IF IsData(t[i]) THEN Append(h[i - 1], t[i])
                                     ELSE h[i - 1]
    BY <2>3, <2>4
  <2>6. h = [i \in 0 .. n + 1 |-> h[i]]
    OBVIOUS
  <2> HIDE DEF h
  <2>7. Picks(t, h)
    BY <2>5, <2>6 DEF Picks
  <2> QED BY <2>7
<1>3. PICK g : Picks(s, g)
  <2> HIDE DEF T
  <2>1. Nat \subseteq T
    BY <1>1, <1>2, Induction
  <2>2. Len(s) \in T
    BY <2>1
  <2> QED BY <2>2 DEF T
<1> DEFINE pick == CHOOSE h : Picks(s, h)
<1>4. Picks(s, pick)
  BY <1>3
<1>5. Data(s) = pick[Len(s)]
  BY Zenon DEF Data, Picks
<1> QED BY <1>4, <1>5

LEMMA DataAppend ==
  ASSUME NEW S, NEW s \in Seq(S), NEW m \in S
  PROVE  Data(Append(s, m)) = IF IsData(m) THEN Append(Data(s), m) ELSE Data(s)
<1> DEFINE t == Append(s, m)
<1>1. t \in Seq(S) /\ Len(t) = Len(s) + 1 /\ t[Len(t)] = m
      /\ \A i \in 1 .. Len(s) : t[i] = s[i]
  OBVIOUS
<1>2. PICK g : Picks(s, g) /\ Data(s) = g[Len(s)]
  BY DataPicks
<1>3. PICK h : Picks(t, h) /\ Data(t) = h[Len(t)]
  BY <1>1, DataPicks
<1> HIDE DEF t
<1>4. \A i \in 0 .. Len(s) : g[i] = IF i = 0 THEN <<>>
                                    ELSE IF IsData(s[i]) THEN Append(g[i - 1], s[i])
                                    ELSE g[i - 1]
  BY <1>2 DEF Picks
<1>5. \A i \in 0 .. Len(t) : h[i] = IF i = 0 THEN <<>>
                                    ELSE IF IsData(t[i]) THEN Append(h[i - 1], t[i])
                                    ELSE h[i - 1]
  BY <1>3 DEF Picks
<1> DEFINE T == {n \in Nat : n <= Len(s) => h[n] = g[n]}
<1>6. 0 \in T
  BY <1>1, <1>4, <1>5
<1>7. ASSUME NEW n \in Nat, n \in T PROVE n + 1 \in T
  <2> SUFFICES ASSUME n + 1 <= Len(s) PROVE h[n + 1] = g[n + 1]
    OBVIOUS
  <2>1. h[n] = g[n] /\ t[n + 1] = s[n + 1]
    BY <1>1, <1>7
  <2>2. n + 1 \in 0 .. Len(s) /\ n + 1 \in 0 .. Len(t) /\ n + 1 # 0 /\ (n + 1) - 1 = n
    BY <1>1
  <2> QED BY <1>4, <1>5, <2>1, <2>2
<1>8. h[Len(s)] = g[Len(s)]
  <2> HIDE DEF T
  <2>1. Len(s) \in T
    BY <1>6, <1>7, Induction
  <2> QED BY <2>1 DEF T
<1>9. h[Len(t)] = IF IsData(m) THEN Append(h[Len(s)], m) ELSE h[Len(s)]
  BY <1>1, <1>5
<1> QED BY <1>2, <1>3, <1>8, <1>9 DEF t

\* A sequence that is not empty is another one and its last element.
LEMMA LastApart ==
  ASSUME NEW S, NEW n \in Nat, NEW t \in Seq(S), Len(t) = n + 1
  PROVE  \E u \in Seq(S), m \in S : t = Append(u, m) /\ Len(u) = n
<1>1. /\ SubSeq(t, 1, n) \in Seq(S) /\ Len(SubSeq(t, 1, n)) = n /\ t[n + 1] \in S
  OBVIOUS
<1>2. t = Append(SubSeq(t, 1, n), t[n + 1])
  OBVIOUS
<1> QED BY <1>1, <1>2

LEMMA DataTyped ==
  ASSUME NEW S, NEW s \in Seq(S) PROVE Data(s) \in Seq({m \in S : IsData(m)})
<1> DEFINE D == {m \in S : IsData(m)}
           T == {n \in Nat : \A t \in Seq(S) : Len(t) = n => Data(t) \in Seq(D)}
<1>1. 0 \in T
  <2> SUFFICES ASSUME NEW t \in Seq(S), Len(t) = 0 PROVE Data(t) \in Seq(D)
    OBVIOUS
  <2>1. PICK g : Picks(t, g) /\ Data(t) = g[Len(t)]
    BY DataPicks
  <2>2. Data(t) = <<>>
    BY <2>1 DEF Picks
  <2> QED BY <2>2
<1>2. ASSUME NEW n \in Nat, n \in T PROVE n + 1 \in T
  <2> SUFFICES ASSUME NEW t \in Seq(S), Len(t) = n + 1 PROVE Data(t) \in Seq(D)
    OBVIOUS
  <2>1. PICK u \in Seq(S), m \in S : t = Append(u, m) /\ Len(u) = n
    BY LastApart
  <2>2. Data(u) \in Seq(D)
    BY <1>2, <2>1
  <2>3. Data(t) = IF IsData(m) THEN Append(Data(u), m) ELSE Data(u)
    BY <2>1, DataAppend
  <2>4. IsData(m) => m \in D
    BY <2>1
  <2> HIDE DEF D
  <2> QED BY <2>2, <2>3, <2>4
<1> HIDE DEF T
<1>3. Nat \subseteq T
  BY <1>1, <1>2, Induction
<1>4. Len(s) \in T
  BY <1>3
<1> QED BY <1>4 DEF T

LEMMA DataEmpty == Data(<<>>) = <<>>
<1>1. PICK g : Picks(<<>>, g) /\ Data(<<>>) = g[Len(<<>>)]
  <2>1. <<>> \in Seq({})
    OBVIOUS
  <2> QED BY <2>1, DataPicks
<1> QED BY <1>1 DEF Picks

\* The algebra of sequences, under names the provers leave alone.
Cat(s, t) == s \o t
Add(s, m) == Append(s, m)

LEMMA Algebra ==
  \A S : \A s \in Seq(S) :
    /\ Cat(s, <<>>) = s /\ Cat(<<>>, s) = s
    /\ \A m \in S : Add(s, m) \in Seq(S)
    /\ \A t \in Seq(S) :
         /\ Cat(s, t) \in Seq(S)
         /\ \A u \in Seq(S) : Cat(Cat(s, t), u) = Cat(s, Cat(t, u))
         /\ \A m \in S : Cat(s, Add(t, m)) = Add(Cat(s, t), m)
<1> SUFFICES ASSUME NEW S, NEW s \in Seq(S)
             PROVE  /\ Cat(s, <<>>) = s /\ Cat(<<>>, s) = s
                    /\ \A m \in S : Add(s, m) \in Seq(S)
                    /\ \A t \in Seq(S) :
                         /\ Cat(s, t) \in Seq(S)
                         /\ \A u \in Seq(S) : Cat(Cat(s, t), u) = Cat(s, Cat(t, u))
                         /\ \A m \in S : Cat(s, Add(t, m)) = Add(Cat(s, t), m)
  OBVIOUS
<1>1. Cat(s, <<>>) = s /\ Cat(<<>>, s) = s
  BY DEF Cat
<1>2. \A m \in S : Add(s, m) \in Seq(S)
  BY DEF Add
<1>3. \A t \in Seq(S) : Cat(s, t) \in Seq(S)
  BY DEF Cat
<1>4. \A t, u \in Seq(S) : Cat(Cat(s, t), u) = Cat(s, Cat(t, u))
  BY DEF Cat
<1>5. \A t \in Seq(S), m \in S : Cat(s, Add(t, m)) = Add(Cat(s, t), m)
  BY DEF Cat, Add
<1> QED BY <1>1, <1>2, <1>3, <1>4, <1>5

LEMMA DataConcat ==
  ASSUME NEW S, NEW s \in Seq(S), NEW t \in Seq(S)
  PROVE  Data(Cat(s, t)) = Cat(Data(s), Data(t))
<1> DEFINE D == {m \in S : IsData(m)}
           T == {n \in Nat : \A u \in Seq(S) :
                              Len(u) = n => Data(Cat(s, u)) = Cat(Data(s), Data(u))}
<1>0. \A u \in Seq(S) : Data(u) \in Seq(D)
  BY DataTyped
<1>a. \A u \in Seq(S), m \in S :
        Data(Add(u, m)) = IF IsData(m) THEN Add(Data(u), m) ELSE Data(u)
  BY DataAppend DEF Add
<1>b. \A m \in S : IsData(m) => m \in D
  OBVIOUS
<1>c. \A u \in Seq(S) : /\ Cat(s, u) \in Seq(S)
                        /\ \A m \in S : Cat(s, Add(u, m)) = Add(Cat(s, u), m)
  BY Algebra
<1>1. 0 \in T
  <2> SUFFICES ASSUME NEW u \in Seq(S), Len(u) = 0
               PROVE  Data(Cat(s, u)) = Cat(Data(s), Data(u))
    OBVIOUS
  <2>1. u = <<>>
    OBVIOUS
  <2> HIDE DEF D, T
  <2> QED BY <1>0, <2>1, DataEmpty, Algebra
<1>2. ASSUME NEW n \in Nat, n \in T PROVE n + 1 \in T
  <2> SUFFICES ASSUME NEW u \in Seq(S), Len(u) = n + 1
               PROVE  Data(Cat(s, u)) = Cat(Data(s), Data(u))
    OBVIOUS
  <2>1. PICK v \in Seq(S), m \in S : u = Add(v, m) /\ Len(v) = n
    BY LastApart DEF Add
  <2>2. Data(Cat(s, v)) = Cat(Data(s), Data(v))
    BY <1>2, <2>1
  <2> HIDE DEF D, T
  <2>3. Cat(s, u) = Add(Cat(s, v), m) /\ Cat(s, v) \in Seq(S)
    BY <1>c, <2>1
  <2>4. CASE IsData(m)
    <3>1. Data(Cat(s, u)) = Add(Cat(Data(s), Data(v)), m) /\ Data(u) = Add(Data(v), m)
      BY <1>a, <2>1, <2>2, <2>3, <2>4
    <3>2. Data(s) \in Seq(D) /\ Data(v) \in Seq(D) /\ m \in D
      BY <1>0, <1>b, <2>1, <2>4
    <3> QED BY <3>1, <3>2, Algebra
  <2>5. CASE ~IsData(m)
    BY <1>a, <2>1, <2>2, <2>3, <2>5
  <2> QED BY <2>4, <2>5
<1> HIDE DEF T
<1>3. Nat \subseteq T
  BY <1>1, <1>2, Induction
<1>4. Len(t) \in T
  BY <1>3
<1> QED BY <1>4 DEF T

LEMMA PrefixFacts ==
  ASSUME NEW S, NEW s \in Seq(S), NEW t \in Seq(S)
  PROVE  /\ IsPrefix(s, s) /\ IsPrefix(s, s \o t)
         /\ \A m \in S : IsPrefix(s, t) => IsPrefix(s, Append(t, m))
         /\ IsPrefix(s, t) => Len(s) <= Len(t) /\ \A i \in 1 .. Len(s) : s[i] = t[i]
<1>1. IsPrefix(s, s)
  BY DEF IsPrefix
<1>2. IsPrefix(s, s \o t)
  <2>1. Len(s \o t) = Len(s) + Len(t) /\ s \o t \in Seq(S)
    BY ConcatProperties
  <2>2. SubSeq(s \o t, 1, Len(s)) = s /\ SubSeq(s, 1, Len(s)) = s
    BY SubSeqOfConcat1, SubSeqFull
  <2> QED BY <2>1, <2>2 DEF IsPrefix
<1>3. ASSUME NEW m \in S, IsPrefix(s, t) PROVE IsPrefix(s, Append(t, m))
  <2>1. Len(s) <= Len(t) /\ SubSeq(s, 1, Len(s)) = SubSeq(t, 1, Len(s))
    BY <1>3 DEF IsPrefix
  <2>2. SubSeq(Append(t, m), 1, Len(s)) = SubSeq(t, 1, Len(s))
    BY <2>1
  <2> QED BY <2>1, <2>2 DEF IsPrefix
<1>4. ASSUME IsPrefix(s, t)
      PROVE  Len(s) <= Len(t) /\ \A i \in 1 .. Len(s) : s[i] = t[i]
  <2>1. Len(s) <= Len(t) /\ SubSeq(s, 1, Len(s)) = SubSeq(t, 1, Len(s))
    BY <1>4 DEF IsPrefix
  <2>2. \A i \in 1 .. Len(s) : SubSeq(s, 1, Len(s))[i] = s[i] /\ SubSeq(t, 1, Len(s))[i] = t[i]
    BY <2>1
  <2> QED BY <2>1, <2>2
<1> QED BY <1>1, <1>2, <1>3, <1>4

LEMMA DataFacts ==
  ASSUME NEW s \in Queue
  PROVE  /\ Data(s) \in Seq(Message)
         /\ Data(Add(s, Pong)) = Data(s)
         /\ \A m \in Message : Data(Add(s, m)) = Add(Data(s), m)
         /\ \A t \in Queue : Data(Cat(s, t)) = Cat(Data(s), Data(t))
<1> DEFINE S == Message \cup {Pong}
<1>1. \A m \in S : IsData(m) <=> m \in Message
  BY WSHubAssumption DEF Message, IsData, Pong
<1>2. {m \in S : IsData(m)} = Message
  BY <1>1
<1>3. s \in Seq(S)
  BY DEF Queue
<1>4. Data(s) \in Seq(Message)
  BY <1>2, <1>3, DataTyped
<1>5. \A m \in S : Data(Add(s, m)) = IF IsData(m) THEN Add(Data(s), m) ELSE Data(s)
  BY <1>3, DataAppend DEF Add
<1>6. Pong \in S /\ ~IsData(Pong) /\ \A m \in Message : m \in S /\ IsData(m)
  BY <1>1 DEF IsData
<1>7. \A t \in Queue : Data(Cat(s, t)) = Cat(Data(s), Data(t))
  BY DataConcat DEF Queue
<1> HIDE DEF S
<1> QED BY <1>4, <1>5, <1>6, <1>7

LEMMA QueueAlgebra ==
  \A p, q \in Queue :
    /\ Cat(p, q) \in Queue
    /\ \A m \in Message \cup {Pong} : Cat(p, Add(q, m)) = Add(Cat(p, q), m)
<1> DEFINE S == Message \cup {Pong}
<1>1. Queue = Seq(S)
  BY DEF Queue
<1> HIDE DEF S
<1>2. \A p, q \in Seq(S) :
        /\ Cat(p, q) \in Seq(S)
        /\ \A m \in S : Cat(p, Add(q, m)) = Add(Cat(p, q), m)
  BY Algebra
<1> QED BY <1>1, <1>2 DEF S

LEMMA HeadFacts ==
  ASSUME NEW s \in Queue, s # <<>>
  PROVE  /\ Tail(s) \in Queue /\ <<Head(s)>> \in Queue
         /\ Cat(<<Head(s)>>, Tail(s)) = s
         /\ \A f \in Queue : Add(f, Head(s)) \in Queue /\ Cat(Add(f, Head(s)), Tail(s)) = Cat(f, s)
<1>1. Tail(s) \in Queue /\ Head(s) \in Message \cup {Pong}
  BY DEF Queue
<1>2. Cat(<<Head(s)>>, Tail(s)) = s
  BY <1>1 DEF Cat, Queue
<1>3. ASSUME NEW f \in Queue
      PROVE  Add(f, Head(s)) \in Queue /\ Cat(Add(f, Head(s)), Tail(s)) = Cat(f, s)
  BY <1>1 DEF Add, Cat, Queue
<1> QED BY <1>1, <1>2, <1>3 DEF Queue

-----------------------------------------------------------------------------
(* What a peer receives.                                                      *)

FlowTypes == /\ frame \in [Client -> Queue]
             /\ got \in [Client -> Seq(Message)] /\ owed \in [Client -> Seq(Message)]

\* The write pump starts when the hub has taken the client.
Started == \A c \in Client : writer[c] = "none" <=> reader[c] \in {"none", "registering"}

\* What the peer got, the open frame and the channel are what it is owed; the
\* pump that has ended owes nothing more.
Flow(c) ==
  /\ writer[c] = "none" => /\ frame[c] = <<>> /\ send[c] = <<>>
                           /\ got[c] = <<>> /\ owed[c] = <<>>
  /\ writer[c] = "waiting" => frame[c] = <<>>
  /\ writer[c] \in {"waiting", "draining"} =>
       Cat(got[c], Data(Cat(frame[c], send[c]))) = owed[c]
  /\ IsPrefix(got[c], owed[c])

Rising(q) == \A i, j \in 1 .. Len(q) : i < j => q[i].id < q[j].id

\* The hub takes the messages in the order of Broadcast.
Numbered ==
  /\ Rising(broadcast)
  /\ \A i \in 1 .. Len(broadcast) : broadcast[i].id <= posted
  /\ \A c \in Client :
       /\ Rising(owed[c])
       /\ \A i \in 1 .. Len(owed[c]) :
            /\ owed[c][i].id <= posted
            /\ \A j \in 1 .. Len(broadcast) : owed[c][i].id < broadcast[j].id

FlowInv == FlowTypes /\ Started /\ Numbered /\ \A c \in Client : Flow(c)

LEMMA FlowInit == Init => FlowInv
<1> SUFFICES ASSUME Init PROVE FlowInv
  OBVIOUS
<1>1. FlowTypes /\ Started /\ Numbered
  BY DEF Init, FlowTypes, Queue, Started, Numbered, Rising
<1>2. IsPrefix(<<>>, <<>>)
  BY DEF IsPrefix
<1> QED BY <1>1, <1>2 DEF Init, FlowInv, Flow

\* A step that is about one client's messages, if any.
LEMMA OneClient ==
  ASSUME FlowInv, NEW c \in Client, FlowTypes', Started', Flow(c)',
         UNCHANGED <<broadcast, posted, owed>>,
         \A d \in Client : d # c =>
           /\ writer'[d] = writer[d] /\ send'[d] = send[d] /\ frame'[d] = frame[d]
           /\ got'[d] = got[d]
  PROVE  FlowInv'
<1>1. Numbered'
  BY DEF FlowInv, Numbered, Rising
<1>2. ASSUME NEW d \in Client, d # c PROVE Flow(d)'
  BY <1>2 DEF FlowInv, Flow
<1> QED BY <1>1, <1>2 DEF FlowInv

LEMMA PumpsFlow ==
  ASSUME IInv, FlowInv, NEW c \in Client,
         WriterTake(c) \/ WriterDrain(c) \/ WriterFlush(c) \/ WriterEnds(c)
  PROVE  FlowInv'
<1>1. UNCHANGED <<broadcast, posted, owed, reader>>
  BY DEF WriterTake, WriterDrain, WriterFlush, WriterEnds, hubVars
<1>2. /\ send[c] \in Queue /\ frame[c] \in Queue
      /\ got[c] \in Seq(Message) /\ owed[c] \in Seq(Message)
  BY DEF IInv, Types, FlowInv, FlowTypes
<1>3. CASE WriterTake(c)
  <2>1. /\ writer[c] = "waiting" /\ send[c] # <<>>
        /\ writer' = [writer EXCEPT ![c] = "draining"]
        /\ frame' = [frame EXCEPT ![c] = <<Head(send[c])>>]
        /\ send' = [send EXCEPT ![c] = Tail(send[c])]
        /\ got' = got
    BY <1>3 DEF WriterTake
  <2>2. <<Head(send[c])>> \in Queue /\ Cat(<<Head(send[c])>>, Tail(send[c])) = send[c]
    BY <1>2, <2>1, HeadFacts
  <2>3. /\ writer'[c] = "draining" /\ frame'[c] = <<Head(send[c])>> /\ send'[c] = Tail(send[c])
        /\ \A d \in Client : d # c =>
             writer'[d] = writer[d] /\ send'[d] = send[d] /\ frame'[d] = frame[d]
    BY <2>1 DEF IInv, Types, FlowInv, FlowTypes
  <2>4. FlowTypes' /\ Started'
    BY <1>1, <2>1, <2>2, <2>3 DEF FlowInv, FlowTypes, Started
  <2>5. Cat(frame[c], send[c]) = send[c]
    BY <1>2, <2>1, Algebra DEF FlowInv, Flow, Queue
  <2>6. Flow(c)'
    BY <1>1, <2>1, <2>2, <2>3, <2>5 DEF FlowInv, Flow
  <2> QED BY <1>1, <2>1, <2>3, <2>4, <2>6, OneClient
<1>4. CASE WriterDrain(c)
  <2>1. /\ writer[c] = "draining" /\ send[c] # <<>>
        /\ frame' = [frame EXCEPT ![c] = Add(frame[c], Head(send[c]))]
        /\ send' = [send EXCEPT ![c] = Tail(send[c])]
        /\ UNCHANGED <<got, writer>>
    BY <1>4 DEF WriterDrain, Add
  <2>2. /\ Add(frame[c], Head(send[c])) \in Queue
        /\ Cat(Add(frame[c], Head(send[c])), Tail(send[c])) = Cat(frame[c], send[c])
    BY <1>2, <2>1, HeadFacts
  <2>3. /\ frame'[c] = Add(frame[c], Head(send[c])) /\ send'[c] = Tail(send[c])
        /\ \A d \in Client : d # c => send'[d] = send[d] /\ frame'[d] = frame[d]
    BY <2>1 DEF IInv, Types, FlowInv, FlowTypes
  <2>4. FlowTypes' /\ Started'
    BY <1>1, <2>1, <2>2 DEF FlowInv, FlowTypes, Started
  <2>5. Flow(c)'
    BY <1>1, <2>1, <2>2, <2>3 DEF FlowInv, Flow
  <2> QED BY <1>1, <2>1, <2>3, <2>4, <2>5, OneClient
<1>5. CASE WriterFlush(c)
  <2>1. /\ writer[c] = "draining" /\ send' = send
        /\ frame' = [frame EXCEPT ![c] = <<>>]
    BY <1>5 DEF WriterFlush
  <2>2. frame'[c] = <<>> /\ \A d \in Client : d # c => frame'[d] = frame[d]
    BY <2>1 DEF FlowInv, FlowTypes
  <2>3. frame' \in [Client -> Queue]
    BY <2>1 DEF FlowInv, FlowTypes, Queue
  <2>4. CASE conn[c] = "open"
    <3>1. /\ got' = [got EXCEPT ![c] = Cat(got[c], Data(frame[c]))]
          /\ writer' = [writer EXCEPT ![c] = "waiting"]
      BY <1>5, <2>4 DEF WriterFlush, Cat
    <3>2. Data(frame[c]) \in Seq(Message) /\ Data(send[c]) \in Seq(Message)
      BY <1>2, DataFacts
    <3>3. Cat(got[c], Data(frame[c])) \in Seq(Message)
      BY <1>2, <3>2, Algebra
    <3>4. /\ got'[c] = Cat(got[c], Data(frame[c])) /\ writer'[c] = "waiting"
          /\ \A d \in Client : d # c => got'[d] = got[d] /\ writer'[d] = writer[d]
      BY <3>1 DEF IInv, Types, FlowInv, FlowTypes
    <3>5. FlowTypes' /\ Started'
      BY <1>1, <2>1, <2>3, <3>1, <3>3, <3>4 DEF FlowInv, FlowTypes, Started
    <3>6. owed[c] = Cat(got[c], Cat(Data(frame[c]), Data(send[c])))
      BY <1>2, <2>1, DataFacts DEF FlowInv, Flow
    <3>7. owed[c] = Cat(Cat(got[c], Data(frame[c])), Data(send[c]))
      <4>1. \A p, q, u \in Seq(Message) : Cat(p, Cat(q, u)) = Cat(Cat(p, q), u)
        BY Algebra
      <4> QED BY <1>2, <3>2, <3>6, <4>1
    <3>8. Cat(<<>>, send[c]) = send[c]
      BY <1>2, Algebra DEF Queue
    <3>9. IsPrefix(Cat(got[c], Data(frame[c])), owed[c])
      <4>1. \A p, q \in Seq(Message) : IsPrefix(p, Cat(p, q))
        BY PrefixFacts DEF Cat
      <4> QED BY <3>2, <3>3, <3>7, <4>1
    <3>10. Flow(c)'
      BY <1>1, <2>1, <2>2, <3>4, <3>7, <3>8, <3>9 DEF Flow
    <3> QED BY <1>1, <2>1, <2>2, <3>4, <3>5, <3>10, OneClient
  <2>5. CASE conn[c] # "open"
    <3>1. got' = got /\ writer' = [writer EXCEPT ![c] = "done"]
      BY <1>5, <2>5 DEF WriterFlush
    <3>2. writer'[c] = "done" /\ \A d \in Client : d # c => writer'[d] = writer[d]
      BY <3>1 DEF IInv, Types
    <3>3. FlowTypes' /\ Started'
      BY <1>1, <2>1, <2>3, <3>1, <3>2 DEF FlowInv, FlowTypes, Started
    <3>4. Flow(c)'
      BY <1>1, <3>1, <3>2 DEF FlowInv, Flow
    <3> QED BY <1>1, <2>1, <2>2, <3>1, <3>2, <3>3, <3>4, OneClient
  <2> QED BY <2>4, <2>5
<1>6. CASE WriterEnds(c)
  <2>1. /\ writer[c] = "waiting" /\ writer' = [writer EXCEPT ![c] = "done"]
        /\ UNCHANGED <<send, frame, got>>
    BY <1>6 DEF WriterEnds
  <2>2. writer'[c] = "done" /\ \A d \in Client : d # c => writer'[d] = writer[d]
    BY <2>1 DEF IInv, Types
  <2>3. FlowTypes' /\ Started'
    BY <1>1, <2>1, <2>2 DEF FlowInv, FlowTypes, Started
  <2>4. Flow(c)'
    BY <1>1, <2>1, <2>2 DEF FlowInv, Flow
  <2> QED BY <1>1, <2>1, <2>2, <2>3, <2>4, OneClient
<1> QED BY <1>3, <1>4, <1>5, <1>6

\* A step that moves no message.
LEMMA NoMessage ==
  ASSUME FlowInv, Started', UNCHANGED <<broadcast, posted, owed, got, frame, send, writer>>
  PROVE  FlowInv'
BY DEF FlowInv, FlowTypes, Numbered, Rising, Flow

LEMMA ReadersFlow ==
  ASSUME IInv, FlowInv, NEW c \in Client,
         \/ Accept(c) \/ Unregister(c) \/ ReadFails(c) \/ Disconnect(c)
         \/ \E ch \in Channel : Subscribe(c, ch) \/ Unsubscribe(c, ch)
  PROVE  FlowInv'
<1>1. UNCHANGED <<broadcast, posted, owed, got, frame, send, writer>>
  BY DEF Accept, Unregister, ReadFails, Disconnect, Subscribe, Unsubscribe, hubVars, pumpVars
<1>2. \/ reader' = reader
      \/ reader[c] = "none" /\ reader' = [reader EXCEPT ![c] = "registering"]
      \/ reader[c] = "reading" /\ reader' = [reader EXCEPT ![c] = "leaving"]
      \/ reader[c] = "leaving" /\ reader' = [reader EXCEPT ![c] = "done"]
  BY DEF Accept, Unregister, ReadFails, Disconnect, Subscribe, Unsubscribe, pumpVars
<1>3. Started'
  BY <1>1, <1>2 DEF IInv, Types, FlowInv, Started
<1> QED BY <1>1, <1>3, NoMessage

LEMMA RegisterFlows == ASSUME IInv, FlowInv, NEW c \in Client, Register(c) PROVE FlowInv'
<1>1. /\ reader[c] = "registering"
      /\ reader' = [reader EXCEPT ![c] = "reading"]
      /\ writer' = [writer EXCEPT ![c] = "waiting"]
      /\ UNCHANGED <<broadcast, posted, owed, got, frame, send>>
  BY DEF Register
<1>2. /\ writer'[c] = "waiting" /\ reader'[c] = "reading"
      /\ \A d \in Client : d # c => writer'[d] = writer[d] /\ reader'[d] = reader[d]
  BY <1>1 DEF IInv, Types
<1>3. Started' /\ FlowTypes'
  BY <1>1, <1>2 DEF FlowInv, Started, FlowTypes
<1>4. frame[c] = <<>> /\ send[c] = <<>> /\ got[c] = <<>> /\ owed[c] = <<>>
  BY <1>1 DEF FlowInv, Started, Flow
<1>5. Cat(<<>>, <<>>) = <<>>
  BY DEF Cat
<1>6. Flow(c)'
  BY <1>1, <1>2, <1>4, <1>5, DataEmpty DEF FlowInv, Flow
<1> QED BY <1>1, <1>2, <1>3, <1>6, OneClient

LEMMA PingFlows == ASSUME IInv, FlowInv, NEW c \in Client, Ping(c) PROVE FlowInv'
<1>1. /\ reader[c] = "reading"
      /\ UNCHANGED <<broadcast, posted, owed, got, frame, reader, writer>>
      /\ send' = send \/ send' = [send EXCEPT ![c] = Add(send[c], Pong)]
  BY DEF Ping, hubVars, pumpVars, Add
<1>2. Started'
  BY <1>1 DEF FlowInv, Started
<1>3. CASE send' = send
  BY <1>1, <1>2, <1>3, NoMessage
<1>4. CASE send' = [send EXCEPT ![c] = Add(send[c], Pong)]
  <2>1. send'[c] = Add(send[c], Pong) /\ \A d \in Client : d # c => send'[d] = send[d]
    BY <1>4 DEF IInv, Types
  <2>2. send[c] \in Queue /\ frame[c] \in Queue /\ writer[c] # "none"
    BY <1>1 DEF IInv, Types, FlowInv, FlowTypes, Started
  <2>3. /\ Cat(frame[c], send[c]) \in Queue
        /\ Cat(frame[c], Add(send[c], Pong)) = Add(Cat(frame[c], send[c]), Pong)
    BY <2>2, QueueAlgebra
  <2>4. Data(Cat(frame[c], Add(send[c], Pong))) = Data(Cat(frame[c], send[c]))
    BY <2>3, DataFacts
  <2>5. Flow(c)'
    BY <1>1, <2>1, <2>2, <2>4 DEF FlowInv, Flow
  <2>6. FlowTypes'
    BY <1>1 DEF FlowInv, FlowTypes
  <2> QED BY <1>1, <1>2, <2>1, <2>5, <2>6, OneClient
<1> QED BY <1>1, <1>3, <1>4

LEMMA BroadcastFlows == ASSUME IInv, FlowInv, NEW ch \in Channel, Broadcast(ch) PROVE FlowInv'
<1>1. /\ posted' = posted + 1
      /\ UNCHANGED <<owed, got, frame, send, reader, writer>>
      /\ \/ broadcast' = broadcast
         \/ broadcast' = Append(broadcast, [id |-> posted + 1, ch |-> ch])
  BY DEF Broadcast, pumpVars
<1>2. /\ posted \in Nat /\ broadcast \in Seq(Message)
      /\ \A c \in Client : owed[c] \in Seq(Message)
      /\ \A m \in Message : m.id \in Nat
  <2>1. \A m \in Message : m.id \in Nat
    BY WSHubAssumption DEF Message
  <2>2. posted \in Nat
    BY WSHubAssumption DEF IInv, Types
  <2> QED BY <2>1, <2>2 DEF IInv, Types, FlowInv, FlowTypes
<1>3. Numbered'
  <2>1. CASE broadcast' = broadcast
    <3>1. /\ \A i \in 1 .. Len(broadcast) : broadcast[i].id \in Nat
          /\ \A c \in Client : \A i \in 1 .. Len(owed[c]) : owed[c][i].id \in Nat
      BY <1>2
    <3>2. /\ \A i \in 1 .. Len(broadcast) : broadcast[i].id <= posted + 1
          /\ \A c \in Client : \A i \in 1 .. Len(owed[c]) : owed[c][i].id <= posted + 1
      BY <1>2, <3>1 DEF FlowInv, Numbered
    <3> QED BY <1>1, <2>1, <3>2 DEF FlowInv, Numbered, Rising
  <2>2. CASE broadcast' = Append(broadcast, [id |-> posted + 1, ch |-> ch])
    <3> DEFINE b == broadcast'
    <3>1. /\ Len(b) = Len(broadcast) + 1
          /\ \A i \in 1 .. Len(broadcast) : b[i] = broadcast[i] /\ b[i].id \in Nat
          /\ b[Len(b)].id = posted + 1
      BY <1>2, <2>2
    <3>2. \A i \in 1 .. Len(broadcast) : b[i].id <= posted
      BY <3>1 DEF FlowInv, Numbered
    <3>3. \A i \in 1 .. Len(b) : i \in 1 .. Len(broadcast) \/ i = Len(b)
      BY <1>2, <3>1
    <3>4. /\ \A c \in Client : \A i \in 1 .. Len(owed[c]) :
               owed[c][i].id \in Nat /\ owed[c][i].id <= posted
      BY <1>2 DEF FlowInv, Numbered
    <3> HIDE DEF b
    <3>5. Rising(b)
      <4> SUFFICES ASSUME NEW i \in 1 .. Len(b), NEW j \in 1 .. Len(b), i < j
                   PROVE  b[i].id < b[j].id
        BY DEF Rising
      <4>1. i \in 1 .. Len(broadcast)
        BY <1>2, <3>1
      <4>2. CASE j \in 1 .. Len(broadcast)
        BY <3>1, <4>1, <4>2 DEF FlowInv, Numbered, Rising
      <4>3. CASE j = Len(b)
        BY <1>2, <3>1, <3>2, <4>1, <4>3
      <4> QED BY <3>3, <4>2, <4>3
    <3>6. \A i \in 1 .. Len(b) : b[i].id <= posted + 1
      BY <1>2, <3>1, <3>2, <3>3
    <3>7. \A c \in Client :
            /\ Rising(owed[c])
            /\ \A i \in 1 .. Len(owed[c]) :
                 /\ owed[c][i].id <= posted + 1
                 /\ \A j \in 1 .. Len(b) : owed[c][i].id < b[j].id
      <4> SUFFICES ASSUME NEW c \in Client
                   PROVE  /\ Rising(owed[c])
                          /\ \A i \in 1 .. Len(owed[c]) :
                               /\ owed[c][i].id <= posted + 1
                               /\ \A j \in 1 .. Len(b) : owed[c][i].id < b[j].id
        OBVIOUS
      <4>1. \A i \in 1 .. Len(owed[c]) : \A j \in 1 .. Len(broadcast) :
              owed[c][i].id < b[j].id
        BY <3>1 DEF FlowInv, Numbered
      <4>2. \A i \in 1 .. Len(owed[c]) : owed[c][i].id < b[Len(b)].id
        BY <1>2, <3>1, <3>4
      <4>3. \A i \in 1 .. Len(owed[c]) : owed[c][i].id <= posted + 1
        BY <1>2, <3>4
      <4> QED BY <3>3, <4>1, <4>2, <4>3 DEF FlowInv, Numbered
    <3> QED BY <1>1, <3>5, <3>6, <3>7 DEF Numbered, b
  <2> QED BY <1>1, <2>1, <2>2
<1> QED BY <1>1, <1>3 DEF FlowInv, FlowTypes, Started, Flow

\* The hub takes the oldest message: the clients it sends it to are owed it.
LEMMA HubSendFlows == ASSUME IInv, FlowInv, HubSend PROVE FlowInv'
<1>1. PICK m : m = Head(broadcast)
  OBVIOUS
<1>2. PICK R : R = Subscribers(m) \ Slow(m)
  OBVIOUS
<1>3. /\ hub = "running" /\ broadcast # <<>> /\ broadcast' = Tail(broadcast)
      /\ send' = [c \in Client |-> IF c \in R THEN Add(send[c], m) ELSE send[c]]
      /\ owed' = [c \in Client |-> IF c \in R THEN Add(owed[c], m) ELSE owed[c]]
      /\ UNCHANGED <<posted, got, frame, reader, writer>>
  BY <1>1, <1>2 DEF HubSend, pumpVars, Add
<1>4. /\ broadcast \in Seq(Message) /\ posted \in Nat
      /\ \A c \in Client : /\ send[c] \in Queue /\ frame[c] \in Queue
                           /\ got[c] \in Seq(Message) /\ owed[c] \in Seq(Message)
  BY WSHubAssumption DEF IInv, Types, FlowInv, FlowTypes
<1>5. /\ m \in Message /\ Tail(broadcast) \in Seq(Message)
      /\ Len(Tail(broadcast)) = Len(broadcast) - 1
      /\ m = broadcast[1] /\ 1 \in 1 .. Len(broadcast)
      /\ \A j \in 1 .. Len(Tail(broadcast)) :
           /\ j + 1 \in 1 .. Len(broadcast) /\ j \in 1 .. Len(broadcast)
           /\ Tail(broadcast)[j] = broadcast[j + 1]
  BY <1>1, <1>3, <1>4
<1>6. \A c \in R : c \in Client /\ writer[c] # "none"
  <2>1. \A c \in R : c \in clients
    BY <1>2 DEF Subscribers
  <2> QED BY <1>3, <2>1 DEF IInv, Types, MapMatchesChannels, FlowInv, Started
<1>7. ASSUME NEW c \in Client
      PROVE  /\ Add(owed[c], m) \in Seq(Message) /\ Add(send[c], m) \in Queue
             /\ Len(Add(owed[c], m)) = Len(owed[c]) + 1
             /\ Add(owed[c], m)[Len(owed[c]) + 1] = m
             /\ \A i \in 1 .. Len(owed[c]) : Add(owed[c], m)[i] = owed[c][i]
  BY <1>4, <1>5 DEF Add, Queue
<1>8. FlowTypes'
  BY <1>3, <1>4, <1>7 DEF FlowInv, FlowTypes
<1>9. Started'
  BY <1>3 DEF FlowInv, Started
<1>10. ASSUME NEW c \in Client PROVE Flow(c)'
  <2>1. CASE c \notin R
    BY <1>3, <2>1 DEF FlowInv, Flow
  <2>2. CASE c \in R
    <3>1. send'[c] = Add(send[c], m) /\ owed'[c] = Add(owed[c], m)
      BY <1>3, <2>2
    <3>2. m \in Message \cup {Pong}
      BY <1>5
    <3>3. /\ Cat(frame[c], send[c]) \in Queue
          /\ Cat(frame[c], Add(send[c], m)) = Add(Cat(frame[c], send[c]), m)
      BY <1>4, <3>2, QueueAlgebra
    <3>4. /\ Data(Cat(frame[c], send[c])) \in Seq(Message)
          /\ Data(Cat(frame[c], Add(send[c], m))) = Add(Data(Cat(frame[c], send[c])), m)
      BY <1>5, <3>3, DataFacts
    <3>5. Cat(got[c], Data(Cat(frame[c], Add(send[c], m))))
            = Add(Cat(got[c], Data(Cat(frame[c], send[c]))), m)
      <4>1. \A p, q \in Seq(Message) : Cat(p, Add(q, m)) = Add(Cat(p, q), m)
        BY <1>5, Algebra
      <4> QED BY <1>4, <3>4, <4>1
    <3>6. IsPrefix(got[c], owed[c]) => IsPrefix(got[c], Add(owed[c], m))
      BY <1>4, <1>5, PrefixFacts DEF Add
    <3>7. writer[c] # "none"
      BY <1>6, <2>2
    <3> QED BY <1>3, <3>1, <3>5, <3>6, <3>7 DEF FlowInv, Flow
  <2> QED BY <2>1, <2>2
<1>11. Numbered'
  <2> DEFINE t == Tail(broadcast)
  <2>1. /\ \A j \in 1 .. Len(t) : t[j].id <= posted /\ m.id < t[j].id
        /\ m.id <= posted
    <3>1. \A j \in 1 .. Len(t) : 1 < j + 1
      BY <1>5
    <3> QED BY <1>5, <3>1 DEF FlowInv, Numbered, Rising
  <2>2. Rising(t)
    <3> SUFFICES ASSUME NEW i \in 1 .. Len(t), NEW j \in 1 .. Len(t), i < j
                 PROVE  t[i].id < t[j].id
      BY DEF Rising
    <3>1. /\ i + 1 \in 1 .. Len(broadcast) /\ j + 1 \in 1 .. Len(broadcast) /\ i + 1 < j + 1
          /\ t[i] = broadcast[i + 1] /\ t[j] = broadcast[j + 1]
      BY <1>5
    <3> HIDE DEF t
    <3> QED BY <3>1 DEF FlowInv, Numbered, Rising
  <2>3. ASSUME NEW c \in Client
        PROVE  /\ Rising(owed'[c])
               /\ \A i \in 1 .. Len(owed'[c]) :
                    /\ owed'[c][i].id <= posted
                    /\ \A j \in 1 .. Len(t) : owed'[c][i].id < t[j].id
    <3>1. /\ Rising(owed[c])
          /\ \A i \in 1 .. Len(owed[c]) :
               /\ owed[c][i].id <= posted /\ owed[c][i].id < m.id
               /\ \A j \in 1 .. Len(t) : owed[c][i].id < t[j].id
      BY <1>5 DEF FlowInv, Numbered
    <3>2. CASE c \notin R
      BY <1>3, <3>1, <3>2
    <3>3. CASE c \in R
      <4>1. PICK o : o = owed'[c]
        OBVIOUS
      <4>2. /\ Len(o) = Len(owed[c]) + 1 /\ o[Len(o)] = m
            /\ \A i \in 1 .. Len(owed[c]) : o[i] = owed[c][i]
            /\ Len(owed[c]) \in Nat
        BY <1>3, <1>4, <1>7, <3>3, <4>1
      <4>3. \A i \in 1 .. Len(o) : i \in 1 .. Len(owed[c]) \/ i = Len(o)
        BY <4>2
      <4> HIDE DEF t
      <4>4. ASSUME NEW i \in 1 .. Len(o), NEW j \in 1 .. Len(o), i < j
            PROVE  o[i].id < o[j].id
        <5>1. i \in 1 .. Len(owed[c])
          BY <4>2, <4>4
        <5>2. CASE j \in 1 .. Len(owed[c])
          BY <3>1, <4>2, <4>4, <5>1, <5>2 DEF Rising
        <5>3. CASE j = Len(o)
          BY <3>1, <4>2, <5>1, <5>3
        <5> QED BY <4>3, <5>2, <5>3
      <4>5. ASSUME NEW i \in 1 .. Len(o)
            PROVE  /\ o[i].id <= posted
                   /\ \A j \in 1 .. Len(t) : o[i].id < t[j].id
        BY <2>1, <3>1, <4>2, <4>3
      <4> QED BY <4>1, <4>4, <4>5 DEF Rising
    <3> QED BY <3>2, <3>3
  <2> QED BY <1>3, <2>1, <2>2, <2>3 DEF Numbered
<1> QED BY <1>8, <1>9, <1>10, <1>11 DEF FlowInv

LEMMA StopFlows == ASSUME FlowInv, Stop PROVE FlowInv'
<1>1. UNCHANGED <<broadcast, posted, owed, got, frame, send, writer, reader>>
  BY DEF Stop, pumpVars
<1> QED BY <1>1, NoMessage DEF FlowInv, Started

LEMMA StepFlows == ASSUME IInv, FlowInv, [Next]_vars PROVE FlowInv'
<1>1. ASSUME NEW c \in Client,
             \/ Accept(c) \/ Register(c) \/ Unregister(c) \/ Ping(c)
             \/ \E ch \in Channel : Subscribe(c, ch) \/ Unsubscribe(c, ch)
             \/ Disconnect(c) \/ ReadFails(c)
             \/ WriterTake(c) \/ WriterDrain(c) \/ WriterFlush(c) \/ WriterEnds(c)
      PROVE  FlowInv'
  BY <1>1, ReadersFlow, RegisterFlows, PingFlows, PumpsFlow
<1>2. ASSUME HubSend \/ Stop \/ \E ch \in Channel : Broadcast(ch) PROVE FlowInv'
  BY <1>2, HubSendFlows, StopFlows, BroadcastFlows
<1>3. ASSUME UNCHANGED vars PROVE FlowInv'
  BY <1>3, NoMessage DEF FlowInv, Started, vars
<1> QED BY <1>1, <1>2, <1>3 DEF Next

LEMMA FlowIsOrder == ASSUME FlowInv PROVE OnceInOrder
<1> SUFFICES ASSUME NEW c \in Client
             PROVE  /\ IsPrefix(got[c], owed[c])
                    /\ writer[c] \in {"waiting", "draining"} =>
                         got[c] \o Data(frame[c] \o send[c]) = owed[c]
                    /\ \A i, j \in 1 .. Len(got[c]) : i < j => got[c][i].id < got[c][j].id
  BY DEF OnceInOrder
<1>1. IsPrefix(got[c], owed[c]) /\ Rising(owed[c])
  BY DEF FlowInv, Flow, Numbered
<1>2. got[c] \in Seq(Message) /\ owed[c] \in Seq(Message)
  BY DEF FlowInv, FlowTypes
<1>3. writer[c] \in {"waiting", "draining"} =>
        got[c] \o Data(frame[c] \o send[c]) = owed[c]
  BY DEF FlowInv, Flow, Cat
<1>4. Len(got[c]) <= Len(owed[c]) /\ \A i \in 1 .. Len(got[c]) : got[c][i] = owed[c][i]
  BY <1>1, <1>2, PrefixFacts
<1>5. \A i \in 1 .. Len(got[c]) : i \in 1 .. Len(owed[c])
  BY <1>2, <1>4
<1> QED BY <1>1, <1>3, <1>4, <1>5 DEF Rising

LEMMA FlowAlways == Spec => [](IInv /\ FlowInv)
<1>1. Init => IInv /\ FlowInv
  BY InitIInv, FlowInit
<1>2. (IInv /\ FlowInv) /\ [Next]_vars => (IInv /\ FlowInv)'
  BY StepKeepsIInv, StepFlows
<1> QED BY <1>1, <1>2, PTL DEF Spec

(***************************************************************************)
(* What a peer has received is the beginning of what the hub took while it  *)
(* was subscribed, each message once and in the order of Broadcast; while   *)
(* its write pump lives the rest is in the open frame and the channel       *)
(* (ws.go:57-84, 175-228).                                                  *)
(***************************************************************************)
THEOREM PeersReceiveOnceInOrder == Spec => []OnceInOrder
<1>1. IInv /\ FlowInv => OnceInOrder
  BY FlowIsOrder
<1> QED BY <1>1, FlowAlways, PTL

-----------------------------------------------------------------------------
(* What is in the channels never exceeds their capacity.                      *)

Caps == /\ Len(broadcast) <= HubCap
        /\ \A c \in Client : Len(send[c]) <= SendCap
        /\ left \in [Client -> 0 .. SendCap]
        /\ channels \in [Client -> SUBSET Channel] /\ closed \in [Client -> BOOLEAN]
        /\ conn \in [Client -> {"none", "open", "closed"}]
        /\ dropped \subseteq Client /\ panicked \in BOOLEAN

LEMMA LenFacts ==
  ASSUME NEW S, NEW s \in Seq(S)
  PROVE  /\ Len(s) \in Nat
         /\ s # <<>> => /\ Tail(s) \in Seq(S) /\ Len(Tail(s)) = Len(s) - 1
                        /\ Len(s) \in Nat \ {0}
         /\ \A m \in S : Append(s, m) \in Seq(S) /\ Len(Append(s, m)) = Len(s) + 1
  OBVIOUS

LEMMA WriterKeepsCaps ==
  ASSUME IInv, Caps, NEW c \in Client, WriterTake(c) \/ WriterDrain(c) PROVE Caps'
<1>1. /\ send \in [Client -> Queue] /\ left \in [Client -> 0 .. SendCap] /\ SendCap \in Nat
      /\ Len(send[c]) <= SendCap
  BY WSHubAssumption DEF IInv, Types, Caps
<1>2. send[c] \in Seq(Message \cup {Pong}) /\ send[c] # <<>>
  BY <1>1 DEF WriterTake, WriterDrain, Queue
<1>3. PICK n \in Nat : n = Len(send[c]) - 1 /\ n = Len(Tail(send[c])) /\ n < SendCap
  BY <1>1, <1>2, LenFacts
<1>4. send' = [send EXCEPT ![c] = Tail(send[c])]
  BY DEF WriterTake, WriterDrain
<1>5. \A d \in Client : Len(send'[d]) <= SendCap
  BY <1>1, <1>3, <1>4 DEF Caps
<1>6. left' \in [Client -> 0 .. SendCap]
  <2>1. CASE WriterTake(c)
    <3>1. left' = [left EXCEPT ![c] = n] /\ n \in 0 .. SendCap
      BY <1>1, <1>3, <2>1 DEF WriterTake
    <3> QED BY <1>1, <3>1
  <2>2. CASE WriterDrain(c)
    <3>1. PICK k \in 0 .. SendCap : k = left[c] - 1
      BY <1>1, <2>2 DEF WriterDrain
    <3>2. left' = [left EXCEPT ![c] = k]
      BY <2>2, <3>1 DEF WriterDrain
    <3> QED BY <1>1, <3>2
  <2> QED BY <2>1, <2>2
<1>7. UNCHANGED <<broadcast, channels, closed, conn, dropped, panicked>>
  BY DEF WriterTake, WriterDrain, hubVars
<1> QED BY <1>5, <1>6, <1>7 DEF Caps

LEMMA ClientKeepsCaps ==
  ASSUME IInv, Caps, NEW c \in Client,
         \/ Accept(c) \/ Register(c) \/ Unregister(c) \/ Disconnect(c) \/ ReadFails(c)
         \/ WriterFlush(c) \/ WriterEnds(c)
         \/ \E ch \in Channel : Subscribe(c, ch) \/ Unsubscribe(c, ch)
  PROVE  Caps'
<1>1. UNCHANGED <<broadcast, send, left, dropped>>
  BY DEF Accept, Register, Unregister, Disconnect, ReadFails, WriterFlush, WriterEnds,
         Subscribe, Unsubscribe, hubVars, pumpVars
<1>2. channels' \in [Client -> SUBSET Channel]
  <2>1. channels \in [Client -> SUBSET Channel]
    BY DEF Caps
  <2>2. CASE Accept(c)
    BY <2>1, <2>2, Zenon DEF Accept
  <2>3. ASSUME NEW ch \in Channel, Subscribe(c, ch) \/ Unsubscribe(c, ch) PROVE channels' \in [Client -> SUBSET Channel]
    <3>1. PICK S \in SUBSET Channel : S = channels'[c] /\ channels' = [channels EXCEPT ![c] = S]
      <4>1. channels' = [channels EXCEPT ![c] = channels[c] \cup {ch}]
            \/ channels' = [channels EXCEPT ![c] = channels[c] \ {ch}]
        BY <2>3 DEF Subscribe, Unsubscribe
      <4>2. channels[c] \cup {ch} \in SUBSET Channel /\ channels[c] \ {ch} \in SUBSET Channel
        BY <2>1
      <4> QED BY <2>1, <4>1, <4>2, Zenon
    <3> QED BY <2>1, <3>1, Zenon
  <2>4. CASE Register(c) \/ Unregister(c) \/ Disconnect(c) \/ ReadFails(c) \/ WriterFlush(c) \/ WriterEnds(c)
    BY <2>1, <2>4 DEF Register, Unregister, Disconnect, ReadFails, WriterFlush, WriterEnds
  <2> QED BY <2>2, <2>3, <2>4
<1>3. closed' \in [Client -> BOOLEAN] /\ panicked' \in BOOLEAN
  BY DEF Caps, Close, Accept, Register, Unregister, Disconnect, ReadFails, WriterFlush, WriterEnds,
         Subscribe, Unsubscribe
<1>4. conn' \in [Client -> {"none", "open", "closed"}]
  BY DEF Caps, pumpVars, Accept, Register, Unregister, Disconnect, ReadFails, WriterFlush, WriterEnds,
         Subscribe, Unsubscribe
<1> QED BY <1>1, <1>2, <1>3, <1>4 DEF Caps

LEMMA PingKeepsCaps == ASSUME IInv, Caps, NEW c \in Client, Ping(c) PROVE Caps'
<1>1. UNCHANGED <<broadcast, left, channels, closed, conn, dropped>> /\ panicked' \in BOOLEAN
  BY DEF Ping, hubVars, pumpVars, Caps
<1>2. /\ send \in [Client -> Queue] /\ SendCap \in Nat /\ \A d \in Client : Len(send[d]) <= SendCap
  BY WSHubAssumption DEF IInv, Types, Caps
<1>3. \A d \in Client : Len(send'[d]) <= SendCap
  <2>1. CASE send' = send
    BY <1>2, <2>1
  <2>2. CASE Len(send[c]) < SendCap /\ send' = [send EXCEPT ![c] = Append(send[c], Pong)]
    <3>1. send[c] \in Seq(Message \cup {Pong})
      BY <1>2 DEF Queue
    <3>2. Len(send[c]) \in Nat /\ Len(Append(send[c], Pong)) = Len(send[c]) + 1
      BY <3>1, LenFacts
    <3> QED BY <1>2, <2>2, <3>2
  <2> QED BY <2>1, <2>2 DEF Ping
<1> QED BY <1>1, <1>3 DEF Caps

LEMMA HubKeepsCaps == ASSUME IInv, Caps, HubSend PROVE Caps'
<1> DEFINE m == Head(broadcast)
           kept == Subscribers(m) \ Slow(m)
<1>1. /\ send' = [c \in Client |-> IF c \in kept THEN Append(send[c], m) ELSE send[c]]
      /\ dropped' = dropped \cup Slow(m) /\ Close(Slow(m)) /\ broadcast # <<>>
      /\ broadcast' = Tail(broadcast) /\ UNCHANGED <<left, channels, conn>>
  BY DEF HubSend, pumpVars
<1>2. /\ send \in [Client -> Queue] /\ SendCap \in Nat /\ HubCap \in Nat
      /\ broadcast \in Seq(Message) /\ clients \subseteq Client
      /\ Len(broadcast) <= HubCap /\ \A d \in Client : Len(send[d]) <= SendCap
  BY WSHubAssumption DEF IInv, Types, Caps
<1>3. m \in Message /\ Len(broadcast') <= HubCap
  <2>1. Len(Tail(broadcast)) = Len(broadcast) - 1 /\ Len(broadcast) \in Nat
    BY <1>1, <1>2, LenFacts
  <2>2. m \in Message
    BY <1>1, <1>2
  <2> QED BY <1>1, <1>2, <2>1, <2>2
<1>4. Slow(m) \subseteq Client /\ kept \subseteq Client
      /\ \A c \in kept : Len(send[c]) # SendCap
  BY <1>2 DEF Slow, Subscribers
<1> HIDE DEF m, kept
<1>5. ASSUME NEW c \in Client PROVE Len(send'[c]) <= SendCap
  <2>1. CASE c \in kept
    <3>1. send[c] \in Seq(Message \cup {Pong})
      BY <1>2 DEF Queue
    <3>2. Len(send[c]) \in Nat /\ Len(Append(send[c], m)) = Len(send[c]) + 1
      BY <1>3, <3>1, LenFacts
    <3>3. Len(send[c]) <= SendCap /\ Len(send[c]) # SendCap
      BY <1>2, <1>4, <2>1
    <3>4. send'[c] = Append(send[c], m)
      BY <1>1, <2>1
    <3> QED BY <1>2, <3>2, <3>3, <3>4
  <2>2. CASE c \notin kept
    BY <1>1, <1>2, <2>2
  <2> QED BY <2>1, <2>2
<1>6. closed' \in [Client -> BOOLEAN] /\ panicked' \in BOOLEAN /\ dropped' \subseteq Client
  BY <1>1, <1>4 DEF Close, Caps
<1> QED BY <1>1, <1>3, <1>5, <1>6 DEF Caps

LEMMA CapsAlways == Spec => []Caps
<1>1. Init => Caps
  <2>1. Len(<<>>) = 0 /\ 0 \in 0 .. SendCap /\ SendCap \in Nat /\ HubCap \in Nat
    BY WSHubAssumption
  <2> SUFFICES ASSUME Init PROVE Caps
    OBVIOUS
  <2>2. channels \in [Client -> SUBSET Channel] /\ closed \in [Client -> BOOLEAN]
        /\ conn \in [Client -> {"none", "open", "closed"}] /\ dropped \subseteq Client
    BY DEF Init
  <2>3. panicked \in BOOLEAN
    BY DEF Init
  <2>4. Len(broadcast) <= HubCap /\ left \in [Client -> 0 .. SendCap]
    BY <2>1 DEF Init
  <2>5. \A c \in Client : Len(send[c]) <= SendCap
    BY <2>1 DEF Init
  <2> QED BY <2>2, <2>3, <2>4, <2>5 DEF Caps
<1>2. ASSUME IInv, Caps, [Next]_vars PROVE Caps'
  <2>1. CASE UNCHANGED vars
    BY <1>2, <2>1 DEF vars, Caps
  <2>2. CASE Stop
    BY <1>2, <2>2 DEF Stop, Close, pumpVars, Caps
  <2>3. ASSUME NEW ch \in Channel, Broadcast(ch) PROVE Caps'
    <3>1. UNCHANGED <<channels, send, closed, left, conn, dropped, panicked>>
      BY <2>3 DEF Broadcast, pumpVars
    <3>2. Len(broadcast') <= HubCap
      <4>1. broadcast \in Seq(Message) /\ HubCap \in Nat /\ Len(broadcast) <= HubCap /\ Len(broadcast) \in Nat
        BY <1>2, WSHubAssumption, LenFacts DEF IInv, Types, Caps
      <4>2. [id |-> posted + 1, ch |-> ch] \in Message
        BY <1>2, <2>3, WSHubAssumption DEF Broadcast, Message, IInv, Types
      <4>3. Len(Append(broadcast, [id |-> posted + 1, ch |-> ch])) = Len(broadcast) + 1
        BY <4>1, <4>2, LenFacts
      <4> QED BY <2>3, <4>1, <4>3 DEF Broadcast
    <3> QED BY <1>2, <3>1, <3>2 DEF Caps
  <2> QED BY <1>2, <2>1, <2>2, <2>3, WriterKeepsCaps, ClientKeepsCaps, PingKeepsCaps, HubKeepsCaps DEF Next
<1> QED BY <1>1, <1>2, Invariance, PTL DEF Spec

(* The channels hold what they have room for, though the hub and a read pump  *)
(* send into the same one; the drain loop's count is never below zero.        *)
THEOREM HubTypes == Spec => []TypeOK
<1>1. IInv /\ FlowInv /\ Caps => TypeOK
  BY DEF IInv, Types, Readers, Queue, FlowInv, FlowTypes, Caps, TypeOK
<1> QED BY <1>1, FlowAlways, CapsAlways, PTL

-----------------------------------------------------------------------------
(* The terminal sessions.                                                     *)

\* What handlers have in their hands: exactly one session after a spawn.
Handlers ==
  /\ req \in [Request -> [at : {"idle", "create", "spawned", "kill"}, sessions : SUBSET Session]]
  /\ \A r \in Request : req[r].at = "spawned" => \E s \in Session : req[r].sessions = {s}

\* The invariant behind LimitWithRaces.
Places == /\ Handlers
          /\ registry \subseteq Session /\ IsFiniteSet(registry)
          /\ LimitWithRaces

\* The invariant behind NoDiscarderWhileAttached.
Listeners == /\ attached \in [Session -> BOOLEAN]
           /\ discards \in [Session -> [running : BOOLEAN, stopping : Int]]
           /\ NoDiscarderWhileAttached

-----------------------------------------------------------------------------
LEMMA CreatingIsFinite ==
  /\ IsFiniteSet(Creating) /\ Cardinality(Creating) \in Nat
  /\ Cardinality(Creating) <= Cardinality(Request) /\ Cardinality(Request) \in Nat
  BY TerminalAssumption, FS_Subset, FS_CardinalityType DEF Creating

\* A step that neither registers nor starts a creation keeps the bound.
LEMMA NoMorePlaces ==
  ASSUME Places, Handlers', NEW r \in Request,
         registry' \subseteq registry,
         Creating' = Creating \/ Creating' = Creating \ {r}
  PROVE  Places'
<1>1. IsFiniteSet(registry') /\ Cardinality(registry') <= Cardinality(registry)
      /\ Cardinality(registry) \in Nat /\ Cardinality(registry') \in Nat
  BY FS_Subset, FS_CardinalityType DEF Places
<1>2. Cardinality(Creating') \in Nat /\ Cardinality(Creating') <= Cardinality(Creating)
  <2>1. Cardinality(Creating \ {r}) \in Nat /\ Cardinality(Creating \ {r}) <= Cardinality(Creating)
    BY CreatingIsFinite, FS_Subset, FS_CardinalityType, Creating \ {r} \subseteq Creating
  <2> QED BY <2>1, CreatingIsFinite
<1> QED BY <1>1, <1>2, CreatingIsFinite, TerminalAssumption DEF Places, LimitWithRaces

LEMMA RequestKeepsPlaces == ASSUME Places, NEW r \in Request, RequestStep(r) PROVE Places'
<1>1. CASE CreateCheck(r)
  <2>1. req' = [req EXCEPT ![r] = [at |-> "create", sessions |-> {}]]
    BY <1>1 DEF CreateCheck
  <2>2. Handlers'
    BY <2>1 DEF Places, Handlers
  <2>3. Creating' = Creating \cup {r} /\ r \notin Creating
    BY <1>1, <2>1 DEF CreateCheck, Places, Handlers, Creating
  <2>4. /\ Cardinality(Creating') = Cardinality(Creating) + 1
        /\ Cardinality(Creating') <= Cardinality(Request)
    <3>1. Creating \cup {r} \subseteq Request
      BY DEF Creating
    <3> QED BY <2>3, <3>1, CreatingIsFinite, FS_AddElement, FS_Subset, TerminalAssumption
  <2> QED BY <1>1, <2>2, <2>4, CreatingIsFinite, FS_CardinalityType, TerminalAssumption
          DEF CreateCheck, Places, LimitWithRaces
<1>2. CASE CreateRefused(r)
  BY <1>2, NoMorePlaces DEF CreateRefused, Places, Handlers, Creating
<1>3. CASE SpawnFails(r) \/ KillRemoved(r)
  <2>1. registry' = registry /\ req' = [req EXCEPT ![r] = [at |-> "idle", sessions |-> {}]]
    BY <1>3 DEF SpawnFails, KillRemoved, Waiting
  <2>2. Handlers'
    BY <2>1 DEF Places, Handlers
  <2>3. Creating' = Creating \ {r}
    BY <2>1 DEF Places, Handlers, Creating
  <2> QED BY <2>1, <2>2, <2>3, NoMorePlaces
<1>4. ASSUME NEW s \in Session, Spawn(r, s) PROVE Places'
  <2>1. /\ registry' = registry /\ r \in Creating
        /\ req' = [req EXCEPT ![r] = [at |-> "spawned", sessions |-> {s}]]
    BY <1>4 DEF Spawn, Creating
  <2>2. Handlers'
    BY <2>1 DEF Places, Handlers
  <2>3. Creating' = Creating
    BY <2>1 DEF Places, Handlers, Creating
  <2> QED BY <2>1, <2>2, <2>3, NoMorePlaces
<1>5. CASE Insert(r)
  <2>1. /\ r \in Creating /\ req' = [req EXCEPT ![r] = [at |-> "idle", sessions |-> {}]]
    BY <1>5 DEF Insert, Creating, Waiting
  <2>2. PICK s \in Session : registry' = registry \cup {s}
    BY <1>5 DEF Insert, Places, Handlers
  <2>3. Handlers'
    BY <2>1 DEF Places, Handlers
  <2>4. Creating' = Creating \ {r}
    BY <2>1 DEF Places, Handlers, Creating
  <2>5. /\ Cardinality(Creating') = Cardinality(Creating) - 1
        /\ Cardinality(Creating) \in Nat
    BY <2>1, <2>4, CreatingIsFinite, FS_RemoveElement
  <2>6. /\ IsFiniteSet(registry') /\ Cardinality(registry) \in Nat
        /\ Cardinality(registry') \in Nat /\ Cardinality(registry') <= Cardinality(registry) + 1
        /\ registry' \subseteq Session
    <3>1. /\ IsFiniteSet(registry \cup {s})
          /\ Cardinality(registry \cup {s}) = IF s \in registry THEN Cardinality(registry)
                                              ELSE Cardinality(registry) + 1
      BY FS_AddElement DEF Places
    <3>2. Cardinality(registry) \in Nat
      BY FS_CardinalityType DEF Places
    <3> QED BY <2>2, <3>1, <3>2 DEF Places
  <2> QED BY <2>3, <2>5, <2>6, TerminalAssumption, CreatingIsFinite DEF Places, LimitWithRaces
<1>6. ASSUME NEW S, Unlist(r, S) PROVE Places'
  <2>1. /\ registry' = registry \ S
        /\ req' = [req EXCEPT ![r] = [at |-> "kill", sessions |-> S]]
        /\ S \subseteq registry
    BY <1>6 DEF Unlist
  <2>2. Handlers'
    BY <2>1 DEF Places, Handlers
  <2>3. Creating' = Creating \ {r}
    BY <1>6, <2>1 DEF Unlist, Places, Handlers, Creating
  <2> QED BY <2>1, <2>2, <2>3, NoMorePlaces
<1> QED BY <1>1, <1>2, <1>3, <1>4, <1>5, <1>6 DEF RequestStep, Delete, KillAll, Sweep

LEMMA SessionKeepsPlaces == ASSUME Places, UNCHANGED <<registry, req>> PROVE Places'
  BY DEF Places, Handlers, LimitWithRaces, Creating

LEMMA SessionStepElsewhere == ASSUME NEW s \in Session, SessionStep(s) PROVE UNCHANGED <<registry, req>>
  BY DEF SessionStep, Exit, PumpRead, PumpSend, PumpDone, PumpError, Input, BecomeIdle,
         Attach, Detach, Discard, DiscardStops, Receive

LEMMA InitPlaces == ASSUME TermInit PROVE Places
<1>1. Creating = {} /\ Handlers
  BY DEF TermInit, Waiting, Creating, Handlers
<1>2. Cardinality(Request) \in Nat
  BY FS_CardinalityType, TerminalAssumption
<1> QED BY <1>1, <1>2, FS_EmptySet, TerminalAssumption DEF TermInit, Places, LimitWithRaces

(* Create registers in a later lock section than the one that checked the     *)
(* limit: creators that race pass it, by less than the number of handlers.    *)
THEOREM RacesAreBounded == TermSpec => []LimitWithRaces
<1>1. TermInit => Places
  BY InitPlaces
<1>2. Places /\ [TermNext]_termVars => Places'
  BY RequestKeepsPlaces, SessionKeepsPlaces, SessionStepElsewhere DEF TermNext, termVars
<1>3. Places => LimitWithRaces
  BY DEF Places
<1> QED BY <1>1, <1>2, <1>3, PTL DEF TermSpec

-----------------------------------------------------------------------------
LEMMA AttachKeepsListeners ==
  ASSUME Listeners, NEW s \in Session, Attach(s) \/ Detach(s) PROVE Listeners'
<1>1. PICK d \in [running : BOOLEAN, stopping : Int] :
         discards' = [discards EXCEPT ![s] = d] /\ ~(attached'[s] /\ d.running)
  <2>1. discards[s].stopping \in Int /\ discards[s] \in [running : BOOLEAN, stopping : Int]
    BY DEF Listeners
  <2>2. CASE Attach(s) /\ discards[s].running
    <3>1. discards' = [discards EXCEPT ![s] = [running |-> FALSE, stopping |-> discards[s].stopping + 1]]
      BY <2>2 DEF Attach
    <3>2. PICK n \in Int : n = discards[s].stopping + 1
      BY <2>1
    <3>3. [running |-> FALSE, stopping |-> n] \in [running : BOOLEAN, stopping : Int]
      OBVIOUS
    <3> QED BY <3>1, <3>2, <3>3
  <2>3. CASE Attach(s) /\ ~discards[s].running
    <3>1. discards' = [discards EXCEPT ![s] = discards[s]]
      BY <2>3 DEF Attach
    <3> QED BY <2>1, <2>3, <3>1
  <2>4. CASE Detach(s)
    <3>1. /\ discards' = [discards EXCEPT ![s] = [running |-> TRUE, stopping |-> discards[s].stopping]]
          /\ ~attached'[s]
      BY <2>4 DEF Detach, Listeners
    <3> QED BY <2>1, <3>1
  <2> QED BY <2>2, <2>3, <2>4
<1>2. attached' \in [Session -> BOOLEAN] /\ \A z \in Session \ {s} : attached'[z] = attached[z]
  BY DEF Attach, Detach, Listeners
<1> QED BY <1>1, <1>2 DEF Listeners, NoDiscarderWhileAttached

LEMMA NextKeepsListeners == ASSUME Listeners, [TermNext]_termVars PROVE Listeners'
<1>1. ASSUME NEW r \in Request, RequestStep(r) PROVE UNCHANGED <<attached, discards>>
  BY <1>1 DEF RequestStep, CreateCheck, CreateRefused, Spawn, SpawnFails, Insert, Unlist,
              Delete, KillAll, Sweep, KillRemoved, sessionVars
<1>2. ASSUME NEW s \in Session, SessionStep(s), ~Attach(s), ~Detach(s), ~DiscardStops(s)
      PROVE  UNCHANGED <<attached, discards>>
  BY <1>2 DEF SessionStep, Exit, PumpRead, PumpSend, PumpDone, PumpError, Input, BecomeIdle,
              Discard, Receive
<1>3. ASSUME NEW s \in Session, DiscardStops(s) PROVE Listeners'
  <2>1. attached' = attached
    BY <1>3 DEF DiscardStops
  <2>2. PICK d \in [running : BOOLEAN, stopping : Int] :
          discards' = [discards EXCEPT ![s] = d] /\ d.running = discards[s].running
    <3>1. PICK n \in Int : n = discards[s].stopping - 1
      BY DEF Listeners
    <3>2. PICK b \in BOOLEAN : b = discards[s].running
      BY DEF Listeners
    <3>3. discards' = [discards EXCEPT ![s] = [running |-> b, stopping |-> n]]
      BY <1>3, <3>1, <3>2 DEF DiscardStops
    <3>4. [running |-> b, stopping |-> n] \in [running : BOOLEAN, stopping : Int]
      OBVIOUS
    <3> QED BY <3>2, <3>3, <3>4
  <2> QED BY <2>1, <2>2 DEF Listeners, NoDiscarderWhileAttached
<1>4. CASE UNCHANGED termVars
  BY <1>4 DEF termVars, sessionVars, Listeners, NoDiscarderWhileAttached
<1> QED BY <1>1, <1>2, <1>3, <1>4, AttachKeepsListeners DEF TermNext, Listeners, NoDiscarderWhileAttached

(* Attach tells the discarder to stop before the client reads, and Detach     *)
(* starts one only for an attached session: never two readers that go on.     *)
THEOREM OneReader == TermSpec => []NoDiscarderWhileAttached
<1>1. TermInit => Listeners
  BY DEF TermInit, Listeners, NoDiscarderWhileAttached
<1>2. Listeners => NoDiscarderWhileAttached
  BY DEF Listeners
<1> QED BY <1>1, <1>2, NextKeepsListeners, PTL DEF TermSpec

-----------------------------------------------------------------------------
(* Sessions from their spawn to their end: who has one in hand has one that   *)
(* was spawned, and a session that is done has a dead shell.                  *)
TermInv == /\ TermTypeOK
           /\ \A r \in Request : \A s \in req[r].sessions : shell[s] # "none"
           /\ \A s \in Session : /\ done[s] => shell[s] = "exited"
                                 /\ shell[s] # "none" <=> pump[s] # "none"
           /\ NobodyForgotten

\* What becomes of a session when handler r goes on with h in its hands.
Keeps(h) == h.at \in {"spawned", "kill"}
HandOver(r, h, s) ==
  /\ shell[s] # "none" => shell'[s] # "none"
  /\ done'[s] => shell'[s] = "exited"
  /\ shell'[s] # "none" <=> pump'[s] # "none"
  /\ done[s] => done'[s]
  /\ s \in registry' => shell'[s] # "none"
  /\ s \in h.sessions => shell'[s] # "none"
  /\ \/ shell[s] = "none" /\ shell'[s] # "none"
     \/ s \in registry
     \/ s \in req[r].sessions /\ Keeps(req[r])
     => \/ s \in registry'
        \/ done'[s]
        \/ s \in h.sessions /\ Keeps(h)

\* A handler goes on: every session it had is still registered, done or in hand.
LEMMA HandlerMoves ==
  ASSUME TermInv, NEW r \in Request, NEW h \in [at : {"idle", "create", "spawned", "kill"}, sessions : SUBSET Session],
         req' = [req EXCEPT ![r] = h], registry' \subseteq Session, refused' \in BOOLEAN,
         shell' \in [Session -> {"none", "running", "exited"}], done' \in [Session -> BOOLEAN],
         pump' \in [Session -> {"none", "reading", "sending", "ended"}],
         UNCHANGED <<out, idle, attached, discards, lost>>,
         \A s \in Session : HandOver(r, h, s)
  PROVE  TermInv'
<1>1. /\ req \in [Request -> [at : {"idle", "create", "spawned", "kill"}, sessions : SUBSET Session]]
      /\ req' \in [Request -> [at : {"idle", "create", "spawned", "kill"}, sessions : SUBSET Session]]
      /\ req'[r] = h /\ \A q \in Request \ {r} : req'[q] = req[q]
  BY DEF TermInv, TermTypeOK
<1>2. TermTypeOK'
  BY <1>1 DEF TermInv, TermTypeOK, HandOver
<1>3. \A q \in Request : \A s \in req'[q].sessions : shell'[s] # "none"
  BY <1>1 DEF TermInv, TermTypeOK, HandOver
<1>4. NobodyForgotten'
  <2> SUFFICES ASSUME NEW s \in Session, shell'[s] # "none", s \notin registry', ~done'[s]
               PROVE  \E q \in Request : req'[q].at \in {"spawned", "kill"} /\ s \in req'[q].sessions
    BY DEF NobodyForgotten
  <2>1. CASE h.at \in {"spawned", "kill"} /\ s \in h.sessions
    BY <1>1, <2>1
  <2>2. CASE ~(h.at \in {"spawned", "kill"} /\ s \in h.sessions)
    <3>1. /\ shell[s] # "none" /\ s \notin registry /\ ~done[s]
          /\ ~(s \in req[r].sessions /\ req[r].at \in {"spawned", "kill"})
      BY <2>2 DEF HandOver, Keeps
    <3>2. PICK q \in Request : req[q].at \in {"spawned", "kill"} /\ s \in req[q].sessions
      BY <3>1 DEF TermInv, NobodyForgotten
    <3> QED BY <1>1, <3>1, <3>2
  <2> QED BY <2>1, <2>2
<1> QED BY <1>2, <1>3, <1>4 DEF TermInv, HandOver

LEMMA RequestKeepsTermInv == ASSUME TermInv, NEW r \in Request, RequestStep(r) PROVE TermInv'
<1> DEFINE Hands == [at : {"idle", "create", "spawned", "kill"}, sessions : SUBSET Session]
<1>1. /\ req \in [Request -> Hands] /\ registry \subseteq Session /\ refused \in BOOLEAN
      /\ shell \in [Session -> {"none", "running", "exited"}] /\ done \in [Session -> BOOLEAN]
      /\ pump \in [Session -> {"none", "reading", "sending", "ended"}]
      /\ req[r].sessions \subseteq Session
      /\ \A s \in Session : s \in registry => shell[s] # "none"
      /\ \A s \in Session : s \in req[r].sessions => shell[s] # "none"
      /\ \A s \in Session : (done[s] => shell[s] = "exited") /\ (shell[s] # "none" <=> pump[s] # "none")
  BY DEF TermInv, TermTypeOK
<1>2. ASSUME CreateCheck(r) \/ SpawnFails(r) PROVE TermInv'
  <2>1. PICK a \in {"idle", "create"} : req' = [req EXCEPT ![r] = [at |-> a, sessions |-> {}]]
    BY <1>2 DEF CreateCheck, SpawnFails, Waiting
  <2>2. /\ registry' = registry /\ refused' \in BOOLEAN /\ req[r].at \in {"idle", "create"}
        /\ UNCHANGED sessionVars
    BY <1>1, <1>2 DEF CreateCheck, SpawnFails
  <2>3. PICK h \in Hands : h = [at |-> a, sessions |-> {}]
    OBVIOUS
  <2>4. \A s \in Session : HandOver(r, h, s)
    BY <1>1, <2>2, <2>3 DEF HandOver, Keeps, sessionVars
  <2> QED BY <1>1, <2>1, <2>2, <2>3, <2>4, HandlerMoves DEF sessionVars
<1>3. ASSUME CreateRefused(r) PROVE TermInv'
  BY <1>3 DEF CreateRefused, sessionVars, TermInv, TermTypeOK, NobodyForgotten
<1>4. ASSUME NEW s \in Session, Spawn(r, s) PROVE TermInv'
  <2>1. /\ req' = [req EXCEPT ![r] = [at |-> "spawned", sessions |-> {s}]]
        /\ registry' = registry /\ refused' = refused /\ req[r].at = "create" /\ done' = done
        /\ shell[s] = "none" /\ shell' = [shell EXCEPT ![s] = "running"]
        /\ pump' = [pump EXCEPT ![s] = "reading"]
        /\ UNCHANGED <<out, idle, attached, discards, lost>>
    BY <1>4 DEF Spawn
  <2>2. PICK h \in Hands : h = [at |-> "spawned", sessions |-> {s}]
    OBVIOUS
  <2>3. \A z \in Session : HandOver(r, h, z)
    BY <1>1, <2>1, <2>2 DEF HandOver, Keeps
  <2> QED BY <1>1, <2>1, <2>2, <2>3, HandlerMoves
<1>5. ASSUME Insert(r) PROVE TermInv'
  <2>1. /\ req' = [req EXCEPT ![r] = [at |-> "idle", sessions |-> {}]] /\ req[r].at = "spawned"
        /\ registry' = registry \cup req[r].sessions /\ refused' = refused
        /\ UNCHANGED sessionVars
    BY <1>5 DEF Insert, Waiting
  <2>2. PICK h \in Hands : h = [at |-> "idle", sessions |-> {}]
    OBVIOUS
  <2>3. \A z \in Session : HandOver(r, h, z)
    BY <1>1, <2>1, <2>2 DEF HandOver, Keeps, sessionVars
  <2> QED BY <1>1, <2>1, <2>2, <2>3, HandlerMoves DEF sessionVars
<1>6. ASSUME NEW S, Unlist(r, S) PROVE TermInv'
  <2>1. /\ req' = [req EXCEPT ![r] = [at |-> "kill", sessions |-> S]] /\ req[r].at = "idle"
        /\ registry' = registry \ S /\ S \subseteq registry /\ refused' = refused
        /\ UNCHANGED sessionVars
    BY <1>6 DEF Unlist
  <2>2. PICK h \in Hands : h = [at |-> "kill", sessions |-> S]
    BY <1>1, <2>1
  <2>3. \A z \in Session : HandOver(r, h, z)
    BY <1>1, <2>1, <2>2 DEF HandOver, Keeps, sessionVars
  <2> QED BY <1>1, <2>1, <2>2, <2>3, HandlerMoves DEF sessionVars
<1>7. ASSUME KillRemoved(r) PROVE TermInv'
  <2>1. /\ req' = [req EXCEPT ![r] = [at |-> "idle", sessions |-> {}]] /\ req[r].at = "kill"
        /\ registry' = registry /\ refused' = refused /\ pump' = pump
        /\ UNCHANGED <<out, idle, attached, discards, lost>>
        /\ Kill(req[r].sessions)
    BY <1>7 DEF KillRemoved, Waiting
  <2>2. /\ shell' \in [Session -> {"none", "running", "exited"}] /\ done' \in [Session -> BOOLEAN]
        /\ \A s \in Session : /\ done'[s] <=> (done[s] \/ s \in req[r].sessions)
                              /\ shell'[s] = IF s \in req[r].sessions THEN "exited" ELSE shell[s]
    BY <1>1, <2>1 DEF Kill
  <2>3. PICK h \in Hands : h = [at |-> "idle", sessions |-> {}]
    OBVIOUS
  <2>4. \A s \in Session : HandOver(r, h, s)
    BY <1>1, <2>1, <2>2, <2>3 DEF HandOver, Keeps
  <2> QED BY <1>1, <2>1, <2>2, <2>3, <2>4, HandlerMoves
<1> QED BY <1>2, <1>3, <1>4, <1>5, <1>6, <1>7 DEF RequestStep, Delete, KillAll, Sweep

LEMMA SessionKeepsTermInv == ASSUME TermInv, NEW s \in Session, SessionStep(s) PROVE TermInv'
<1> DEFINE Discards == [running : BOOLEAN, stopping : 0 .. MaxStopping]
<1>1. /\ shell \in [Session -> {"none", "running", "exited"}] /\ done \in [Session -> BOOLEAN]
      /\ pump \in [Session -> {"none", "reading", "sending", "ended"}]
      /\ out \in [Session -> 0 .. OutCap] /\ OutCap \in Nat /\ MaxStopping \in Nat
      /\ idle \in [Session -> BOOLEAN] /\ attached \in [Session -> BOOLEAN] /\ lost \in BOOLEAN
      /\ discards \in [Session -> Discards]
      /\ \A z \in Session : (done[z] => shell[z] = "exited") /\ (shell[z] # "none" <=> pump[z] # "none")
  BY TerminalAssumption DEF TermInv, TermTypeOK
<1>2. UNCHANGED <<registry, req>> /\ refused' = refused
  BY SessionStepElsewhere DEF SessionStep, Exit, PumpRead, PumpSend, PumpDone, PumpError, Input, BecomeIdle,
         Attach, Detach, Discard, DiscardStops, Receive
<1>3. ASSUME shell' \in [Session -> {"none", "running", "exited"}], done' \in [Session -> BOOLEAN],
             pump' \in [Session -> {"none", "reading", "sending", "ended"}],
             out' \in [Session -> 0 .. OutCap],
             idle' \in [Session -> BOOLEAN], attached' \in [Session -> BOOLEAN], lost' \in BOOLEAN,
             discards' \in [Session -> Discards],
             \A z \in Session : /\ shell'[z] # "none" <=> shell[z] # "none"
                                /\ done[z] => done'[z]
                                /\ done'[z] => shell'[z] = "exited"
                                /\ shell'[z] # "none" <=> pump'[z] # "none"
      PROVE  TermInv'
  <2>1. TermTypeOK'
    BY <1>2, <1>3 DEF TermInv, TermTypeOK
  <2>2. NobodyForgotten'
    BY <1>2, <1>3 DEF TermInv, NobodyForgotten
  <2>3. \A r \in Request : \A z \in req'[r].sessions : shell'[z] # "none"
    BY <1>2, <1>3 DEF TermInv, TermTypeOK
  <2> QED BY <1>3, <2>1, <2>2, <2>3 DEF TermInv
<1>4. CASE Exit(s)
  BY <1>1, <1>3, <1>4 DEF Exit, Live
<1>5. CASE PumpRead(s)
  BY <1>1, <1>3, <1>5 DEF PumpRead
<1>6. CASE PumpSend(s)
  <2>1. PICK n \in 0 .. OutCap : n = out[s] + 1
    BY <1>1, <1>6 DEF PumpSend
  <2>2. out' = [out EXCEPT ![s] = n] /\ out' \in [Session -> 0 .. OutCap]
    BY <1>1, <1>6, <2>1 DEF PumpSend
  <2> QED BY <1>1, <1>3, <1>6, <2>2 DEF PumpSend
<1>7. CASE PumpDone(s)
  BY <1>1, <1>3, <1>7 DEF PumpDone
<1>8. CASE PumpError(s)
  <2>1. /\ shell' \in [Session -> {"none", "running", "exited"}] /\ done' \in [Session -> BOOLEAN]
        /\ \A z \in Session : /\ done'[z] <=> (done[z] \/ z = s)
                              /\ shell'[z] = IF z = s THEN "exited" ELSE shell[z]
    BY <1>1, <1>8 DEF PumpError, Kill
  <2> QED BY <1>1, <1>3, <1>8, <2>1 DEF PumpError
<1>9. CASE Input(s) \/ BecomeIdle(s)
  BY <1>1, <1>3, <1>9 DEF Input, BecomeIdle
<1>10. ASSUME NEW d \in Discards, discards' = [discards EXCEPT ![s] = d], attached' \in [Session -> BOOLEAN],
              UNCHANGED <<shell, done, pump, out, idle, lost>>
       PROVE  TermInv'
  BY <1>1, <1>3, <1>10
<1>11. CASE Attach(s)
  <2>1. /\ attached' \in [Session -> BOOLEAN] /\ UNCHANGED <<shell, done, pump, out, idle, lost>>
        /\ discards[s] \in Discards /\ discards[s].stopping < MaxStopping
    BY <1>1, <1>11 DEF Attach
  <2>2. PICK n \in 0 .. MaxStopping : n = discards[s].stopping + 1
    BY <1>1, <2>1
  <2>3. [running |-> FALSE, stopping |-> n] \in Discards
    OBVIOUS
  <2>4. CASE discards[s].running
    <3>1. discards' = [discards EXCEPT ![s] = [running |-> FALSE, stopping |-> n]]
      BY <1>11, <2>2, <2>4 DEF Attach
    <3> QED BY <1>10, <2>1, <2>3, <3>1
  <2>5. CASE ~discards[s].running
    <3>1. discards' = [discards EXCEPT ![s] = discards[s]]
      BY <1>11, <2>5 DEF Attach
    <3> QED BY <1>10, <2>1, <3>1
  <2> QED BY <2>4, <2>5
<1>12. CASE Detach(s)
  <2>1. /\ attached' \in [Session -> BOOLEAN] /\ UNCHANGED <<shell, done, pump, out, idle, lost>>
        /\ discards[s] \in Discards
    BY <1>1, <1>12 DEF Detach
  <2>2. discards' = [discards EXCEPT ![s] = [running |-> TRUE, stopping |-> discards[s].stopping]]
    BY <1>12 DEF Detach
  <2>3. [running |-> TRUE, stopping |-> discards[s].stopping] \in Discards
    BY <2>1
  <2> QED BY <1>10, <2>1, <2>2, <2>3
<1>13. CASE Discard(s) \/ Receive(s)
  <2>1. PICK n \in 0 .. OutCap : n = out[s] - 1
    BY <1>1, <1>13 DEF Discard, Receive
  <2>2. out' = [out EXCEPT ![s] = n] /\ out' \in [Session -> 0 .. OutCap]
    BY <1>1, <1>13, <2>1 DEF Discard, Receive
  <2>3. lost' \in BOOLEAN /\ UNCHANGED <<shell, done, pump, idle, attached, discards>>
    BY <1>1, <1>13 DEF Discard, Receive
  <2> QED BY <1>1, <1>3, <2>2, <2>3
<1>14. CASE DiscardStops(s)
  <2>1. PICK n \in 0 .. MaxStopping : n = discards[s].stopping - 1
    BY <1>1, <1>14 DEF DiscardStops
  <2>2. PICK b \in BOOLEAN : b = discards[s].running
    BY <1>1
  <2>3. /\ discards' = [discards EXCEPT ![s] = [running |-> b, stopping |-> n]]
        /\ UNCHANGED <<shell, done, pump, out, idle, attached, lost>>
    BY <1>14, <2>1, <2>2 DEF DiscardStops
  <2>4. [running |-> b, stopping |-> n] \in Discards
    OBVIOUS
  <2> QED BY <1>1, <1>10, <2>3, <2>4
<1> QED BY <1>4, <1>5, <1>6, <1>7, <1>8, <1>9, <1>11, <1>12, <1>13, <1>14 DEF SessionStep

LEMMA TermInvAlways == TermSpec => []TermInv
<1>1. TermInit => TermInv
  <2> SUFFICES ASSUME TermInit PROVE TermInv
    OBVIOUS
  <2>1. TermTypeOK
    <3>1. [running |-> FALSE, stopping |-> 0] \in [running : BOOLEAN, stopping : 0 .. MaxStopping]
      BY TerminalAssumption
    <3>2. discards \in [Session -> [running : BOOLEAN, stopping : 0 .. MaxStopping]]
      BY <3>1, Zenon DEF TermInit
    <3>3. req \in [Request -> [at : {"idle", "create", "spawned", "kill"}, sessions : SUBSET Session]]
      BY DEF TermInit, Waiting
    <3>4. /\ registry \subseteq {s \in Session : shell[s] # "none"} /\ out \in [Session -> 0 .. OutCap]
          /\ shell \in [Session -> {"none", "running", "exited"}]
          /\ pump \in [Session -> {"none", "reading", "sending", "ended"}]
      BY TerminalAssumption DEF TermInit
    <3>5. /\ refused \in BOOLEAN /\ lost \in BOOLEAN /\ done \in [Session -> BOOLEAN]
          /\ idle \in [Session -> BOOLEAN] /\ attached \in [Session -> BOOLEAN]
      BY DEF TermInit
    <3> QED BY <3>2, <3>3, <3>4, <3>5, Zenon DEF TermTypeOK
  <2> QED BY <2>1 DEF TermInit, Waiting, TermInv, NobodyForgotten
<1>2. ASSUME TermInv, [TermNext]_termVars PROVE TermInv'
  <2>1. CASE UNCHANGED termVars
    BY <1>2, <2>1 DEF termVars, sessionVars, TermInv, TermTypeOK, NobodyForgotten
  <2> QED BY <1>2, <2>1, RequestKeepsTermInv, SessionKeepsTermInv DEF TermNext
<1> QED BY <1>1, <1>2, PTL DEF TermSpec

(* Only sessions that were spawned are registered; no channel holds more than *)
(* its capacity, though the pump, discarders and the client use it at once.   *)
THEOREM TermTypes == TermSpec => []TermTypeOK
<1>1. TermInv => TermTypeOK
  BY DEF TermInv
<1> QED BY <1>1, TermInvAlways, PTL

(* Create and Kill leave their sessions to nobody between their two lock      *)
(* sections (terminal.go:155 and 219), but each is still in a handler's hands. *)
THEOREM NobodyIsForgotten == TermSpec => []NobodyForgotten
<1>1. TermInv => NobodyForgotten
  BY DEF TermInv
<1> QED BY <1>1, TermInvAlways, PTL

(* What PumpEnds asks of every state: the pump of a session that is done has  *)
(* a way out of the select and out of the read (terminal.go:176 to 191).      *)
THEOREM DonePumpsGoOn == TermSpec => []DonePumpGoesOn
<1>1. TermInv => DonePumpGoesOn
  BY DEF TermInv, TermTypeOK, DonePumpGoesOn
<1> QED BY <1>1, TermInvAlways, PTL
==============================================================================
