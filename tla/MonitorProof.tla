----------------------------- MODULE MonitorProof -----------------------------
(* The alerts engine and the collector, for any metrics, containers, rules    *)
(* and any number of callers, and any capacity of the buffer.                 *)
EXTENDS Monitor, TLAPS

USE MetricsAssumption, AlertsAssumption, MonitorAssumption

Ages == Int \cup {None}
Alert == [id : Nat, type : Metric \cup Container, acked : BOOLEAN]
Observation == [age : Ages, seen : Ages, alerts : Nat, gap : BOOLEAN]

EngineOK ==
  /\ rules \subseteq Metric /\ active \subseteq Metric /\ downCtrs \subseteq Container
  /\ raised \in Nat /\ buffer \in Seq(Alert)
  /\ breachAt \in [Metric -> Ages]
  /\ report \in [Reporter -> Container \cup {None}]
  /\ observed \in [Metric -> Observation]
  /\ checking.left \in Seq(Metric)

(* What a step of the monitor is to the engine.                               *)
EngineStep ==
  \/ UNCHANGED alertVars
  \/ \E on \in RuleSets : UpdateRules(on)
  \/ \E values : EvaluateHost(values)
  \/ Check
  \/ AgeBreaches
  \/ \E r \in Reporter, c \in Container : ContainerDown(r, c) \/ ContainerUp(r, c)
  \/ \E r \in Reporter : DownEmits(r)
  \/ \E i \in DOMAIN buffer : Ack(i)

LEMMA StepsOfEngine == [Next]_vars => EngineStep
<1> SUFFICES ASSUME [Next]_vars PROVE EngineStep
  OBVIOUS
<1>1. CASE UNCHANGED vars
  BY <1>1 DEF vars, EngineStep
<1>2. CASE Host \/ Run
  BY <1>2 DEF Host, Run, EngineStep
<1>3. ASSUME NEW c \in Caller, CallLatest(c) \/ Show(c) PROVE EngineStep
  BY <1>3 DEF CallLatest, Show, EngineStep
<1>4. ASSUME NEW c \in Caller, Evaluate(c) PROVE EngineStep
  BY <1>4 DEF Evaluate, EngineStep
<1>5. CASE CheckNext \/ Tick
  BY <1>5 DEF CheckNext, Tick, EngineStep
<1>6. ASSUME NEW r \in Reporter, DockerEvent(r) PROVE EngineStep
  BY <1>6 DEF DockerEvent, EngineStep
<1>7. CASE Handlers
  BY <1>7 DEF Handlers, EngineStep
<1> QED BY <1>1, <1>2, <1>3, <1>4, <1>5, <1>6, <1>7 DEF Next

-----------------------------------------------------------------------------
(* emitLocked: the buffer becomes what it was and the new alert, less its     *)
(* oldest alert when it was full.                                             *)
Shifted(old, new, alert) ==
  \/ /\ Len(old) < MaxBuffer /\ new = Append(old, alert)
  \/ /\ Len(old) = MaxBuffer /\ Len(new) = MaxBuffer
     /\ \A j \in 1 .. MaxBuffer : new[j] = IF j = MaxBuffer THEN alert ELSE old[j + 1]

LEMMA EmitShifts ==
  ASSUME EngineOK, NewestKept, NEW type \in Metric \cup Container, Emit(type)
  PROVE  /\ buffer' \in Seq(Alert) /\ raised' = raised + 1
         /\ Shifted(buffer, buffer', [id |-> raised + 1, type |-> type, acked |-> FALSE])
<1> DEFINE alert == [id |-> raised + 1, type |-> type, acked |-> FALSE]
           longer == Append(buffer, alert)
<1>1. alert \in Alert /\ raised \in Nat /\ buffer \in Seq(Alert)
  BY DEF EngineOK, Alert
<1>2. /\ raised' = raised + 1
      /\ buffer' = IF Len(longer) > MaxBuffer
                   THEN SubSeq(longer, Len(longer) - MaxBuffer + 1, Len(longer)) ELSE longer
  BY DEF Emit, Newest
<1>3. Len(buffer) \in 0 .. MaxBuffer
  BY <1>1 DEF NewestKept
<1> HIDE DEF alert
<1>4. longer \in Seq(Alert) /\ Len(longer) = Len(buffer) + 1
  BY <1>1
<1>5. CASE Len(buffer) < MaxBuffer
  <2>1. buffer' = longer
    BY <1>2, <1>3, <1>4, <1>5
  <2> QED BY <1>2, <1>4, <1>5, <2>1 DEF Shifted, alert
<1>6. CASE Len(buffer) = MaxBuffer
  <2>1. buffer' = SubSeq(longer, 2, MaxBuffer + 1)
    BY <1>2, <1>4, <1>6
  <2>2. buffer' \in Seq(Alert) /\ Len(buffer') = MaxBuffer
    BY <1>4, <1>6, <2>1
  <2>3. ASSUME NEW j \in 1 .. MaxBuffer
        PROVE  buffer'[j] = IF j = MaxBuffer THEN alert ELSE buffer[j + 1]
    <3>1. buffer'[j] = longer[j + 1]
      BY <1>4, <1>6, <2>1
    <3>2. longer[j + 1] = IF j = MaxBuffer THEN alert ELSE buffer[j + 1]
      BY <1>1, <1>6
    <3> QED BY <3>1, <3>2
  <2> QED BY <1>2, <1>6, <2>2, <2>3 DEF Shifted, alert
<1> QED BY <1>3, <1>5, <1>6

LEMMA AgeTypes == ASSUME NEW m \in Metric, NEW a \in Ages
                  PROVE  Older(a) \in Int /\ Aged(a, m) \in Ages
  BY DEF Older, Aged, Ages

(* Three ways of a check, each with the type of what it leaves.               *)
LEMMA CheckOK ==
  ASSUME EngineOK, NewestKept, NEW m \in Metric, Skip(m) \/ CheckHigh(m) \/ CheckLow(m)
  PROVE  /\ active' \subseteq Metric /\ raised' \in Nat /\ buffer' \in Seq(Alert)
         /\ breachAt' \in [Metric -> Ages] /\ observed' \in [Metric -> Observation]
<1> DEFINE o == observed[m]
<1>1. /\ breachAt[m] \in Ages /\ o \in Observation /\ raised \in Nat /\ buffer \in Seq(Alert)
      /\ active \subseteq Metric /\ breachAt \in [Metric -> Ages]
      /\ observed \in [Metric -> Observation] /\ None \in Ages
  BY DEF EngineOK, Ages
<1>2. CASE Skip(m)
  <2> DEFINE gap == o.gap \/ breachAt[m] # None
             new == [age |-> None, seen |-> None, alerts |-> o.alerts, gap |-> gap]
  <2>0. gap \in BOOLEAN
    BY Zenon
  <2>1. new \in Observation
    BY <1>1, <2>0 DEF Observation
  <2>2. observed' = [observed EXCEPT ![m] = new]
    BY <1>2 DEF Skip, Note
  <2> HIDE DEF new, gap
  <2>3. observed' \in [Metric -> Observation]
    BY <1>1, <2>1, <2>2
  <2> QED BY <1>1, <1>2, <2>3 DEF Skip
<1>3. CASE CheckHigh(m)
  <2> DEFINE age == Older(breachAt[m])
             seen == Older(o.age)
             fires == m \notin active /\ age >= For[m]
             new == [age |-> seen, seen |-> seen, alerts |-> o.alerts + (IF fires THEN 1 ELSE 0), gap |-> o.gap]
  <2>1. age \in Ages /\ seen \in Ages
    BY <1>1, AgeTypes DEF Observation, Ages
  <2>2. new \in Observation
    BY <1>1, <2>1 DEF Observation
  <2>3. /\ breachAt' = [breachAt EXCEPT ![m] = age]
        /\ active' = IF fires THEN active \cup {m} ELSE active
        /\ IF fires THEN Emit(m) ELSE UNCHANGED <<buffer, raised>>
        /\ observed' = [observed EXCEPT ![m] = new]
    BY <1>3 DEF CheckHigh, Note
  <2> HIDE DEF age, seen, fires, new
  <2>4. observed' \in [Metric -> Observation] /\ breachAt' \in [Metric -> Ages] /\ active' \subseteq Metric
    BY <1>1, <2>1, <2>2, <2>3
  <2>5. raised' \in Nat /\ buffer' \in Seq(Alert)
    <3>1. CASE Emit(m)
      <4>1. m \in Metric \cup Container
        OBVIOUS
      <4>2. buffer' \in Seq(Alert) /\ raised' = raised + 1
        BY <3>1, <4>1, EmitShifts
      <4> QED BY <1>1, <4>2
    <3>2. CASE UNCHANGED <<buffer, raised>>
      BY <1>1, <3>2
    <3> QED BY <2>3, <3>1, <3>2
  <2> QED BY <2>4, <2>5
<1>4. CASE CheckLow(m)
  <2>1. [age |-> None, seen |-> None, alerts |-> 0, gap |-> FALSE] \in Observation
    BY DEF Observation, Ages
  <2> QED BY <1>1, <1>4, <2>1 DEF CheckLow, Note
<1> QED BY <1>2, <1>3, <1>4

LEMMA MarkedOK == ASSUME NEW a \in Alert
                  PROVE  /\ Marked(a) \in Alert /\ Marked(a).acked
                         /\ Marked(a).id = a.id /\ Marked(a).type = a.type
  BY DEF Alert, Marked

LEMMA EngineStepOK == EngineOK /\ NewestKept /\ EngineStep => EngineOK'
<1> SUFFICES ASSUME EngineOK, NewestKept, EngineStep PROVE EngineOK'
  OBVIOUS
<1>1. CASE UNCHANGED alertVars
  BY <1>1 DEF alertVars, EngineOK
<1>2. ASSUME NEW on \in RuleSets, UpdateRules(on) PROVE EngineOK'
  BY <1>2 DEF UpdateRules, EngineOK
<1>3. ASSUME NEW values, EvaluateHost(values) PROVE EngineOK'
  BY <1>3 DEF EvaluateHost, EngineOK
<1>4. CASE Check
  <2>1. PICK m \in Metric : m = Head(checking.left)
    BY <1>4 DEF Check, EngineOK
  <2>2. Skip(m) \/ CheckHigh(m) \/ CheckLow(m)
    BY <1>4, <2>1 DEF Check
  <2>3. checking'.left \in Seq(Metric)
    BY <1>4 DEF Check, EngineOK
  <2> QED BY <1>4, <2>2, <2>3, CheckOK DEF Check, EngineOK
<1>5. CASE AgeBreaches
  <2>1. ASSUME NEW m \in Metric PROVE
        [age |-> Aged(observed[m].age, m), seen |-> observed[m].seen,
         alerts |-> observed[m].alerts, gap |-> observed[m].gap] \in Observation
    BY AgeTypes DEF EngineOK, Observation
  <2>2. observed' \in [Metric -> Observation]
    BY <1>5, <2>1 DEF AgeBreaches
  <2>3. breachAt' \in [Metric -> Ages]
    BY <1>5, AgeTypes DEF AgeBreaches, EngineOK
  <2> QED BY <1>5, <2>2, <2>3 DEF AgeBreaches, EngineOK
<1>6. ASSUME NEW r \in Reporter, NEW c \in Container, ContainerDown(r, c) PROVE EngineOK'
  BY <1>6 DEF ContainerDown, EngineOK
<1>7. ASSUME NEW r \in Reporter, NEW c \in Container, ContainerUp(r, c) PROVE EngineOK'
  <2>1. ASSUME NEW i \in DOMAIN buffer
        PROVE  (IF buffer[i].type = c THEN Marked(buffer[i]) ELSE buffer[i]) \in Alert
    BY MarkedOK DEF EngineOK
  <2>2. buffer' \in [1 .. Len(buffer) -> Alert] /\ Len(buffer) \in Nat
    BY <1>7, <2>1 DEF ContainerUp, EngineOK
  <2>3. buffer' \in Seq(Alert)
    BY <2>2
  <2> QED BY <1>7, <2>3 DEF ContainerUp, EngineOK
<1>8. ASSUME NEW r \in Reporter, DownEmits(r) PROVE EngineOK'
  <2>1. report[r] \in Container
    BY <1>8 DEF DownEmits, EngineOK
  <2>2. buffer' \in Seq(Alert) /\ raised' \in Nat
    <3>1. Emit(report[r]) /\ report[r] \in Metric \cup Container
      BY <1>8, <2>1 DEF DownEmits
    <3>2. buffer' \in Seq(Alert) /\ raised' = raised + 1
      BY <3>1, EmitShifts
    <3> QED BY <3>2 DEF EngineOK
  <2> QED BY <1>8, <2>2 DEF DownEmits, EngineOK
<1>9. ASSUME NEW i \in DOMAIN buffer, Ack(i) PROVE EngineOK'
  <2>1. Marked(buffer[i]) \in Alert
    BY MarkedOK DEF EngineOK
  <2>2. buffer' = [buffer EXCEPT ![i] = Marked(buffer[i])]
    BY <1>9 DEF Ack
  <2>3. buffer' \in Seq(Alert)
    BY <2>1, <2>2 DEF EngineOK
  <2> QED BY <1>9, <2>3 DEF Ack, EngineOK
<1> QED BY <1>1, <1>2, <1>3, <1>4, <1>5, <1>6, <1>7, <1>8, <1>9 DEF EngineStep

-----------------------------------------------------------------------------
(* What a step does to the buffer: an alert is added, or some are marked.     *)
BufferStep ==
  \/ \E type \in Metric \cup Container : Emit(type)
  \/ /\ raised' = raised /\ Len(buffer') = Len(buffer) /\ DOMAIN buffer' = DOMAIN buffer
     /\ \A i \in DOMAIN buffer : /\ buffer'[i].id = buffer[i].id /\ buffer'[i].type = buffer[i].type
                                 /\ buffer[i].acked => buffer'[i].acked

LEMMA StepsOfBuffer == EngineOK /\ EngineStep => BufferStep
<1> SUFFICES ASSUME EngineOK, EngineStep PROVE BufferStep
  OBVIOUS
<1>1. CASE UNCHANGED <<buffer, raised>>
  BY <1>1 DEF BufferStep
<1>2. CASE Check
  <2>1. PICK m \in Metric : m = Head(checking.left)
    BY <1>2 DEF Check, EngineOK
  <2>2. Skip(m) \/ CheckHigh(m) \/ CheckLow(m)
    BY <1>2, <2>1 DEF Check
  <2>3. Emit(m) \/ UNCHANGED <<buffer, raised>>
    BY <2>2 DEF Skip, CheckHigh, CheckLow
  <2> QED BY <1>1, <2>3 DEF BufferStep
<1>3. ASSUME NEW r \in Reporter, NEW c \in Container, ContainerUp(r, c) PROVE BufferStep
  <2>1. raised' = raised /\ DOMAIN buffer' = DOMAIN buffer /\ Len(buffer') = Len(buffer)
    <3>1. buffer \in Seq(Alert) /\ Len(buffer) \in Nat /\ DOMAIN buffer = 1 .. Len(buffer)
      BY DEF EngineOK
    <3>2. buffer' \in [1 .. Len(buffer) -> Alert]
      BY <1>3, <3>1, MarkedOK DEF ContainerUp
    <3>3. buffer' \in Seq(Alert) /\ DOMAIN buffer' = 1 .. Len(buffer')
      BY <3>1, <3>2
    <3> QED BY <1>3, <3>1, <3>2, <3>3 DEF ContainerUp
  <2>2. ASSUME NEW i \in DOMAIN buffer
        PROVE  /\ buffer'[i].id = buffer[i].id /\ buffer'[i].type = buffer[i].type
               /\ buffer[i].acked => buffer'[i].acked
    <3>1. buffer[i] \in Alert
      BY DEF EngineOK
    <3>2. buffer'[i] = IF buffer[i].type = c THEN Marked(buffer[i]) ELSE buffer[i]
      BY <1>3 DEF ContainerUp
    <3>3. CASE buffer[i].type = c
      BY <3>1, <3>2, <3>3, MarkedOK
    <3>4. CASE buffer[i].type # c
      BY <3>2, <3>4
    <3> QED BY <3>3, <3>4
  <2> QED BY <2>1, <2>2 DEF BufferStep
<1>4. ASSUME NEW j \in DOMAIN buffer, Ack(j) PROVE BufferStep
  <2>1. buffer' = [buffer EXCEPT ![j] = Marked(buffer[j])] /\ raised' = raised
    BY <1>4 DEF Ack
  <2>2. Len(buffer') = Len(buffer) /\ DOMAIN buffer' = DOMAIN buffer
    BY <2>1 DEF EngineOK
  <2>3. ASSUME NEW i \in DOMAIN buffer
        PROVE  /\ buffer'[i].id = buffer[i].id /\ buffer'[i].type = buffer[i].type
               /\ buffer[i].acked => buffer'[i].acked
    <3>1. buffer[i] \in Alert
      BY DEF EngineOK
    <3>2. buffer'[i] = IF i = j THEN Marked(buffer[i]) ELSE buffer[i]
      BY <2>1 DEF EngineOK
    <3>3. CASE i = j
      BY <3>1, <3>2, <3>3, MarkedOK
    <3>4. CASE i # j
      BY <3>2, <3>4
    <3> QED BY <3>3, <3>4
  <2> QED BY <2>1, <2>2, <2>3 DEF BufferStep
<1>5. ASSUME NEW r \in Reporter, DownEmits(r) PROVE BufferStep
  BY <1>5 DEF DownEmits, BufferStep, EngineOK
<1>6. CASE \/ UNCHANGED alertVars \/ AgeBreaches
           \/ \E on \in RuleSets : UpdateRules(on)
           \/ \E values : EvaluateHost(values)
           \/ \E r \in Reporter, c \in Container : ContainerDown(r, c)
  BY <1>1, <1>6 DEF alertVars, AgeBreaches, UpdateRules, EvaluateHost, ContainerDown
<1> QED BY <1>2, <1>3, <1>4, <1>5, <1>6 DEF EngineStep

(* Every alert of the buffer after an emit is the new one or an old one, and  *)
(* an old one keeps its identity.                                             *)
LEMMA EmitLeaves ==
  ASSUME EngineOK, NewestKept, NEW type \in Metric \cup Container, Emit(type),
         NEW j \in DOMAIN buffer'
  PROVE  \/ buffer'[j] = [id |-> raised + 1, type |-> type, acked |-> FALSE]
         \/ \E k \in DOMAIN buffer : buffer'[j] = buffer[k]
<1> DEFINE alert == [id |-> raised + 1, type |-> type, acked |-> FALSE]
<1>1. buffer' \in Seq(Alert) /\ Shifted(buffer, buffer', alert)
  BY EmitShifts
<1>2. buffer \in Seq(Alert) /\ Len(buffer) \in Nat /\ alert \in Alert
  BY DEF EngineOK, Alert
<1> HIDE DEF alert
<1>3. CASE Len(buffer) < MaxBuffer /\ buffer' = Append(buffer, alert)
  BY <1>2, <1>3 DEF alert
<1>4. CASE /\ Len(buffer) = MaxBuffer /\ Len(buffer') = MaxBuffer
           /\ \A i \in 1 .. MaxBuffer : buffer'[i] = IF i = MaxBuffer THEN alert ELSE buffer[i + 1]
  <2>1. j \in 1 .. MaxBuffer
    BY <1>1, <1>4
  <2>2. CASE j = MaxBuffer
    BY <1>4, <2>1, <2>2 DEF alert
  <2>3. CASE j # MaxBuffer
    <3>1. buffer'[j] = buffer[j + 1] /\ j + 1 \in DOMAIN buffer
      BY <1>2, <1>4, <2>1, <2>3
    <3> QED BY <3>1
  <2> QED BY <2>2, <2>3
<1> QED BY <1>1, <1>3, <1>4 DEF Shifted

LEMMA NewestStep == EngineOK /\ NewestKept /\ BufferStep => NewestKept'
<1> SUFFICES ASSUME EngineOK, NewestKept, BufferStep PROVE NewestKept'
  OBVIOUS
<1>1. ASSUME NEW type \in Metric \cup Container, Emit(type) PROVE NewestKept'
  <2> DEFINE alert == [id |-> raised + 1, type |-> type, acked |-> FALSE]
  <2>1. buffer' \in Seq(Alert) /\ raised' = raised + 1 /\ Shifted(buffer, buffer', alert)
    BY <1>1, EmitShifts
  <2>2. alert \in Alert /\ alert.id = raised + 1 /\ buffer \in Seq(Alert) /\ raised \in Nat
    BY DEF EngineOK, Alert
  <2> HIDE DEF alert
  <2>3. /\ Len(buffer) = IF raised < MaxBuffer THEN raised ELSE MaxBuffer
        /\ \A i \in 1 .. Len(buffer) : buffer[i].id = raised - Len(buffer) + i
    BY <2>2 DEF NewestKept
  <2>4. CASE Len(buffer) < MaxBuffer /\ buffer' = Append(buffer, alert)
    <3>1. Len(buffer) = raised /\ Len(buffer') = raised + 1 /\ raised + 1 <= MaxBuffer
      BY <2>2, <2>3, <2>4
    <3>2. ASSUME NEW i \in 1 .. raised + 1 PROVE buffer'[i].id = i
      <4>1. CASE i = raised + 1
        BY <2>2, <2>4, <3>1, <4>1
      <4>2. CASE i # raised + 1
        <5>1. i \in 1 .. raised /\ buffer'[i] = buffer[i]
          BY <2>2, <2>4, <3>1, <4>2
        <5> QED BY <2>2, <2>3, <3>1, <5>1
      <4> QED BY <4>1, <4>2
    <3> QED BY <2>1, <2>2, <3>1, <3>2 DEF NewestKept
  <2>5. CASE /\ Len(buffer) = MaxBuffer /\ Len(buffer') = MaxBuffer
             /\ \A j \in 1 .. MaxBuffer : buffer'[j] = IF j = MaxBuffer THEN alert ELSE buffer[j + 1]
    <3>1. raised >= MaxBuffer
      BY <2>2, <2>3, <2>5
    <3>2. ASSUME NEW j \in 1 .. MaxBuffer PROVE buffer'[j].id = raised + 1 - MaxBuffer + j
      <4>1. CASE j = MaxBuffer
        BY <2>2, <2>5, <4>1
      <4>2. CASE j # MaxBuffer
        <5>1. j + 1 \in 1 .. Len(buffer) /\ buffer'[j] = buffer[j + 1]
          BY <2>5, <4>2
        <5>2. buffer[j + 1].id = raised - Len(buffer) + (j + 1)
          BY <2>3, <5>1
        <5> QED BY <2>2, <2>5, <5>1, <5>2
      <4> QED BY <4>1, <4>2
    <3> QED BY <2>1, <2>2, <2>5, <3>1, <3>2 DEF NewestKept
  <2> QED BY <2>1, <2>4, <2>5 DEF Shifted
<1>2. CASE /\ raised' = raised /\ Len(buffer') = Len(buffer) /\ DOMAIN buffer' = DOMAIN buffer
           /\ \A i \in DOMAIN buffer : /\ buffer'[i].id = buffer[i].id /\ buffer'[i].type = buffer[i].type
                                       /\ buffer[i].acked => buffer'[i].acked
  BY <1>2 DEF NewestKept
<1> QED BY <1>1, <1>2 DEF BufferStep

LEMMA EngineInit == Init => EngineOK /\ NewestKept
<1> SUFFICES ASSUME Init PROVE EngineOK /\ NewestKept
  OBVIOUS
<1>1. PICK on \in RuleSets : AlertsInit(on)
  BY DEF Init
<1>2. Unbroken \in Observation
  BY DEF Unbroken, Observation, Ages
<1>3. EngineOK
  BY <1>1, <1>2 DEF AlertsInit, EngineOK, Ages
<1>4. NewestKept
  BY <1>1 DEF AlertsInit, NewestKept
<1> QED BY <1>3, <1>4

LEMMA EngineAlways == Spec => [](EngineOK /\ NewestKept)
<1>1. EngineOK /\ NewestKept /\ [Next]_vars => (EngineOK /\ NewestKept)'
  BY StepsOfEngine, EngineStepOK, StepsOfBuffer, NewestStep
<1> QED BY <1>1, EngineInit, PTL DEF Spec

(* For any capacity of the buffer and any callers it holds exactly the newest *)
(* alerts, in the order they were raised.                                     *)
THEOREM BufferKeepsNewest == Spec => []NewestKept
<1> QED BY EngineAlways, PTL

(* For any capacity, no step takes an acknowledgement back, though alerts     *)
(* move in the buffer and acknowledgements go by position.                    *)
THEOREM AcksAreKept == Spec => AckedStays
<1>1. EngineOK /\ NewestKept /\ [Next]_vars =>
        [\A i \in DOMAIN buffer, j \in DOMAIN buffer' :
           (buffer[i].id = buffer'[j].id /\ buffer[i].acked) => buffer'[j].acked]_alertVars
  <2> SUFFICES ASSUME EngineOK, NewestKept, [Next]_vars,
                      NEW i \in DOMAIN buffer, NEW j \in DOMAIN buffer',
                      buffer[i].id = buffer'[j].id, buffer[i].acked
               PROVE  buffer'[j].acked
    OBVIOUS
  <2>1. BufferStep
    BY StepsOfEngine, StepsOfBuffer
  <2>2. /\ buffer \in Seq(Alert) /\ raised \in Nat /\ Len(buffer) \in Nat
        /\ \A k \in DOMAIN buffer : buffer[k].id = raised - Len(buffer) + k /\ k \in 1 .. Len(buffer)
    BY DEF EngineOK, NewestKept
  <2>3. ASSUME NEW type \in Metric \cup Container, Emit(type) PROVE buffer'[j].acked
    <3>1. CASE buffer'[j] = [id |-> raised + 1, type |-> type, acked |-> FALSE]
      <4>1. buffer[i].id = raised + 1
        BY <3>1
      <4> QED BY <2>2, <4>1
    <3>2. ASSUME NEW k \in DOMAIN buffer, buffer'[j] = buffer[k] PROVE buffer'[j].acked
      <4>1. i = k
        BY <2>2, <3>2
      <4> QED BY <3>2, <4>1
    <3> QED BY <2>3, <3>1, <3>2, EmitLeaves
  <2>4. CASE /\ raised' = raised /\ DOMAIN buffer' = DOMAIN buffer
             /\ \A k \in DOMAIN buffer : /\ buffer'[k].id = buffer[k].id
                                         /\ buffer[k].acked => buffer'[k].acked
    <3>1. i = j
      BY <2>2, <2>4
    <3> QED BY <2>4, <3>1
  <2> QED BY <2>1, <2>3, <2>4 DEF BufferStep
<1> QED BY <1>1, EngineAlways, PTL DEF Spec, AckedStays

-----------------------------------------------------------------------------
(* The one goroutine that is meant to report docker events: what it is about  *)
(* to emit is of a container that is down.                                    *)
OneReporter == \E w : Reporter = {w}
UpInv == UpIsAcked /\ \A r \in Reporter : report[r] # None => report[r] \in downCtrs

LEMMA UpStep == OneReporter /\ EngineOK /\ NewestKept /\ UpInv /\ EngineStep => UpInv'
<1> SUFFICES ASSUME OneReporter, EngineOK, NewestKept, UpInv, EngineStep PROVE UpInv'
  OBVIOUS
<1>0. /\ \A r \in Reporter : report[r] # None => report[r] \in downCtrs
      /\ \A i \in DOMAIN buffer :
           (/\ buffer[i].type \in Container \ downCtrs
            /\ \A r \in Reporter : report[r] # buffer[i].type) => buffer[i].acked
  BY DEF UpInv, UpIsAcked
<1>1. CASE UNCHANGED <<buffer, downCtrs, report>>
  BY <1>1 DEF UpInv, UpIsAcked
<1>2. CASE Check
  <2>1. PICK m \in Metric : m = Head(checking.left)
    BY <1>2 DEF Check, EngineOK
  <2>2. Skip(m) \/ CheckHigh(m) \/ CheckLow(m)
    BY <1>2, <2>1 DEF Check
  <2>3. UNCHANGED <<downCtrs, report>>
    BY <1>2 DEF Check
  <2>4. CASE Emit(m)
    <3>1. ASSUME NEW i \in DOMAIN buffer', buffer'[i].type \in Container \ downCtrs',
                 \A r \in Reporter : report'[r] # buffer'[i].type
          PROVE  buffer'[i].acked
      <4>1. CASE buffer'[i] = [id |-> raised + 1, type |-> m, acked |-> FALSE]
        <5>1. buffer'[i].type = m
          BY <4>1
        <5> QED BY <3>1, <5>1
      <4>2. ASSUME NEW k \in DOMAIN buffer, buffer'[i] = buffer[k] PROVE buffer'[i].acked
        BY <1>0, <2>3, <3>1, <4>2
      <4>3. m \in Metric \cup Container
        OBVIOUS
      <4> QED BY <2>4, <4>1, <4>2, <4>3, EmitLeaves
    <3> QED BY <1>0, <2>3, <3>1 DEF UpInv, UpIsAcked
  <2>5. CASE UNCHANGED <<buffer, raised>>
    BY <1>1, <2>3, <2>5
  <2> QED BY <2>2, <2>4, <2>5 DEF Skip, CheckHigh, CheckLow
<1>3. ASSUME NEW r \in Reporter, NEW c \in Container, ContainerDown(r, c) PROVE UpInv'
  <2>1. /\ downCtrs' = downCtrs \cup {c} /\ report' = [report EXCEPT ![r] = c] /\ report[r] = None
        /\ buffer' = buffer /\ report \in [Reporter -> Container \cup {None}]
    BY <1>3 DEF ContainerDown, EngineOK
  <2>2. \A q \in Reporter : report'[q] # None => report'[q] \in downCtrs'
    BY <1>0, <2>1
  <2>3. ASSUME NEW i \in DOMAIN buffer, buffer[i].type \in Container \ downCtrs',
               \A q \in Reporter : report'[q] # buffer[i].type
        PROVE  buffer[i].acked
    <3>1. buffer[i].type \in Container \ downCtrs
      BY <2>1, <2>3
    <3>2. \A q \in Reporter : report[q] # buffer[i].type
      BY <2>1, <2>3, <3>1
    <3> QED BY <1>0, <3>1, <3>2
  <2> QED BY <2>1, <2>2, <2>3 DEF UpInv, UpIsAcked
<1>4. ASSUME NEW r \in Reporter, NEW c \in Container, ContainerUp(r, c) PROVE UpInv'
  <2>1. /\ downCtrs' = downCtrs \ {c} /\ report' = report /\ report[r] = None
        /\ buffer' = [i \in DOMAIN buffer |-> IF buffer[i].type = c THEN Marked(buffer[i]) ELSE buffer[i]]
    BY <1>4 DEF ContainerUp
  <2>2. \A q \in Reporter : report[q] = None
    BY <2>1 DEF OneReporter
  <2>3. ASSUME NEW i \in DOMAIN buffer', buffer'[i].type \in Container \ downCtrs'
        PROVE  buffer'[i].acked
    <3>1. i \in DOMAIN buffer /\ buffer[i] \in Alert /\ buffer[i].type \in Metric \cup Container
      <4>1. i \in DOMAIN buffer
        BY <2>1
      <4>2. buffer[i] \in Alert
        BY <4>1 DEF EngineOK
      <4> QED BY <4>1, <4>2 DEF Alert
    <3>2. CASE buffer[i].type = c
      BY <2>1, <3>1, <3>2, MarkedOK
    <3>3. CASE buffer[i].type # c
      <4>1. buffer'[i] = buffer[i] /\ buffer[i].type \in Container \ downCtrs
        BY <2>1, <2>3, <3>1, <3>3
      <4>2. \A q \in Reporter : report[q] # buffer[i].type
        BY <2>2, <4>1
      <4> QED BY <1>0, <3>1, <4>1, <4>2
    <3> QED BY <3>2, <3>3
  <2> QED BY <2>1, <2>2, <2>3 DEF UpInv, UpIsAcked
<1>5. ASSUME NEW r \in Reporter, DownEmits(r) PROVE UpInv'
  <2> DEFINE c == report[r]
  <2>1. c \in downCtrs /\ c \in Metric \cup Container /\ Emit(c)
    BY <1>0, <1>5 DEF DownEmits, EngineOK
  <2>2. /\ downCtrs' = downCtrs /\ report' = [report EXCEPT ![r] = None]
        /\ report \in [Reporter -> Container \cup {None}]
    BY <1>5 DEF DownEmits, EngineOK
  <2>3. ASSUME NEW i \in DOMAIN buffer', buffer'[i].type \in Container \ downCtrs',
               \A q \in Reporter : report'[q] # buffer'[i].type
        PROVE  buffer'[i].acked
    <3>1. CASE buffer'[i] = [id |-> raised + 1, type |-> c, acked |-> FALSE]
      <4>1. buffer'[i].type = c
        BY <3>1
      <4> QED BY <2>1, <2>2, <2>3, <4>1
    <3>2. ASSUME NEW k \in DOMAIN buffer, buffer'[i] = buffer[k] PROVE buffer'[i].acked
      <4>1. buffer[k].type \in Container \ downCtrs /\ buffer[k].type # c
        BY <2>1, <2>2, <2>3, <3>2
      <4>2. \A q \in Reporter : report[q] # buffer[k].type
        BY <2>2, <2>3, <3>2, <4>1
      <4> QED BY <1>0, <3>2, <4>1, <4>2
    <3> QED BY <2>1, <3>1, <3>2, EmitLeaves
  <2> QED BY <1>0, <2>2, <2>3 DEF UpInv, UpIsAcked
<1>6. ASSUME NEW j \in DOMAIN buffer, Ack(j) PROVE UpInv'
  <2>1. buffer' = [buffer EXCEPT ![j] = Marked(buffer[j])] /\ UNCHANGED <<downCtrs, report>>
    BY <1>6 DEF Ack
  <2>2. ASSUME NEW i \in DOMAIN buffer'
        PROVE  i \in DOMAIN buffer /\ buffer'[i].type = buffer[i].type /\ (buffer[i].acked => buffer'[i].acked)
    <3>1. i \in DOMAIN buffer /\ buffer[i] \in Alert
          /\ buffer'[i] = IF i = j THEN Marked(buffer[i]) ELSE buffer[i]
      BY <2>1 DEF EngineOK
    <3>2. CASE i = j
      BY <3>1, <3>2, MarkedOK
    <3>3. CASE i # j
      BY <3>1, <3>3
    <3> QED BY <3>2, <3>3
  <2> QED BY <1>0, <2>1, <2>2 DEF UpInv, UpIsAcked
<1>7. CASE \/ UNCHANGED alertVars \/ AgeBreaches
           \/ \E on \in RuleSets : UpdateRules(on)
           \/ \E values : EvaluateHost(values)
  BY <1>1, <1>7 DEF alertVars, AgeBreaches, UpdateRules, EvaluateHost
<1> QED BY <1>2, <1>3, <1>4, <1>5, <1>6, <1>7 DEF EngineStep

(* For any containers and any capacity: with one reporter, no alert of a      *)
(* container that is back stays unacknowledged.                               *)
THEOREM UpClearsItsAlerts == OneReporter /\ Spec => []UpIsAcked
<1>1. Init => UpInv
  BY DEF Init, AlertsInit, UpInv, UpIsAcked
<1>2. OneReporter /\ EngineOK /\ NewestKept /\ UpInv /\ [Next]_vars => UpInv'
  BY UpStep, StepsOfEngine
<1>3. UpInv => UpIsAcked
  BY DEF UpInv
<1>4. ASSUME OneReporter PROVE Spec => []UpIsAcked
  <2>1. EngineOK /\ NewestKept /\ UpInv /\ [Next]_vars => UpInv'
    BY <1>2, <1>4
  <2> QED BY <1>1, <1>3, <2>1, EngineAlways, PTL DEF Spec
<1> QED BY <1>4

-----------------------------------------------------------------------------
(* A breach as the engine times it and as the values alone show it: the same  *)
(* until a check was skipped; an alert is out exactly while the metric is     *)
(* active.                                                                    *)
Agree(m) ==
  LET o == observed[m] IN
  /\ o.alerts = IF m \in active THEN 1 ELSE 0
  /\ o.age \in {None} \cup 0 .. For[m]
  /\ ~o.gap => /\ breachAt[m] = o.age
               /\ o.seen # None => o.age # None /\ o.seen \in 0 .. For[m] /\ o.seen <= o.age
               /\ o.alerts = 1 <=> (o.seen # None /\ o.seen >= For[m])
AllAgree == \A m \in Metric : Agree(m)

LEMMA AgreeStep == EngineOK /\ NewestKept /\ AllAgree /\ EngineStep => AllAgree'
<1> SUFFICES ASSUME EngineOK, NewestKept, AllAgree, EngineStep, NEW m \in Metric PROVE Agree(m)'
  BY DEF AllAgree
<1>0. /\ Agree(m) /\ observed[m] \in Observation /\ breachAt[m] \in Ages /\ For[m] \in Nat
      /\ breachAt \in [Metric -> Ages] /\ observed \in [Metric -> Observation]
  BY DEF AllAgree, EngineOK
<1>1. CASE UNCHANGED <<active, observed, breachAt>>
  BY <1>0, <1>1 DEF Agree
<1>2. CASE Check
  <2>1. PICK n \in Metric : n = Head(checking.left)
    BY <1>2 DEF Check, EngineOK
  <2>2. Skip(n) \/ CheckHigh(n) \/ CheckLow(n)
    BY <1>2, <2>1 DEF Check
  <2>3. CASE n # m
    <3>1. observed'[m] = observed[m] /\ breachAt'[m] = breachAt[m] /\ (m \in active' <=> m \in active)
      BY <1>0, <2>2, <2>3 DEF Skip, CheckHigh, CheckLow, Note
    <3> QED BY <1>0, <3>1 DEF Agree
  <2>4. CASE n = m /\ Skip(n)
    <3>1. /\ observed'[m] = [age |-> None, seen |-> None, alerts |-> observed[m].alerts,
                             gap |-> observed[m].gap \/ breachAt[m] # None]
          /\ breachAt' = breachAt /\ active' = active
      BY <1>0, <2>4 DEF Skip, Note
    <3>2. /\ observed'[m].age = None /\ observed'[m].seen = None /\ observed'[m].alerts = observed[m].alerts
          /\ observed'[m].gap = (observed[m].gap \/ breachAt[m] # None)
      BY <3>1
    <3>3. ~observed'[m].gap => ~observed[m].gap /\ breachAt[m] = None
      BY <3>2, Zenon
    <3>4. ~observed'[m].gap => breachAt[m] = None /\ observed[m].alerts # 1
      BY <1>0, <3>3 DEF Agree
    <3> QED BY <1>0, <3>1, <3>2, <3>4 DEF Agree
  <2>5. CASE n = m /\ CheckHigh(n)
    <3> DEFINE age == Older(breachAt[m])
               seen == Older(observed[m].age)
               fires == m \notin active /\ age >= For[m]
    <3>1. /\ observed'[m] = [age |-> seen, seen |-> seen,
                             alerts |-> observed[m].alerts + (IF fires THEN 1 ELSE 0),
                             gap |-> observed[m].gap]
          /\ breachAt'[m] = age /\ active' = IF fires THEN active \cup {m} ELSE active
      BY <1>0, <2>5 DEF CheckHigh, Note
    <3>2. seen \in 0 .. For[m] /\ None \notin Int
      BY <1>0 DEF Older, Agree
    <3>3. ~observed[m].gap => age = seen
      BY <1>0 DEF Agree
    <3>4. (~observed[m].gap /\ observed[m].alerts = 1) => seen >= For[m]
      BY <1>0 DEF Agree, Older
    <3>5. observed[m].alerts = IF m \in active THEN 1 ELSE 0
      BY <1>0 DEF Agree
    <3> HIDE DEF age, seen
    <3> QED BY <3>1, <3>2, <3>3, <3>4, <3>5, <1>0 DEF Agree
  <2>6. CASE n = m /\ CheckLow(n)
    <3>1. /\ observed'[m] = [age |-> None, seen |-> None, alerts |-> 0, gap |-> FALSE]
          /\ breachAt'[m] = None /\ m \notin active'
      BY <1>0, <2>6 DEF CheckLow, Note
    <3> QED BY <1>0, <3>1 DEF Agree
  <2> QED BY <2>2, <2>3, <2>4, <2>5, <2>6
<1>3. CASE AgeBreaches
  <2>1. /\ observed'[m] = [age |-> Aged(observed[m].age, m), seen |-> observed[m].seen,
                           alerts |-> observed[m].alerts, gap |-> observed[m].gap]
        /\ breachAt'[m] = Aged(breachAt[m], m) /\ active' = active
    BY <1>3 DEF AgeBreaches
  <2>2. /\ Aged(observed[m].age, m) \in {None} \cup 0 .. For[m]
        /\ observed[m].age # None => /\ Aged(observed[m].age, m) # None
                                     /\ observed[m].age <= Aged(observed[m].age, m)
    BY <1>0 DEF Aged, Agree
  <2> QED BY <1>0, <2>1, <2>2 DEF Agree
<1>4. CASE \/ UNCHANGED alertVars
           \/ \E on \in RuleSets : UpdateRules(on)
           \/ \E values : EvaluateHost(values)
           \/ \E r \in Reporter, c \in Container : ContainerDown(r, c) \/ ContainerUp(r, c)
           \/ \E r \in Reporter : DownEmits(r)
           \/ \E i \in DOMAIN buffer : Ack(i)
  BY <1>1, <1>4 DEF alertVars, UpdateRules, EvaluateHost, ContainerDown, ContainerUp, DownEmits, Ack
<1> QED BY <1>2, <1>3, <1>4 DEF EngineStep

(* For any metrics, rules, delays and order of checks: one alert for a        *)
(* breach, neither early nor late, and never two.                             *)
THEOREM OneAlertPerBreach == Spec => []AlertsMatchBreaches
<1>1. Init => AllAgree
  <2> SUFFICES ASSUME Init, NEW m \in Metric PROVE Agree(m)
    BY DEF AllAgree
  <2>1. /\ observed[m] = Unbroken /\ breachAt[m] = None /\ active = {}
    BY DEF Init, AlertsInit
  <2> QED BY <2>1 DEF Agree, Unbroken
<1>2. EngineOK /\ NewestKept /\ AllAgree /\ [Next]_vars => AllAgree'
  BY AgreeStep, StepsOfEngine
<1>3. ASSUME AllAgree PROVE AlertsMatchBreaches
  <2> SUFFICES ASSUME NEW m \in Metric
               PROVE  /\ observed[m].alerts <= 1
                      /\ ~observed[m].gap => (observed[m].alerts = 1
                                             <=> observed[m].seen # None /\ observed[m].seen >= For[m])
    BY DEF AlertsMatchBreaches
  <2>1. Agree(m)
    BY <1>3 DEF AllAgree
  <2> QED BY <2>1 DEF Agree
<1> QED BY <1>1, <1>2, <1>3, EngineAlways, PTL DEF Spec

-----------------------------------------------------------------------------
(* The collector: as long as no interface vanished and no two samples were    *)
(* taken at once, whoever is between reading the counter and storing it is    *)
(* alone there, so the stored counter is at most the one it read.             *)
Cell == [at : {"away", "compare", "store", "sampled"}, count : Nat, sample : Sample \cup {None}]
CollectorOK ==
  /\ host \in [value : [Metric -> {"low", "high", "absent"}], counter : Nat, dropped : BOOLEAN]
  /\ last \in Nat /\ overlap \in BOOLEAN /\ ever \in BOOLEAN
  /\ sampler \in [Sampler -> Cell]
  /\ \A p \in Sampler : sampler[p].at # "away" => sampler[p].sample \in Sample
Busy(p) == sampler[p].at \in {"compare", "store"}
Ordered ==
  /\ last <= host.counter
  /\ \A p \in Sampler : Busy(p) => last <= sampler[p].count /\ sampler[p].count <= host.counter
  /\ \A p, q \in Sampler : Busy(p) /\ Busy(q) => p = q
  /\ \A p \in Sampler : sampler[p].at \in {"store", "sampled"} => sampler[p].sample.rate # "wrapped"
  /\ latest # None => latest.rate # "wrapped"
WrapInv == CollectorOK /\ (~host.dropped /\ ~overlap => Ordered)

(* What a step of the monitor is to the collector.                            *)
CollectorStep ==
  \/ UNCHANGED hostVars
  \/ \E m \in Metric : \E v \in Value(m) : MetricChanges(m, v)
  \/ Traffic \/ InterfaceVanishes \/ Publish
  \/ \E p \in Sampler : Gather(p) \/ Compare(p) \/ Store(p)
  \/ \E c \in Caller : LatestReturns(c)

LEMMA StepsOfCollector == [Next]_vars => CollectorStep
<1> SUFFICES ASSUME [Next]_vars PROVE CollectorStep
  OBVIOUS
<1>0. "Run" \in Sampler /\ Caller \subseteq Sampler
  BY DEF Sampler
<1>1. CASE UNCHANGED vars
  BY <1>1 DEF vars, CollectorStep
<1>2. CASE Host
  BY <1>2 DEF Host, CollectorStep
<1>3. CASE Run
  BY <1>0, <1>3 DEF Run, SampleStep, CollectorStep
<1>4. ASSUME NEW c \in Caller, CallLatest(c) PROVE CollectorStep
  BY <1>0, <1>4 DEF CallLatest, LatestSamples, SampleStep, CollectorStep
<1>5. ASSUME NEW c \in Caller, Show(c) \/ Evaluate(c) PROVE CollectorStep
  BY <1>5 DEF Show, Evaluate, CollectorStep
<1>6. CASE CheckNext \/ Tick \/ Handlers
  BY <1>6 DEF CheckNext, Tick, Handlers, CollectorStep
<1>7. ASSUME NEW r \in Reporter, DockerEvent(r) PROVE CollectorStep
  BY <1>7 DEF DockerEvent, CollectorStep
<1> QED BY <1>1, <1>2, <1>3, <1>4, <1>5, <1>6, <1>7 DEF Next

LEMMA GatherKeeps == ASSUME WrapInv, NEW p \in Sampler, Gather(p) PROVE WrapInv'
<1> DEFINE sample == [value |-> host.value, rate |-> "none"]
           cell == [at |-> "compare", count |-> host.counter, sample |-> sample]
<1>1. /\ sampler' = [sampler EXCEPT ![p] = cell] /\ UNCHANGED <<host, latest, last, ever>>
      /\ overlap' = (overlap \/ \E q \in Sampler : Busy(q))
  BY DEF Gather, Busy
<1>2. sample \in Sample /\ cell \in Cell /\ cell.at = "compare" /\ cell.count = host.counter
      /\ cell.sample = sample
  BY DEF WrapInv, CollectorOK, Sample, Cell
<1> HIDE DEF cell, sample
<1>3. CollectorOK'
  <2>1. overlap' \in BOOLEAN
    BY <1>1
  <2> QED BY <1>1, <1>2, <2>1 DEF WrapInv, CollectorOK
<1>4. ASSUME ~host'.dropped, ~overlap' PROVE Ordered'
  <2>1. Ordered /\ \A q \in Sampler : ~Busy(q)
    BY <1>1, <1>4 DEF WrapInv
  <2>2. sampler'[p] = cell /\ \A q \in Sampler : q # p => sampler'[q] = sampler[q]
    BY <1>1 DEF WrapInv, CollectorOK
  <2> QED BY <1>1, <1>2, <2>1, <2>2 DEF WrapInv, CollectorOK, Ordered, Busy
<1> QED BY <1>3, <1>4 DEF WrapInv

LEMMA CompareKeeps == ASSUME WrapInv, NEW p \in Sampler, Compare(p) PROVE WrapInv'
<1>1. PICK rate \in {"none", "wrapped", "true"} :
        /\ sampler' = [sampler EXCEPT ![p].at = "store", ![p].sample.rate = rate]
        /\ rate = "wrapped" => sampler[p].count < last
  BY DEF Compare
<1>2. UNCHANGED <<host, latest, last, ever, overlap>> /\ sampler[p].at = "compare"
      /\ sampler \in [Sampler -> Cell] /\ sampler[p].sample \in Sample
  BY DEF Compare, WrapInv, CollectorOK
<1>3. PICK sample \in Sample : sample = [value |-> sampler[p].sample.value, rate |-> rate]
  BY <1>2 DEF Sample
<1>4. sampler'[p] = [at |-> "store", count |-> sampler[p].count, sample |-> sample]
      /\ \A q \in Sampler : q # p => sampler'[q] = sampler[q]
  <2> DEFINE one == [sampler EXCEPT ![p].at = "store"]
             two == [one[p] EXCEPT !.sample.rate = rate]
  <2>1. sampler' = [one EXCEPT ![p] = two]
    BY <1>1
  <2>2. one \in [Sampler -> Cell] /\ one[p] = [at |-> "store", count |-> sampler[p].count, sample |-> sampler[p].sample]
        /\ \A q \in Sampler : q # p => one[q] = sampler[q]
    BY <1>2 DEF Cell
  <2> HIDE DEF one
  <2>3. two = [at |-> "store", count |-> sampler[p].count,
               sample |-> [sampler[p].sample EXCEPT !.rate = rate]]
    BY <2>2
  <2>4. [sampler[p].sample EXCEPT !.rate = rate] = sample
    BY <1>2, <1>3 DEF Sample
  <2> QED BY <2>1, <2>2, <2>3, <2>4
<1>5. sampler'[p] \in Cell /\ sampler'[p].at = "store" /\ sampler'[p].count = sampler[p].count
      /\ sampler'[p].sample = sample /\ sample.rate = rate
  BY <1>2, <1>3, <1>4 DEF Cell
<1>6. sampler' \in [Sampler -> Cell]
  BY <1>1, <1>2, <1>4, <1>5
<1>7. CollectorOK'
  BY <1>2, <1>4, <1>5, <1>6 DEF WrapInv, CollectorOK
<1>8. ASSUME ~host'.dropped, ~overlap' PROVE Ordered'
  <2>1. Ordered
    BY <1>2, <1>8 DEF WrapInv
  <2>2. rate # "wrapped"
    BY <1>1, <1>2, <2>1 DEF Ordered, Busy, Cell, WrapInv, CollectorOK
  <2>3. \A q \in Sampler : Busy(q)' => Busy(q) /\ sampler'[q].count = sampler[q].count
    BY <1>2, <1>4, <1>5 DEF Busy
  <2> QED BY <1>2, <1>4, <1>5, <2>1, <2>2, <2>3 DEF Ordered
<1> QED BY <1>7, <1>8 DEF WrapInv

LEMMA StoreKeeps == ASSUME WrapInv, NEW p \in Sampler, Store(p) PROVE WrapInv'
<1>1. /\ sampler[p].at = "store" /\ last' = sampler[p].count /\ ever' = TRUE
      /\ UNCHANGED <<host, latest, overlap>> /\ sampler \in [Sampler -> Cell]
  BY DEF Store, WrapInv, CollectorOK
<1>2. sampler'[p] = [at |-> "sampled", count |-> 0, sample |-> sampler[p].sample]
      /\ (\A q \in Sampler : q # p => sampler'[q] = sampler[q]) /\ sampler' \in [Sampler -> Cell]
  <2> DEFINE one == [sampler EXCEPT ![p].at = "sampled"]
             cell == [at |-> "sampled", count |-> 0, sample |-> sampler[p].sample]
  <2>1. sampler' = [one EXCEPT ![p].count = 0]
    BY DEF Store
  <2>2. /\ sampler[p] \in Cell /\ cell \in Cell
        /\ [[sampler[p] EXCEPT !.at = "sampled"] EXCEPT !.count = 0] = cell
    <3>1. sampler[p] \in Cell
      BY <1>1
    <3>2. cell \in Cell
      BY <3>1 DEF Cell
    <3>3. [sampler[p] EXCEPT !.at = "sampled"] =
            [at |-> "sampled", count |-> sampler[p].count, sample |-> sampler[p].sample]
      BY <3>1 DEF Cell
    <3> DEFINE first == [sampler[p] EXCEPT !.at = "sampled"]
    <3>4. first = [at |-> "sampled", count |-> sampler[p].count, sample |-> sampler[p].sample]
      BY <3>3
    <3> HIDE DEF first
    <3>5. [first EXCEPT !.count = 0] = cell
      BY <3>4
    <3> QED BY <3>1, <3>2, <3>5 DEF first
  <2>3. /\ one[p] = [sampler[p] EXCEPT !.at = "sampled"] /\ DOMAIN one = Sampler
        /\ \A q \in Sampler : q # p => one[q] = sampler[q]
    BY <1>1
  <2> HIDE DEF one
  <2>4. sampler'[p] = [one[p] EXCEPT !.count = 0]
    BY <2>1, <2>3
  <2>5. \A q \in Sampler : q # p => sampler'[q] = sampler[q]
    BY <2>1, <2>3
  <2>6. DOMAIN sampler' = Sampler /\ sampler' = [q \in Sampler |-> sampler'[q]]
    BY <2>1, <2>3
  <2>7. sampler'[p] = cell
    BY <2>2, <2>3, <2>4
  <2> HIDE DEF cell
  <2>8. \A q \in Sampler : sampler'[q] \in Cell
    BY <1>1, <2>2, <2>5, <2>7
  <2> QED BY <2>5, <2>6, <2>7, <2>8 DEF cell
<1>3. CollectorOK'
  <2>1. sampler[p].sample \in Sample /\ sampler[p].count \in Nat
    BY <1>1 DEF WrapInv, CollectorOK, Cell
  <2>2. sampler'[p].sample \in Sample
    BY <1>2, <2>1
  <2> QED BY <1>1, <1>2, <2>1, <2>2 DEF WrapInv, CollectorOK
<1>4. ASSUME ~host'.dropped, ~overlap' PROVE Ordered'
  <2>1. Ordered /\ Busy(p)
    BY <1>1, <1>4 DEF WrapInv, Busy
  <2>2. \A q \in Sampler : ~Busy(q)'
    BY <1>2, <2>1 DEF Ordered, Busy
  <2>3. last' <= host'.counter
    BY <1>1, <2>1 DEF Ordered
  <2> QED BY <1>1, <1>2, <2>1, <2>2, <2>3 DEF Ordered
<1> QED BY <1>3, <1>4 DEF WrapInv

LEMMA LeavesKeep ==
  ASSUME WrapInv, NEW p \in Sampler, sampler' = [sampler EXCEPT ![p] = Away],
         UNCHANGED <<host, last, ever, overlap>>,
         latest' = latest \/ (sampler[p].at = "sampled" /\ latest' = sampler[p].sample)
  PROVE  WrapInv'
<1>1. Away \in Cell /\ Away.at = "away"
  BY DEF Away, Cell
<1>2. sampler'[p] = Away /\ (\A q \in Sampler : q # p => sampler'[q] = sampler[q])
      /\ sampler' \in [Sampler -> Cell]
  BY <1>1 DEF WrapInv, CollectorOK
<1>3. CollectorOK'
  BY <1>1, <1>2 DEF WrapInv, CollectorOK
<1>4. ASSUME ~host'.dropped, ~overlap' PROVE Ordered'
  <2>1. Ordered
    BY <1>4 DEF WrapInv
  <2>2. latest' # None => latest'.rate # "wrapped"
    BY <2>1 DEF Ordered
  <2> QED BY <1>1, <1>2, <2>1, <2>2 DEF Ordered, Busy
<1> QED BY <1>3, <1>4 DEF WrapInv

LEMMA MachineKeeps ==
  ASSUME WrapInv, \/ \E m \in Metric : \E v \in Value(m) : MetricChanges(m, v)
                  \/ Traffic \/ InterfaceVanishes
  PROVE  WrapInv'
<1>1. UNCHANGED <<latest, last, ever, sampler, overlap>>
  BY DEF MetricChanges, Traffic, InterfaceVanishes
<1>2. /\ host' \in [value : [Metric -> {"low", "high", "absent"}], counter : Nat, dropped : BOOLEAN]
      /\ ~host'.dropped => ~host.dropped /\ host.counter <= host'.counter
  <2>1. ASSUME NEW m \in Metric, NEW v \in Value(m), MetricChanges(m, v) PROVE <1>2
    <3>1. host' = [value |-> [host.value EXCEPT ![m] = v], counter |-> host.counter, dropped |-> host.dropped]
      BY <2>1 DEF MetricChanges, WrapInv, CollectorOK
    <3>2. [host.value EXCEPT ![m] = v] \in [Metric -> {"low", "high", "absent"}]
      BY DEF WrapInv, CollectorOK, Value
    <3> QED BY <3>1, <3>2 DEF WrapInv, CollectorOK
  <2>2. CASE Traffic
    <3>1. host' = [value |-> host.value, counter |-> host.counter + 1, dropped |-> host.dropped]
      BY <2>2 DEF Traffic, WrapInv, CollectorOK
    <3> QED BY <3>1 DEF WrapInv, CollectorOK
  <2>3. CASE InterfaceVanishes
    BY <2>3 DEF InterfaceVanishes, WrapInv, CollectorOK
  <2> QED BY <2>1, <2>2, <2>3
<1>3. CollectorOK'
  BY <1>1, <1>2 DEF WrapInv, CollectorOK
<1>4. ASSUME ~host'.dropped, ~overlap' PROVE Ordered'
  <2>1. Ordered /\ host.counter <= host'.counter
    BY <1>1, <1>2, <1>4 DEF WrapInv
  <2>2. \A q \in Sampler : sampler[q].count \in Nat
    BY DEF WrapInv, CollectorOK, Cell
  <2>3. host.counter \in Nat /\ host'.counter \in Nat /\ last \in Nat
    BY <1>2 DEF WrapInv, CollectorOK
  <2> QED BY <1>1, <2>1, <2>2, <2>3 DEF Ordered, Busy
<1> QED BY <1>3, <1>4 DEF WrapInv

LEMMA WrapAlways == Spec => []WrapInv
<1>1. Init => WrapInv
  <2> SUFFICES ASSUME Init PROVE WrapInv
    OBVIOUS
  <2>1. Away \in Cell /\ Away.at = "away"
    BY DEF Away, Cell
  <2>2. /\ host = [value |-> [m \in Metric |-> "low"], counter |-> 0, dropped |-> FALSE]
        /\ latest = None /\ last = 0 /\ ever = FALSE /\ overlap = FALSE
        /\ sampler = [p \in Sampler |-> Away]
    BY DEF Init, HostInit
  <2>3. host.counter = 0 /\ ~host.dropped
        /\ host \in [value : [Metric -> {"low", "high", "absent"}], counter : Nat, dropped : BOOLEAN]
    BY <2>2
  <2>4. \A p \in Sampler : sampler[p] = Away
    BY <2>2
  <2>5. CollectorOK
    BY <2>1, <2>2, <2>3, <2>4 DEF CollectorOK
  <2>6. Ordered
    BY <2>1, <2>2, <2>3, <2>4 DEF Ordered, Busy
  <2> QED BY <2>5, <2>6 DEF WrapInv
<1>2. WrapInv /\ [Next]_vars => WrapInv'
  <2> SUFFICES ASSUME WrapInv, CollectorStep PROVE WrapInv'
    BY StepsOfCollector
  <2>1. CASE UNCHANGED hostVars
    BY <2>1 DEF hostVars, WrapInv, CollectorOK, Ordered, Busy
  <2>2. CASE Publish
    BY <2>2, LeavesKeep DEF Publish, Sampler
  <2>3. ASSUME NEW c \in Caller, LatestReturns(c) PROVE WrapInv'
    BY <2>3, LeavesKeep DEF LatestReturns, Sampler
  <2> QED BY <2>1, <2>2, <2>3, MachineKeeps, GatherKeeps, CompareKeeps, StoreKeeps DEF CollectorStep
<1> QED BY <1>1, <1>2, PTL DEF Spec

(* For any number of callers: the app is shown a wrapped rate only after an   *)
(* interface vanished or two samples were taken at once.                      *)
THEOREM WrapsAreExplained == Spec => []WrapIsExplained
<1>1. WrapInv => WrapIsExplained
  BY DEF WrapInv, CollectorOK, Ordered, WrapIsExplained
<1> QED BY <1>1, WrapAlways, PTL

-----------------------------------------------------------------------------
(* What the two invariants above do not say of the types: a published sample  *)
(* is a whole one, and a breach never gets older than its rule asks for.      *)
Rest == /\ latest \in Sample \cup {None}
        /\ \A m \in Metric : breachAt[m] \in {None} \cup 0 .. For[m]
        /\ changes \in 0 .. MaxChanges

LEMMA AgesStep ==
  ASSUME EngineOK, Rest, EngineStep
  PROVE  \A m \in Metric : breachAt'[m] \in {None} \cup 0 .. For[m]
<1> SUFFICES ASSUME NEW m \in Metric PROVE breachAt'[m] \in {None} \cup 0 .. For[m]
  OBVIOUS
<1>0. /\ breachAt \in [Metric -> Ages] /\ For[m] \in Nat
      /\ breachAt[m] \in {None} \cup 0 .. For[m]
  BY DEF EngineOK, Rest
<1>1. CASE Check
  <2>1. PICK n \in Metric : n = Head(checking.left)
    BY <1>1 DEF Check, EngineOK
  <2>2. Skip(n) \/ CheckHigh(n) \/ CheckLow(n)
    BY <1>1, <2>1 DEF Check
  <2>3. breachAt' \in {breachAt, [breachAt EXCEPT ![n] = Older(breachAt[n])], [breachAt EXCEPT ![n] = None]}
    BY <2>2 DEF Skip, CheckHigh, CheckLow
  <2>4. Older(breachAt[m]) \in 0 .. For[m]
    BY <1>0 DEF Older
  <2> QED BY <1>0, <2>3, <2>4
<1>2. CASE AgeBreaches
  <2>1. breachAt'[m] = Aged(breachAt[m], m)
    BY <1>2 DEF AgeBreaches
  <2> QED BY <1>0, <2>1 DEF Aged
<1>3. CASE breachAt' = breachAt
  BY <1>0, <1>3
<1> QED BY <1>1, <1>2, <1>3 DEF EngineStep, alertVars, UpdateRules, EvaluateHost, ContainerDown,
                               ContainerUp, DownEmits, Ack

LEMMA SampleStepOK ==
  ASSUME WrapInv, Rest, CollectorStep PROVE latest' \in Sample \cup {None}
<1>1. CASE Publish
  <2>1. "Run" \in Sampler /\ sampler["Run"].at = "sampled" /\ latest' = sampler["Run"].sample
    BY <1>1 DEF Publish, Sampler
  <2> QED BY <2>1 DEF WrapInv, CollectorOK
<1>2. CASE latest' = latest
  BY <1>2 DEF Rest
<1> QED BY <1>1, <1>2 DEF CollectorStep, hostVars, MetricChanges, Traffic, InterfaceVanishes, Gather,
                         Compare, Store, LatestReturns

LEMMA ChangesStep == ASSUME Rest, [Next]_vars PROVE changes' \in 0 .. MaxChanges
<1>1. changes' = changes \/ Counted
  BY DEF Next, vars, Host, Run, CheckNext, Tick, Handlers, CallLatest, Show, Evaluate, DockerEvent
<1>2. changes \in 0 .. MaxChanges /\ MaxChanges \in Nat
  BY DEF Rest
<1>3. CASE Counted
  BY <1>2, <1>3 DEF Counted
<1> QED BY <1>1, <1>2, <1>3

(* For any metrics, containers, callers and capacity: samples, breaches, the  *)
(* buffer and the reports stay well formed, no breach grows older than its    *)
(* rule asks for, and the buffer never exceeds its capacity.                  *)
THEOREM MonitorTypes == Spec => []TypeOK
<1>1. Init => Rest
  <2> SUFFICES ASSUME Init PROVE Rest
    OBVIOUS
  <2>1. latest = None /\ changes = 0 /\ breachAt = [m \in Metric |-> None]
    BY DEF Init, HostInit, AlertsInit
  <2> QED BY <2>1 DEF Rest
<1>2. EngineOK /\ NewestKept /\ WrapInv /\ Rest /\ [Next]_vars => Rest'
  <2> SUFFICES ASSUME EngineOK, NewestKept, WrapInv, Rest, [Next]_vars PROVE Rest'
    OBVIOUS
  <2>1. EngineStep /\ CollectorStep
    BY StepsOfEngine, StepsOfCollector
  <2> QED BY <2>1, AgesStep, SampleStepOK, ChangesStep DEF Rest
<1>3. EngineOK /\ NewestKept /\ WrapInv /\ Rest => TypeOK
  <2> SUFFICES ASSUME EngineOK, NewestKept, WrapInv, Rest PROVE TypeOK
    OBVIOUS
  <2>1. HostTypeOK
    <3>1. host.value \in [Metric -> {"low", "high", "absent"}] /\ host.counter \in Nat
      BY DEF WrapInv, CollectorOK
    <3> QED BY <3>1 DEF WrapInv, CollectorOK, Cell, Rest, HostTypeOK
  <2>2. AlertsTypeOK
    <3>1. Len(buffer) <= MaxBuffer
      BY DEF EngineOK, NewestKept
    <3>2. ASSUME NEW i \in DOMAIN buffer
          PROVE  buffer[i].type \in Metric \cup Container /\ buffer[i].acked \in BOOLEAN
      <4>1. buffer[i] \in Alert
        BY DEF EngineOK
      <4> QED BY <4>1 DEF Alert
    <3> QED BY <3>1, <3>2 DEF EngineOK, Rest, AlertsTypeOK
  <2> QED BY <2>1, <2>2 DEF TypeOK, Rest
<1> QED BY <1>1, <1>2, <1>3, EngineAlways, WrapAlways, PTL DEF Spec
=============================================================================
