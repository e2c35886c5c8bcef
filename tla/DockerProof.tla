----------------------------- MODULE DockerProof ------------------------------
(* For any list, any semaphore, any texts and any frames: the worker pool of  *)
(* annotateStats, the lines of a log, and the answers to the requests.        *)
EXTENDS Docker, FiniteSetTheorems, SequenceTheorems, WellFoundedInduction, TLAPS

USE StatsAssumption

Ended == {i \in Index : worker[i] = "ended"}

(* The semaphore counts the workers that hold it, the caller the reports it   *)
(* has taken, and the workers that exist are those below the next index.      *)
Counts == /\ sem = Cardinality(AtWork) /\ sem <= Slots
          /\ collected = Cardinality(Ended)
Started == /\ \A i \in Index : worker[i] = "none" <=> caller.next <= i
           /\ caller.at # "starting" => caller.next = N + 1
           /\ caller.at = "returned" => collected = N
PoolInv == StatsTypeOK /\ Counts /\ Started

LEMMA Finite == /\ IsFiniteSet(Index) /\ Cardinality(Index) = N
                /\ IsFiniteSet(AtWork) /\ IsFiniteSet(Ended)
<1>1. IsFiniteSet(Index) /\ Cardinality(Index) = N
  BY FS_Interval DEF Index
<1>2. AtWork \subseteq Index /\ Ended \subseteq Index
  BY DEF AtWork, Ended
<1> QED BY <1>1, <1>2, FS_Subset

LEMMA PoolInit == StatsInit => PoolInv
<1> SUFFICES ASSUME StatsInit PROVE PoolInv
  OBVIOUS
<1>1. StatsTypeOK
  BY DEF StatsInit, StatsTypeOK
<1>2. AtWork = {} /\ Ended = {}
  BY DEF StatsInit, AtWork, Ended
<1>3. Counts
  BY <1>2, FS_EmptySet DEF StatsInit, Counts
<1>4. Started
  BY DEF StatsInit, Started, Index
<1> QED BY <1>1, <1>3, <1>4 DEF PoolInv

LEMMA PoolStep == PoolInv /\ [StatsNext]_statsVars => PoolInv'
<1> SUFFICES ASSUME PoolInv, [StatsNext]_statsVars PROVE PoolInv'
  OBVIOUS
<1> USE DEF PoolInv
<1>0. /\ caller \in [at : {"starting", "collecting", "returned"}, next : 1 .. N + 1]
      /\ caller.at \in {"starting", "collecting", "returned"} /\ caller.next \in 1 .. N + 1
      /\ worker \in [Index -> {"none", "calling", "wrote", "failed", "reporting", "ended"}]
      /\ sem \in Nat /\ collected \in 0 .. N
  BY DEF StatsTypeOK
<1>1. CASE UNCHANGED statsVars
  BY <1>1 DEF statsVars, StatsTypeOK, Counts, Started, AtWork, Ended
<1>2. CASE StartWorker
  <2> DEFINE k == caller.next
             new == [at |-> caller.at, next |-> k + 1]
  <2>1. k \in Index /\ worker[k] = "none"
    BY <1>0, <1>2 DEF StartWorker, Index, Started
  <2>2. caller' = new
    BY <1>0, <1>2 DEF StartWorker
  <2>3. worker' = [worker EXCEPT ![k] = "calling"] /\ sem' = sem + 1 /\ collected' = collected
    BY <1>2 DEF StartWorker
  <2>4. AtWork' = AtWork \cup {k} /\ k \notin AtWork /\ Ended' = Ended
    BY <1>0, <2>1, <2>3 DEF AtWork, Ended
  <2>5. Cardinality(AtWork \cup {k}) = Cardinality(AtWork) + 1
    BY <2>4, Finite, FS_AddElement
  <2>6. Counts'
    BY <1>0, <1>2, <2>3, <2>4, <2>5 DEF Counts, StartWorker
  <2>7. StatsTypeOK'
    BY <1>0, <1>2, <2>1, <2>2, <2>3 DEF StatsTypeOK, StartWorker, Index
  <2>8. Started'
    BY <1>0, <1>2, <2>1, <2>2, <2>3 DEF Started, StartWorker, Index
  <2> QED BY <2>6, <2>7, <2>8
<1>3. CASE AllStarted
  <2>1. caller' = [at |-> "collecting", next |-> caller.next] /\ caller.next = N + 1
    BY <1>0, <1>3 DEF AllStarted
  <2>2. UNCHANGED <<sem, worker, collected>>
    BY <1>3 DEF AllStarted
  <2> QED BY <1>0, <2>1, <2>2 DEF StatsTypeOK, Counts, Started, AtWork, Ended
<1>4. CASE AllCollected
  <2>1. caller' = [at |-> "returned", next |-> caller.next] /\ caller.next = N + 1 /\ collected = N
    BY <1>0, <1>4 DEF AllCollected, Started
  <2>2. UNCHANGED <<sem, worker, collected>>
    BY <1>4 DEF AllCollected
  <2> QED BY <1>0, <2>1, <2>2 DEF StatsTypeOK, Counts, Started, AtWork, Ended
<1>5. ASSUME NEW i \in Index, CallReturns(i) PROVE PoolInv'
  <2>1. PICK result \in {"wrote", "failed"} : worker' = [worker EXCEPT ![i] = result]
    BY <1>5 DEF CallReturns
  <2>2. worker[i] = "calling" /\ UNCHANGED <<caller, sem, collected>>
    BY <1>5 DEF CallReturns
  <2>3. AtWork' = AtWork /\ Ended' = Ended
    BY <1>0, <2>1, <2>2 DEF AtWork, Ended
  <2> QED BY <1>0, <2>1, <2>2, <2>3 DEF StatsTypeOK, Counts, Started
<1>6. ASSUME NEW i \in Index, Release(i) PROVE PoolInv'
  <2>1. /\ worker[i] \in {"wrote", "failed"} /\ worker' = [worker EXCEPT ![i] = "reporting"]
        /\ sem > 0 /\ sem' = sem - 1 /\ UNCHANGED <<caller, collected>>
    BY <1>6 DEF Release
  <2>2. AtWork' = AtWork \ {i} /\ i \in AtWork /\ Ended' = Ended
    BY <1>0, <2>1 DEF AtWork, Ended
  <2>3. Cardinality(AtWork \ {i}) = Cardinality(AtWork) - 1
    BY <2>2, Finite, FS_RemoveElement
  <2>4. Counts'
    BY <1>0, <2>1, <2>2, <2>3 DEF Counts
  <2> QED BY <1>0, <2>1, <2>4 DEF StatsTypeOK, Started
<1>7. ASSUME NEW i \in Index, Collect(i) PROVE PoolInv'
  <2>1. /\ worker[i] = "reporting" /\ worker' = [worker EXCEPT ![i] = "ended"]
        /\ collected < N /\ collected' = collected + 1 /\ UNCHANGED <<caller, sem>>
        /\ caller.at = "collecting"
    BY <1>7 DEF Collect
  <2>2. Ended' = Ended \cup {i} /\ i \notin Ended /\ AtWork' = AtWork
    BY <1>0, <2>1 DEF AtWork, Ended
  <2>3. Cardinality(Ended \cup {i}) = Cardinality(Ended) + 1
    BY <2>2, Finite, FS_AddElement
  <2>4. Counts'
    BY <1>0, <2>1, <2>2, <2>3 DEF Counts
  <2> QED BY <1>0, <2>1, <2>4 DEF StatsTypeOK, Started
<1> QED BY <1>1, <1>2, <1>3, <1>4, <1>5, <1>6, <1>7 DEF StatsNext

LEMMA PoolAlways == StatsSpec => []PoolInv
<1> QED BY PoolInit, PoolStep, PTL DEF StatsSpec

(* For any list and any semaphore, no more snapshots are asked for at a time  *)
(* than the semaphore has places.                                             *)
THEOREM PoolIsBounded == StatsSpec => []BoundedConcurrency
<1>1. PoolInv => BoundedConcurrency
  BY DEF PoolInv, Counts, BoundedConcurrency
<1> QED BY <1>1, PoolAlways, PTL

LEMMA PoolEnds == ASSUME PoolInv PROVE ReturnedIsQuiet
<1> SUFFICES ASSUME caller.at = "returned" PROVE \A i \in Index : worker[i] = "ended"
  BY DEF ReturnedIsQuiet
<1>1. Cardinality(Ended) = N
  BY DEF PoolInv, Started, Counts
<1>2. Ended \subseteq Index
  BY DEF Ended
<1>3. Ended = Index
  BY <1>1, <1>2, Finite, FS_Subset
<1> QED BY <1>3 DEF Ended

(* When annotateStats returns every worker has ended, so nobody writes to the *)
(* list that is handed on.                                                    *)
THEOREM QuietAfterReturn == StatsSpec => []ReturnedIsQuiet
  BY PoolEnds, PoolAlways, PTL

(* The guards of StatsNext: while annotateStats has not returned, the caller  *)
(* or one of the workers can go on. A slot is given back before the report,   *)
(* so neither side waits for the other.                                       *)
SomebodyCanGoOn ==
  \/ caller.at = "returned"
  \/ caller.at = "starting" /\ (caller.next > N \/ sem < Slots)
  \/ caller.at = "collecting" /\ collected = N
  \/ \E i \in Index : \/ worker[i] = "calling"
                      \/ worker[i] \in {"wrote", "failed"} /\ sem > 0
                      \/ worker[i] = "reporting" /\ caller.at = "collecting" /\ collected < N

THEOREM NobodyWaitsForEver == StatsSpec => []SomebodyCanGoOn
<1>1. PoolInv => SomebodyCanGoOn
  <2> SUFFICES ASSUME PoolInv, ~SomebodyCanGoOn PROVE FALSE
    OBVIOUS
  <2>0. /\ caller.at \in {"starting", "collecting", "returned"} /\ caller.next \in 1 .. N + 1
        /\ worker \in [Index -> {"none", "calling", "wrote", "failed", "reporting", "ended"}]
        /\ sem \in Nat /\ collected \in 0 .. N
    BY DEF PoolInv, StatsTypeOK
  <2>1. AtWork = {}
    <3>1. ASSUME NEW i \in AtWork PROVE FALSE
      <4>1. i \in Index /\ worker[i] \in {"wrote", "failed"} /\ sem = 0
        BY <2>0, <3>1 DEF AtWork, SomebodyCanGoOn
      <4>2. Cardinality(AtWork) # 0
        BY <3>1, Finite, FS_EmptySet
      <4> QED BY <4>1, <4>2 DEF PoolInv, Counts
    <3> QED BY <3>1
  <2>2. sem = 0
    BY <2>1, FS_EmptySet DEF PoolInv, Counts
  <2>3. caller.at = "collecting" /\ collected < N
    BY <2>0, <2>2 DEF SomebodyCanGoOn
  <2>4. caller.next = N + 1
    BY <2>3 DEF PoolInv, Started
  <2>5. ASSUME NEW i \in Index PROVE worker[i] = "ended"
    BY <2>0, <2>1, <2>3, <2>4, <2>5 DEF PoolInv, Started, AtWork, SomebodyCanGoOn, Index
  <2>6. Ended = Index
    BY <2>5 DEF Ended
  <2> QED BY <2>3, <2>6, Finite DEF PoolInv, Counts
<1> QED BY <1>1, PoolAlways, PTL

-----------------------------------------------------------------------------
(* Induction, by way of sets: the natural numbers are well-founded, so a set  *)
(* with 0 and all successors misses none of them, and a set of them that is   *)
(* not empty has a least element.                                             *)

Below == {p \in Nat \X Nat : p[1] < p[2]}

LEMMA Least ==
  ASSUME NEW T \in SUBSET Nat, T # {}
  PROVE  \E x \in T : \A y \in T : x <= y
<1>1. IsWellFoundedOn(Below, T)
  <2>1. Below = OpToRel(<, Nat)
    BY DEF OpToRel, Below
  <2> QED BY <2>1, NatLessThanWellFounded, IsWellFoundedOnSubset
<1>2. PICK x \in T : \A y \in T : <<y, x>> \notin Below
  BY <1>1, WFMin
<1>3. ASSUME NEW y \in T, ~ x <= y PROVE FALSE
  <2>1. x \in Nat /\ y \in Nat /\ y < x
    BY <1>3
  <2>2. <<y, x>> \in Below
    BY <2>1 DEF Below
  <2> QED BY <1>2, <2>2
<1> QED BY <1>3

LEMMA Induction ==
  ASSUME NEW T, 0 \in T, \A n \in Nat : n \in T => n + 1 \in T
  PROVE  Nat \subseteq T
<1> DEFINE rest == Nat \ T
<1>1. SUFFICES ASSUME rest # {} PROVE FALSE
  OBVIOUS
<1>2. PICK x \in rest : \A y \in rest : x <= y
  BY <1>1, Least
<1>3. x \in Nat /\ x - 1 \in Nat
  BY <1>2
<1> QED BY <1>2, <1>3

\* Min and Max are what they are called.
LEMMA MinIsLeast ==
  ASSUME NEW T \in SUBSET Nat, T # {}
  PROVE  Min(T) \in T /\ \A y \in T : Min(T) <= y
<1>1. \E x \in T : \A y \in T : x <= y
  BY Least
<1> QED BY <1>1 DEF Min

LEMMA MaxIsGreatest ==
  ASSUME NEW n \in Nat, NEW T \in SUBSET (0 .. n), T # {}
  PROVE  Max(T) \in T /\ \A y \in T : Max(T) >= y
<1> DEFINE R == {r \in 0 .. n : \E y \in T : r + y = n}
<1>0. \A y \in T : y \in Nat /\ y <= n
  OBVIOUS
<1>1. ASSUME NEW y \in T PROVE \E r \in R : r + y = n
  <2>1. PICK r \in 0 .. n : r + y = n
    <3>1. n - y \in 0 .. n /\ (n - y) + y = n
      BY <1>0
    <3> QED BY <3>1
  <2> QED BY <2>1
<1>2. R \subseteq Nat /\ R # {}
  <2>1. PICK y \in T : TRUE
    OBVIOUS
  <2>2. R \subseteq Nat
    OBVIOUS
  <2> HIDE DEF R
  <2>3. R # {}
    BY <1>1, <2>1
  <2> QED BY <2>2, <2>3
<1>3. PICK r \in R : \A q \in R : r <= q
  <2> HIDE DEF R
  <2> QED BY <1>2, Least
<1>4. PICK x \in T : r + x = n
  OBVIOUS
<1>5. ASSUME NEW y \in T PROVE x >= y
  <2>1. PICK q \in R : q + y = n
    BY <1>1
  <2>2. r <= q /\ q \in Nat /\ r \in Nat
    BY <1>3, <2>1
  <2> QED BY <1>0, <1>4, <2>1, <2>2
<1>6. \E z \in T : \A y \in T : z >= y
  BY <1>5
<1> QED BY <1>6 DEF Max

(* The algebra of sequences, under names the provers leave alone.             *)
Cat(p, q) == p \o q
Add(p, x) == Append(p, x)

LEMMA Algebra ==
  \A S : \A p \in Seq(S) :
    /\ Cat(p, <<>>) = p /\ Cat(<<>>, p) = p
    /\ \A x \in S : Add(p, x) \in Seq(S)
    /\ \A q \in Seq(S) :
         /\ Cat(p, q) \in Seq(S)
         /\ \A r \in Seq(S) : Cat(Cat(p, q), r) = Cat(p, Cat(q, r))
         /\ \A x \in S : Cat(p, Add(q, x)) = Add(Cat(p, q), x)
<1> SUFFICES ASSUME NEW S, NEW p \in Seq(S)
             PROVE  /\ Cat(p, <<>>) = p /\ Cat(<<>>, p) = p
                    /\ \A x \in S : Add(p, x) \in Seq(S)
                    /\ \A q \in Seq(S) :
                         /\ Cat(p, q) \in Seq(S)
                         /\ \A r \in Seq(S) : Cat(Cat(p, q), r) = Cat(p, Cat(q, r))
                         /\ \A x \in S : Cat(p, Add(q, x)) = Add(Cat(p, q), x)
  OBVIOUS
<1>1. Cat(p, <<>>) = p /\ Cat(<<>>, p) = p
  BY DEF Cat
<1>2. \A x \in S : Add(p, x) \in Seq(S)
  BY DEF Add
<1>3. \A q \in Seq(S) : Cat(p, q) \in Seq(S)
  BY DEF Cat
<1>4. \A q, r \in Seq(S) : Cat(Cat(p, q), r) = Cat(p, Cat(q, r))
  BY DEF Cat
<1>5. \A q \in Seq(S), x \in S : Cat(p, Add(q, x)) = Add(Cat(p, q), x)
  BY DEF Cat, Add
<1> QED BY <1>1, <1>2, <1>3, <1>4, <1>5

-----------------------------------------------------------------------------
(* What Scan computes.                                                        *)

\* One more character.
Turn(v, c) == IF c = "LF" THEN [lines |-> Append(v.lines, TrimCR(v.rest)), rest |-> <<>>]
              ELSE [lines |-> v.lines, rest |-> Append(v.rest, c)]

Scans(t, g) ==
  g = [n \in 0 .. Len(t) |-> IF n = 0 THEN [lines |-> <<>>, rest |-> <<>>]
                             ELSE Turn(g[n - 1], t[n])]

\* The recursion of Scan has a solution, and Scan is its last value.
LEMMA ScanScans ==
  ASSUME NEW S, NEW s \in Seq(S)
  PROVE  \E g : Scans(s, g) /\ Scan(s) = g[Len(s)]
<1> DEFINE T == {n \in Nat : \A t \in Seq(S) : Len(t) = n => \E g : Scans(t, g)}
<1>1. 0 \in T
  <2>1. \A t \in Seq(S) : Len(t) = 0 => Scans(t, [n \in 0 .. 0 |-> [lines |-> <<>>, rest |-> <<>>]])
    BY DEF Scans
  <2> QED BY <2>1
<1>2. ASSUME NEW n \in Nat, n \in T PROVE n + 1 \in T
  <2> SUFFICES ASSUME NEW t \in Seq(S), Len(t) = n + 1 PROVE \E g : Scans(t, g)
    OBVIOUS
  <2> DEFINE u == SubSeq(t, 1, n)
  <2>1. u \in Seq(S) /\ Len(u) = n /\ \A i \in 1 .. n : u[i] = t[i]
    OBVIOUS
  <2>2. PICK g : Scans(u, g)
    BY <1>2, <2>1
  <2> DEFINE h == [i \in 0 .. n + 1 |-> IF i <= n THEN g[i] ELSE Turn(g[n], t[i])]
  <2> HIDE DEF u
  <2>3. \A i \in 0 .. n : g[i] = IF i = 0 THEN [lines |-> <<>>, rest |-> <<>>]
                                 ELSE Turn(g[i - 1], t[i])
    <3>1. \A i \in 0 .. n : g[i] = IF i = 0 THEN [lines |-> <<>>, rest |-> <<>>]
                                   ELSE Turn(g[i - 1], u[i])
      BY <2>1, <2>2 DEF Scans
    <3>2. \A i \in 0 .. n : i = 0 \/ u[i] = t[i]
      BY <2>1
    <3> QED BY <3>1, <3>2
  <2>4. \A i \in 0 .. n : h[i] = g[i]
    OBVIOUS
  <2>5. \A i \in 0 .. n + 1 : h[i] = IF i = 0 THEN [lines |-> <<>>, rest |-> <<>>]
                                     ELSE Turn(h[i - 1], t[i])
    <3>1. h[n + 1] = Turn(h[n], t[n + 1])
      BY <2>4
    <3> HIDE DEF h
    <3>2. \A i \in 0 .. n : h[i] = IF i = 0 THEN [lines |-> <<>>, rest |-> <<>>]
                                   ELSE Turn(h[i - 1], t[i])
      BY <2>3, <2>4
    <3> QED BY <3>1, <3>2
  <2>6. h = [i \in 0 .. n + 1 |-> h[i]]
    OBVIOUS
  <2> HIDE DEF h
  <2>7. Scans(t, h)
    BY <2>5, <2>6 DEF Scans
  <2> QED BY <2>7
<1>3. PICK g : Scans(s, g)
  <2> HIDE DEF T
  <2>1. Nat \subseteq T
    BY <1>1, <1>2, Induction
  <2>2. Len(s) \in T
    BY <2>1
  <2> QED BY <2>2 DEF T
<1> DEFINE scan == CHOOSE h : Scans(s, h)
<1>4. Scans(s, scan)
  BY <1>3
<1>5. Scan(s) = scan[Len(s)]
  BY Zenon DEF Scan, Scans, Turn
<1> QED BY <1>4, <1>5

LEMMA ScanAppend ==
  ASSUME NEW S, NEW s \in Seq(S), NEW c \in S
  PROVE  Scan(Append(s, c)) = Turn(Scan(s), c)
<1> DEFINE t == Append(s, c)
<1>1. t \in Seq(S) /\ Len(t) = Len(s) + 1 /\ t[Len(t)] = c
      /\ \A i \in 1 .. Len(s) : t[i] = s[i]
  OBVIOUS
<1>2. PICK g : Scans(s, g) /\ Scan(s) = g[Len(s)]
  BY ScanScans
<1>3. PICK h : Scans(t, h) /\ Scan(t) = h[Len(t)]
  BY <1>1, ScanScans
<1> HIDE DEF t
<1>4. \A i \in 0 .. Len(s) : g[i] = IF i = 0 THEN [lines |-> <<>>, rest |-> <<>>]
                                    ELSE Turn(g[i - 1], s[i])
  BY <1>2 DEF Scans
<1>5. \A i \in 0 .. Len(t) : h[i] = IF i = 0 THEN [lines |-> <<>>, rest |-> <<>>]
                                    ELSE Turn(h[i - 1], t[i])
  BY <1>3 DEF Scans
<1> DEFINE T == {n \in Nat : n <= Len(s) => h[n] = g[n]}
<1>6. 0 \in T
  BY <1>1, <1>4, <1>5
<1>7. ASSUME NEW n \in Nat, n \in T PROVE n + 1 \in T
  <2> SUFFICES ASSUME n + 1 <= Len(s) PROVE h[n + 1] = g[n + 1]
    OBVIOUS
  <2>1. h[n] = g[n] /\ t[n + 1] = s[n + 1]
    BY <1>1, <1>7
  <2>2. n + 1 \in 0 .. Len(s) /\ n + 1 \in 0 .. Len(t) /\ n + 1 # 0 /\ (n + 1) - 1 = n
    BY <1>1
  <2> QED BY <1>4, <1>5, <2>1, <2>2
<1>8. h[Len(s)] = g[Len(s)]
  <2> HIDE DEF T
  <2>1. Len(s) \in T
    BY <1>6, <1>7, Induction
  <2> QED BY <2>1 DEF T
<1>9. h[Len(t)] = Turn(h[Len(s)], c)
  BY <1>1, <1>5
<1> QED BY <1>2, <1>3, <1>8, <1>9 DEF t

LEMMA ScanEmpty == Scan(<<>>) = [lines |-> <<>>, rest |-> <<>>]
<1>1. PICK g : Scans(<<>>, g) /\ Scan(<<>>) = g[Len(<<>>)]
  <2>1. <<>> \in Seq({})
    OBVIOUS
  <2> QED BY <2>1, ScanScans
<1> QED BY <1>1 DEF Scans

\* A sequence that is not empty is another one and its last element.
LEMMA LastApart ==
  ASSUME NEW S, NEW t \in Seq(S), Len(t) # 0
  PROVE  \E u \in Seq(S), x \in S : /\ t = Append(u, x) /\ Len(t) = Len(u) + 1
                                    /\ x = t[Len(t)] /\ \A i \in 1 .. Len(u) : u[i] = t[i]
<1>0. PICK n \in Nat : Len(t) = n + 1
  <2>1. Len(t) - 1 \in Nat /\ Len(t) = (Len(t) - 1) + 1
    OBVIOUS
  <2> QED BY <2>1
<1> DEFINE u == SubSeq(t, 1, n)
<1>1. u \in Seq(S) /\ Len(u) = n /\ t[n + 1] \in S /\ \A i \in 1 .. n : u[i] = t[i]
  BY <1>0
<1>2. t = Append(u, t[n + 1])
  BY <1>0
<1> HIDE DEF u
<1> QED BY <1>0, <1>1, <1>2

NoLF(u) == \A i \in 1 .. Len(u) : u[i] # "LF"

LEMMA LastChar ==
  ASSUME NEW v \in Seq(Char), Len(v) # 0, NoLF(v)
  PROVE  \E w \in Seq(Char), c \in Char : /\ v = Append(w, c) /\ Len(v) = Len(w) + 1
                                          /\ NoLF(w) /\ c # "LF"
<1>1. PICK w \in Seq(Char), c \in Char :
        /\ v = Append(w, c) /\ Len(v) = Len(w) + 1
        /\ c = v[Len(v)] /\ \A i \in 1 .. Len(w) : w[i] = v[i]
  BY LastApart
<1>2. NoLF(w) /\ c # "LF"
  BY <1>1 DEF NoLF
<1> QED BY <1>1, <1>2

\* Characters that are no line feed only make the rest longer.
LEMMA ScanRest ==
  ASSUME NEW p \in Seq(Char), NEW u \in Seq(Char), NoLF(u), Scan(p).rest = <<>>
  PROVE  Scan(Cat(p, u)) = [lines |-> Scan(p).lines, rest |-> u]
         \/ u = <<>>
<1> DEFINE T == {n \in Nat : \A v \in Seq(Char) : Len(v) = n + 1 /\ NoLF(v) =>
                   Scan(Cat(p, v)) = [lines |-> Scan(p).lines, rest |-> v]}
<1>0. ASSUME NEW v \in Seq(Char), NEW c \in Char
      PROVE  Scan(Cat(p, Add(v, c))) = Turn(Scan(Cat(p, v)), c) /\ Cat(p, v) \in Seq(Char)
  <2>1. Cat(p, v) \in Seq(Char) /\ Cat(p, Add(v, c)) = Add(Cat(p, v), c)
    BY Algebra
  <2> QED BY <2>1, ScanAppend DEF Add
<1>1. 0 \in T
  <2> SUFFICES ASSUME NEW v \in Seq(Char), Len(v) = 0 + 1, NoLF(v)
               PROVE  Scan(Cat(p, v)) = [lines |-> Scan(p).lines, rest |-> v]
    OBVIOUS
  <2>0. Len(v) # 0
    OBVIOUS
  <2>1. PICK w \in Seq(Char), c \in Char :
          v = Append(w, c) /\ Len(v) = Len(w) + 1 /\ NoLF(w) /\ c # "LF"
    BY <2>0, LastChar
  <2>2. w = <<>> /\ c # "LF"
    BY <2>1
  <2>3. Cat(p, w) = p
    BY <2>2, Algebra
  <2>4. Scan(Cat(p, v)) = Turn(Scan(p), c)
    BY <1>0, <2>1, <2>3 DEF Add
  <2> QED BY <2>1, <2>2, <2>4 DEF Turn
<1>2. ASSUME NEW n \in Nat, n \in T PROVE n + 1 \in T
  <2> SUFFICES ASSUME NEW v \in Seq(Char), Len(v) = (n + 1) + 1, NoLF(v)
               PROVE  Scan(Cat(p, v)) = [lines |-> Scan(p).lines, rest |-> v]
    OBVIOUS
  <2>0. Len(v) # 0
    OBVIOUS
  <2>1. PICK w \in Seq(Char), c \in Char :
          v = Append(w, c) /\ Len(v) = Len(w) + 1 /\ NoLF(w) /\ c # "LF"
    BY <2>0, LastChar
  <2>2. NoLF(w) /\ c # "LF"
    BY <2>1
  <2>3. Scan(Cat(p, w)) = [lines |-> Scan(p).lines, rest |-> w]
    BY <1>2, <2>1, <2>2
  <2>4. Scan(Cat(p, v)) = Turn(Scan(Cat(p, w)), c)
    BY <1>0, <2>1 DEF Add
  <2>5. Turn(Scan(Cat(p, w)), c) = [lines |-> Scan(p).lines, rest |-> Append(w, c)]
    BY <2>2, <2>3 DEF Turn
  <2> QED BY <2>1, <2>4, <2>5
<1> HIDE DEF T
<1>3. Nat \subseteq T
  BY <1>1, <1>2, Induction
<1>4. CASE u # <<>>
  <2>1. Len(u) - 1 \in Nat
    BY <1>4
  <2>2. Len(u) - 1 \in T
    BY <1>3, <2>1
  <2> QED BY <2>1, <2>2 DEF T
<1> QED BY <1>4

(* What Pick computes.                                                        *)

Picks(s, mixed, g) ==
  g = [n \in 0 .. Len(mixed) |->
        IF n = 0 THEN <<>>
        ELSE IF mixed[n].stream = s THEN Append(g[n - 1], mixed[n].line) ELSE g[n - 1]]

LEMMA PickPicks ==
  ASSUME NEW S, NEW s, NEW m \in Seq(S)
  PROVE  \E g : Picks(s, m, g) /\ Pick(s, m) = g[Len(m)]
<1> DEFINE T == {n \in Nat : \A t \in Seq(S) : Len(t) = n => \E g : Picks(s, t, g)}
<1>1. 0 \in T
  <2>1. \A t \in Seq(S) : Len(t) = 0 => Picks(s, t, [n \in 0 .. 0 |-> <<>>])
    BY DEF Picks
  <2> QED BY <2>1
<1>2. ASSUME NEW n \in Nat, n \in T PROVE n + 1 \in T
  <2> SUFFICES ASSUME NEW t \in Seq(S), Len(t) = n + 1 PROVE \E g : Picks(s, t, g)
    OBVIOUS
  <2> DEFINE u == SubSeq(t, 1, n)
  <2>1. u \in Seq(S) /\ Len(u) = n /\ \A i \in 1 .. n : u[i] = t[i]
    OBVIOUS
  <2>2. PICK g : Picks(s, u, g)
    BY <1>2, <2>1
  <2> DEFINE Next1(v, i) == IF t[i].stream = s THEN Append(v, t[i].line) ELSE v
             h == [i \in 0 .. n + 1 |-> IF i <= n THEN g[i] ELSE Next1(g[n], i)]
  <2> HIDE DEF u
  <2>3. \A i \in 0 .. n : g[i] = IF i = 0 THEN <<>> ELSE Next1(g[i - 1], i)
    <3>1. \A i \in 0 .. n : g[i] = IF i = 0 THEN <<>>
                                   ELSE IF u[i].stream = s THEN Append(g[i - 1], u[i].line)
                                   ELSE g[i - 1]
      BY <2>1, <2>2 DEF Picks
    <3>2. \A i \in 0 .. n : i = 0 \/ u[i] = t[i]
      BY <2>1
    <3> QED BY <3>1, <3>2
  <2> HIDE DEF Next1
  <2>4. \A i \in 0 .. n : h[i] = g[i]
    OBVIOUS
  <2>5. \A i \in 0 .. n + 1 : h[i] = IF i = 0 THEN <<>> ELSE Next1(h[i - 1], i)
    <3>1. h[n + 1] = Next1(h[n], n + 1)
      BY <2>4
    <3> HIDE DEF h
    <3> QED BY <2>3, <2>4, <3>1
  <2>6. h = [i \in 0 .. n + 1 |-> h[i]]
    OBVIOUS
  <2> HIDE DEF h
  <2>7. Picks(s, t, h)
    BY <2>5, <2>6 DEF Picks, Next1
  <2> QED BY <2>7
<1>3. PICK g : Picks(s, m, g)
  <2> HIDE DEF T
  <2>1. Nat \subseteq T
    BY <1>1, <1>2, Induction
  <2>2. Len(m) \in T
    BY <2>1
  <2> QED BY <2>2 DEF T
<1> DEFINE pick == CHOOSE h : Picks(s, m, h)
<1>4. Picks(s, m, pick)
  BY <1>3
<1>5. Pick(s, m) = pick[Len(m)]
  BY Zenon DEF Pick, Picks
<1> QED BY <1>4, <1>5

LEMMA PickAppend ==
  ASSUME NEW S, NEW s, NEW m \in Seq(S), NEW l \in S
  PROVE  Pick(s, Append(m, l)) = IF l.stream = s THEN Append(Pick(s, m), l.line) ELSE Pick(s, m)
<1> DEFINE t == Append(m, l)
           Next1(v, x) == IF x.stream = s THEN Append(v, x.line) ELSE v
<1>1. t \in Seq(S) /\ Len(t) = Len(m) + 1 /\ t[Len(t)] = l
      /\ \A i \in 1 .. Len(m) : t[i] = m[i]
  OBVIOUS
<1>2. PICK g : Picks(s, m, g) /\ Pick(s, m) = g[Len(m)]
  BY PickPicks
<1>3. PICK h : Picks(s, t, h) /\ Pick(s, t) = h[Len(t)]
  BY <1>1, PickPicks
<1> HIDE DEF t
<1>4. \A i \in 0 .. Len(m) : g[i] = IF i = 0 THEN <<>> ELSE Next1(g[i - 1], m[i])
  BY <1>2 DEF Picks
<1>5. \A i \in 0 .. Len(t) : h[i] = IF i = 0 THEN <<>> ELSE Next1(h[i - 1], t[i])
  BY <1>3 DEF Picks
<1> HIDE DEF Next1
<1> DEFINE T == {n \in Nat : n <= Len(m) => h[n] = g[n]}
<1>6. 0 \in T
  BY <1>1, <1>4, <1>5
<1>7. ASSUME NEW n \in Nat, n \in T PROVE n + 1 \in T
  <2> SUFFICES ASSUME n + 1 <= Len(m) PROVE h[n + 1] = g[n + 1]
    OBVIOUS
  <2>1. h[n] = g[n] /\ t[n + 1] = m[n + 1]
    BY <1>1, <1>7
  <2>2. n + 1 \in 0 .. Len(m) /\ n + 1 \in 0 .. Len(t) /\ n + 1 # 0 /\ (n + 1) - 1 = n
    BY <1>1
  <2> QED BY <1>4, <1>5, <2>1, <2>2
<1>8. h[Len(m)] = g[Len(m)]
  <2> HIDE DEF T
  <2>1. Len(m) \in T
    BY <1>6, <1>7, Induction
  <2> QED BY <2>1 DEF T
<1>9. h[Len(t)] = Next1(h[Len(m)], l)
  BY <1>1, <1>5
<1> QED BY <1>2, <1>3, <1>8, <1>9 DEF t, Next1

LEMMA PickEmpty == ASSUME NEW s PROVE Pick(s, <<>>) = <<>>
<1>1. PICK g : Picks(s, <<>>, g) /\ Pick(s, <<>>) = g[Len(<<>>)]
  <2>1. <<>> \in Seq({})
    OBVIOUS
  <2> QED BY <2>1, PickPicks
<1> QED BY <1>1 DEF Picks

-----------------------------------------------------------------------------
(* The writers.                                                               *)

Line == [stream : Stream, line : Seq(Char)]

\* A line without the carriage returns at its end is a text.
LEMMA TrimmedIsText == ASSUME NEW p \in Seq(Char) PROVE TrimCR(p) \in Seq(Char)
<1> DEFINE T == {0} \cup {i \in DOMAIN p : p[i] # "CR"}
<1>1. T \subseteq 0 .. Len(p) /\ T # {} /\ Len(p) \in Nat
  OBVIOUS
<1> HIDE DEF T
<1>2. Max(T) \in 0 .. Len(p)
  BY <1>1, MaxIsGreatest
<1>3. TrimCR(p) = SubSeq(p, 1, Max(T))
  BY DEF TrimCR, T
<1> QED BY <1>2, <1>3

\* The text of a stream is a text read to the end of a line, whose lines were
\* handed on, and the buffer.
Split(s) == \E p \in Seq(Char) : /\ text[s] = Cat(p, buf[s])
                                 /\ Scan(p) = [lines |-> Emitted(s), rest |-> <<>>]

LogInv == LogsTypeOK /\ (reader = "ended" => Quiet) /\ \A s \in Stream : Split(s)

LEMMA LogInit == LogsInit => LogInv
<1> SUFFICES ASSUME LogsInit PROVE LogInv
  OBVIOUS
<1>1. LogsTypeOK
  BY DEF LogsInit, LogsTypeOK
<1>2. Cat(<<>>, <<>>) = <<>> /\ <<>> \in Seq(Char)
  BY DEF Cat
<1>3. ASSUME NEW s \in Stream PROVE Split(s)
  <2>1. Emitted(s) = <<>> /\ text[s] = <<>> /\ buf[s] = <<>>
    BY PickEmpty DEF LogsInit, Emitted
  <2> QED BY <1>2, <2>1, ScanEmpty DEF Split
<1> QED BY <1>1, <1>3 DEF LogsInit, LogInv

LEMMA FrameIsText == Frame \subseteq Seq(Char)
<1> SUFFICES ASSUME NEW f \in Frame PROVE f \in Seq(Char)
  OBVIOUS
<1>1. PICK m \in 0 .. MaxFrame : f \in [1 .. m -> Char]
  BY DEF Frame, BoundedSeq, SeqOf
<1>2. m \in Nat
  BY LogsAssumption
<1> QED BY <1>1, <1>2

LEMMA ReceiveKeeps ==
  ASSUME LogInv, NEW s \in Stream, NEW frame \in Frame, Receive(s, frame)
  PROVE  LogInv'
<1>1. /\ frame \in Seq(Char) /\ text[s] \in Seq(Char) /\ buf[s] \in Seq(Char)
      /\ text \in [Stream -> Seq(Char)] /\ buf \in [Stream -> Seq(Char)]
  BY FrameIsText DEF LogInv, LogsTypeOK
<1>2. /\ text' = [text EXCEPT ![s] = Cat(text[s], frame)]
      /\ buf' = [buf EXCEPT ![s] = Cat(buf[s], frame)]
      /\ UNCHANGED <<reader, tty, lines>> /\ Reads(s)
  BY DEF Receive, Cat
<1>3. Cat(text[s], frame) \in Seq(Char) /\ Cat(buf[s], frame) \in Seq(Char)
  BY <1>1, Algebra
<1>4. LogsTypeOK'
  BY <1>1, <1>2, <1>3 DEF LogInv, LogsTypeOK
<1>5. reader' # "ended"
  BY <1>2 DEF Reads
<1>6. ASSUME NEW r \in Stream PROVE Split(r)'
  <2>1. PICK p \in Seq(Char) : /\ text[r] = Cat(p, buf[r])
                               /\ Scan(p) = [lines |-> Emitted(r), rest |-> <<>>]
    BY DEF LogInv, Split
  <2>2. Emitted(r)' = Emitted(r)
    BY <1>2 DEF Emitted
  <2>3. CASE r = s
    <3>1. text'[r] = Cat(Cat(p, buf[s]), frame) /\ buf'[r] = Cat(buf[s], frame)
      BY <1>1, <1>2, <2>1, <2>3
    <3>2. \A q, u \in Seq(Char) : Cat(Cat(p, q), u) = Cat(p, Cat(q, u))
      BY Algebra
    <3>3. text'[r] = Cat(p, buf'[r])
      BY <1>1, <3>1, <3>2
    <3> QED BY <2>1, <2>2, <3>3 DEF Split
  <2>4. CASE r # s
    <3>1. text'[r] = text[r] /\ buf'[r] = buf[r]
      BY <1>1, <1>2, <2>4
    <3> QED BY <2>1, <2>2, <3>1 DEF Split
  <2> QED BY <2>3, <2>4
<1> QED BY <1>4, <1>5, <1>6 DEF LogInv

Feeds(b) == {i \in DOMAIN b : b[i] = "LF"}

\* The first line of a text.
LEMMA FirstLine ==
  ASSUME NEW b \in Seq(Char), Feeds(b) # {}
  PROVE  \E u, v \in Seq(Char) :
           /\ SubSeq(b, 1, Min(Feeds(b)) - 1) = u /\ SubSeq(b, Min(Feeds(b)) + 1, Len(b)) = v
           /\ NoLF(u) /\ b = Cat(Add(u, "LF"), v)
<1> DEFINE F == Feeds(b)
           lf == Min(F)
<1> USE DEF Feeds
<1>1. F \subseteq 1 .. Len(b) /\ Len(b) \in Nat /\ F \subseteq Nat /\ F # {}
  OBVIOUS
<1>2. lf \in F /\ \A i \in F : lf <= i
  <2> HIDE DEF F
  <2> QED BY <1>1, MinIsLeast
<1> HIDE DEF lf
<1>3. PICK k \in 1 .. Len(b) : k = lf /\ b[k] = "LF"
  BY <1>1, <1>2
<1> DEFINE u == SubSeq(b, 1, k - 1)
           v == SubSeq(b, k + 1, Len(b))
<1>4. u \in Seq(Char) /\ Len(u) = k - 1 /\ \A i \in 1 .. k - 1 : u[i] = b[i]
  OBVIOUS
<1>5. v \in Seq(Char)
  OBVIOUS
<1>6. NoLF(u)
  <2> HIDE DEF u
  <2> SUFFICES ASSUME NEW i \in 1 .. Len(u), b[i] = "LF" PROVE FALSE
    BY <1>4 DEF NoLF
  <2>1. i \in F /\ i \in Int /\ i < k
    BY <1>4
  <2>2. lf <= i
    BY <1>2, <2>1
  <2> QED BY <1>3, <2>1, <2>2
<1>7. b = Cat(Add(u, "LF"), v)
  <2>1. SubSeq(b, 1, k) = SubSeq(b, 1, k - 1) \o <<b[k]>>
    <3>1. 1 \in 1 .. Len(b) /\ k \in 1 .. Len(b)
      OBVIOUS
    <3> QED BY <3>1, SubSeqRecursiveSecond
  <2>2. SubSeq(b, 1, k) \o SubSeq(b, k + 1, Len(b)) = SubSeq(b, 1, Len(b))
    <3>1. /\ 1 \in 1 .. Len(b) + 1 /\ k \in 1 - 1 .. Len(b) /\ Len(b) \in k .. Len(b)
      BY <1>1
    <3> QED BY <3>1, ConcatAdjacentSubSeq
  <2>3. SubSeq(b, 1, Len(b)) = b
    BY SubSeqFull
  <2>4. u \o <<"LF">> = Append(u, "LF")
    <3> HIDE DEF u
    <3> QED BY <1>4, LogsAssumption
  <2> QED BY <1>3, <2>1, <2>2, <2>3, <2>4 DEF Cat, Add
<1> QED BY <1>3, <1>4, <1>5, <1>6, <1>7 DEF lf

LEMMA EmitKeeps ==
  ASSUME LogInv, NEW s \in Stream, EmitLine(s)
  PROVE  LogInv'
<1>1. /\ text[s] \in Seq(Char) /\ buf[s] \in Seq(Char)
      /\ text \in [Stream -> Seq(Char)] /\ buf \in [Stream -> Seq(Char)]
      /\ lines \in Seq(Line)
  BY DEF LogInv, LogsTypeOK, Line
<1>2. PICK lf : lf = Min(Feeds(buf[s])) /\ Feeds(buf[s]) # {}
  BY DEF EmitLine, HasLine, Feeds
<1>5. PICK u, v \in Seq(Char) :
        /\ SubSeq(buf[s], 1, lf - 1) = u /\ SubSeq(buf[s], lf + 1, Len(buf[s])) = v
        /\ NoLF(u) /\ buf[s] = Cat(Add(u, "LF"), v)
  BY <1>1, <1>2, FirstLine
<1>6. PICK l : l = [stream |-> s, line |-> TrimCR(u)]
  OBVIOUS
<1>7. l \in Line
  BY <1>5, <1>6, TrimmedIsText DEF Line
<1>8. /\ lines' = Append(lines, l)
      /\ buf' = [buf EXCEPT ![s] = v]
      /\ UNCHANGED <<reader, tty, text>>
  BY <1>2, <1>5, <1>6 DEF EmitLine, Feeds
<1>9. LogsTypeOK'
  BY <1>1, <1>7, <1>8 DEF LogInv, LogsTypeOK, Line
<1>10. reader' # "ended"
  BY <1>8 DEF LogInv, EmitLine, Quiet
<1>11. ASSUME NEW r \in Stream PROVE Split(r)'
  <2>1. PICK p \in Seq(Char) : /\ text[r] = Cat(p, buf[r])
                               /\ Scan(p) = [lines |-> Emitted(r), rest |-> <<>>]
    BY DEF LogInv, Split
  <2>2. Emitted(r)' = IF r = s THEN Append(Emitted(r), TrimCR(u)) ELSE Emitted(r)
    <3>1. Emitted(r)' = Pick(r, Append(lines, l))
      BY <1>8 DEF Emitted
    <3>2. Pick(r, Append(lines, l))
            = IF l.stream = r THEN Append(Pick(r, lines), l.line) ELSE Pick(r, lines)
      BY <1>1, <1>7, PickAppend
    <3> QED BY <1>6, <3>1, <3>2 DEF Emitted
  <2>3. CASE r = s
    <3>1. Cat(p, u) \in Seq(Char) /\ Scan(Cat(p, u)) = [lines |-> Emitted(r), rest |-> u]
      <4>1. Cat(p, u) \in Seq(Char) /\ Cat(p, <<>>) = p
        BY <1>5, <2>1, Algebra
      <4>2. Scan(p).rest = <<>> /\ Scan(p).lines = Emitted(r)
        BY <2>1
      <4>3. Scan(Cat(p, u)) = [lines |-> Scan(p).lines, rest |-> u] \/ u = <<>>
        BY <1>5, <2>1, <4>2, ScanRest
      <4> QED BY <2>1, <4>1, <4>2, <4>3
    <3> DEFINE q == Add(Cat(p, u), "LF")
    <3>2. q \in Seq(Char)
      BY <3>1, LogsAssumption DEF Add
    <3>3. Scan(q) = [lines |-> Append(Emitted(r), TrimCR(u)), rest |-> <<>>]
      <4>1. Scan(q) = Turn(Scan(Cat(p, u)), "LF")
        BY <3>1, LogsAssumption, ScanAppend DEF Add
      <4> QED BY <3>1, <4>1 DEF Turn
    <3>4. text[r] = Cat(q, v)
      <4>1. text[r] = Cat(p, Cat(Add(u, "LF"), v))
        BY <1>5, <2>1, <2>3
      <4>2. Add(u, "LF") \in Seq(Char)
        BY <1>5, LogsAssumption DEF Add
      <4>3. \A a, b \in Seq(Char) : Cat(Cat(p, a), b) = Cat(p, Cat(a, b))
        BY <2>1, Algebra
      <4>4. \A a \in Seq(Char), c \in Char : Cat(p, Add(a, c)) = Add(Cat(p, a), c)
        BY <2>1, Algebra
      <4>5. Cat(p, Cat(Add(u, "LF"), v)) = Cat(Cat(p, Add(u, "LF")), v)
        BY <1>5, <4>2, <4>3
      <4>6. Cat(p, Add(u, "LF")) = q
        BY <1>5, <4>4, LogsAssumption
      <4> QED BY <4>1, <4>5, <4>6
    <3>5. text'[r] = text[r] /\ buf'[r] = v
      BY <1>1, <1>8, <2>3
    <3> HIDE DEF q
    <3> QED BY <2>2, <2>3, <3>2, <3>3, <3>4, <3>5 DEF Split
  <2>4. CASE r # s
    <3>1. text'[r] = text[r] /\ buf'[r] = buf[r]
      BY <1>1, <1>8, <2>4
    <3> QED BY <2>1, <2>2, <2>4, <3>1 DEF Split
  <2> QED BY <2>3, <2>4
<1> QED BY <1>9, <1>10, <1>11 DEF LogInv

LEMMA LogStep == LogInv /\ [LogsNext]_logVars => LogInv'
<1> SUFFICES ASSUME LogInv, [LogsNext]_logVars PROVE LogInv'
  OBVIOUS
<1>1. CASE UNCHANGED logVars
  BY <1>1 DEF logVars, LogInv, LogsTypeOK, Quiet, HasLine, Split, Emitted
<1>2. CASE OpenLogs \/ EndLogs
  <2>1. /\ UNCHANGED <<tty, text, buf, lines>>
        /\ reader' \in {"tty", "multiplexed", "ended", "failed"}
        /\ reader' = "ended" => Quiet
    BY <1>2 DEF OpenLogs, EndLogs
  <2> QED BY <2>1 DEF LogInv, LogsTypeOK, Quiet, HasLine, Split, Emitted
<1> QED BY <1>1, <1>2, ReceiveKeeps, EmitKeeps DEF LogsNext

\* With no line feed in the buffers, the lines handed on are those of the text.
LEMMA QuietIsRead == ASSUME LogInv PROVE FramingIsInvisible
<1> SUFFICES ASSUME Quiet, NEW s \in Stream PROVE Emitted(s) = LinesOf(s)
  BY DEF FramingIsInvisible
<1>1. PICK p \in Seq(Char) : /\ text[s] = Cat(p, buf[s])
                             /\ Scan(p) = [lines |-> Emitted(s), rest |-> <<>>]
  BY DEF LogInv, Split
<1>2. buf[s] \in Seq(Char)
  BY DEF LogInv, LogsTypeOK
<1>3. NoLF(buf[s])
  BY <1>2 DEF Quiet, HasLine, NoLF
<1>4. Scan(p).rest = <<>> /\ Scan(p).lines = Emitted(s)
  BY <1>1
<1>5. Scan(Cat(p, buf[s])) = [lines |-> Scan(p).lines, rest |-> buf[s]] \/ buf[s] = <<>>
  BY <1>1, <1>2, <1>3, <1>4, ScanRest
<1>6. Cat(p, <<>>) = p
  BY <1>1, Algebra
<1> QED BY <1>1, <1>4, <1>5, <1>6 DEF LinesOf

-----------------------------------------------------------------------------
(* The requests.                                                              *)

ManagerTypeOK ==
  /\ daemon \in BOOLEAN /\ manager \in BOOLEAN /\ done \in BOOLEAN
  /\ retry \in [at : {"off", "waiting"}, left : 0 .. Attempts]
  /\ request \in [at : Kinds \cup {"none"}, kind : Kinds]
  /\ answer \in {0, 200, 204, 500, 503}

\* A request in progress has no answer yet; a list and a log that were answered
\* with success are complete.
Talk == /\ request.at # "none" => answer = 0 /\ request.kind = request.at
        /\ answer \in {200, 204} => done = TRUE
        /\ answer = 503 => done = FALSE
        /\ answer = 200 /\ request.kind = "list" => caller.at = "returned"
        /\ answer = 200 /\ request.kind = "logs" => reader = "ended"

DockerInv == PoolInv /\ LogInv /\ ManagerTypeOK /\ Talk

LEMMA FreshRequest == StatsInit' /\ LogsInit' => PoolInv' /\ LogInv'
<1>1. StatsInit /\ LogsInit => PoolInv /\ LogInv
  BY PoolInit, LogInit
<1> QED BY <1>1, PTL

LEMMA DockerInit == Init => DockerInv
<1> SUFFICES ASSUME Init PROVE DockerInv
  OBVIOUS
<1>1. PoolInv /\ LogInv
  BY PoolInit, LogInit DEF Init
<1>2. daemon \in BOOLEAN /\ manager \in BOOLEAN /\ done \in BOOLEAN
  <2>1. FALSE \in BOOLEAN /\ \A x \in BOOLEAN : {FALSE, x} \subseteq BOOLEAN
    OBVIOUS
  <2> QED BY Zenon, <2>1 DEF Init
<1>3. /\ retry \in [at : {"off", "waiting"}, left : 0 .. Attempts]
      /\ request \in [at : Kinds \cup {"none"}, kind : Kinds] /\ answer = 0
      /\ request.at = "none"
  BY DockerAssumption DEF Init, Kinds
<1>4. Talk
  BY <1>3 DEF Talk
<1> QED BY <1>1, <1>2, <1>3, <1>4 DEF DockerInv, ManagerTypeOK

LEMMA BeginKeeps == ASSUME DockerInv, NEW kind \in Kinds, Begin(kind) PROVE DockerInv'
<1>1. StatsInit' /\ LogsInit'
  BY DEF Begin, StatsInit, LogsInit
<1>2. PoolInv' /\ LogInv'
  BY <1>1, FreshRequest
<1>3. /\ request' = [at |-> IF manager THEN kind ELSE "none", kind |-> kind]
      /\ answer' = (IF manager THEN 0 ELSE 503) /\ done' = FALSE
      /\ daemon' = daemon /\ manager' = manager /\ retry' = retry
  BY DEF Begin, connVars
<1>4. ManagerTypeOK'
  <2>1. daemon' \in BOOLEAN /\ manager' \in BOOLEAN /\ done' \in BOOLEAN
    BY Zenon, <1>3 DEF DockerInv, ManagerTypeOK
  <2>2. retry' \in [at : {"off", "waiting"}, left : 0 .. Attempts]
    BY <1>3 DEF DockerInv, ManagerTypeOK
  <2>3. request' \in [at : Kinds \cup {"none"}, kind : Kinds] /\ answer' \in {0, 503}
    BY <1>3
  <2> QED BY <2>1, <2>2, <2>3 DEF ManagerTypeOK
<1>5. Talk'
  BY <1>3 DEF DockerInv, ManagerTypeOK, Talk, Kinds
<1> QED BY <1>2, <1>4, <1>5 DEF DockerInv

LEMMA ConnectionKeeps ==
  ASSUME DockerInv, DaemonTurns \/ RetryPing \/ RetryCancelled PROVE DockerInv'
<1>1. UNCHANGED <<statsVars, logVars, request, done, answer>>
  BY DEF DaemonTurns, RetryPing, RetryCancelled
<1>2. PoolInv' /\ LogInv'
  BY <1>1, PoolStep, LogStep DEF DockerInv
<1>3. Talk'
  BY <1>1 DEF DockerInv, Talk, statsVars, logVars
<1>4. ManagerTypeOK'
  <2>1. /\ daemon \in BOOLEAN /\ manager \in BOOLEAN
        /\ retry \in [at : {"off", "waiting"}, left : 0 .. Attempts]
    BY DEF DockerInv, ManagerTypeOK
  <2>2. daemon' \in BOOLEAN /\ manager' \in BOOLEAN
    BY <2>1 DEF DaemonTurns, RetryPing, RetryCancelled
  <2>3. retry' \in [at : {"off", "waiting"}, left : 0 .. Attempts]
    BY <2>1, DockerAssumption DEF DaemonTurns, RetryPing, RetryCancelled
  <2> QED BY <1>1, <2>2, <2>3 DEF DockerInv, ManagerTypeOK
<1> QED BY <1>2, <1>3, <1>4 DEF DockerInv

LEMMA RequestKeeps ==
  ASSUME DockerInv, ListStep \/ LogsStep \/ DaemonActs \/ ActEnds PROVE DockerInv'
<1>1. /\ daemon' = daemon /\ manager' = manager /\ retry' = retry
      /\ \/ request' = request /\ answer' = answer
         \/ request' = [request EXCEPT !.at = "none"] /\ answer' \in {200, 204, 500}
      /\ done' \in {done, TRUE}
  <2>1. CASE ListStep
    BY <2>1 DEF ListStep, Finish, connVars
  <2>2. CASE LogsStep
    BY <2>2 DEF LogsStep, Finish, connVars
  <2>3. CASE DaemonActs \/ ActEnds
    BY <2>3 DEF DaemonActs, ActEnds, Finish, connVars
  <2> QED BY <2>1, <2>2, <2>3
<1>2. ManagerTypeOK'
  <2>1. daemon' \in BOOLEAN /\ manager' \in BOOLEAN /\ done' \in BOOLEAN
    <3>1. daemon' \in BOOLEAN /\ manager' \in BOOLEAN /\ done \in BOOLEAN
      BY Zenon, <1>1 DEF DockerInv, ManagerTypeOK
    <3>2. done' = done \/ done' = TRUE
      BY Zenon, <1>1
    <3>3. done' \in BOOLEAN
      BY Zenon, <3>1, <3>2
    <3> QED BY <3>1, <3>3
  <2>2. /\ retry' \in [at : {"off", "waiting"}, left : 0 .. Attempts]
        /\ request' \in [at : Kinds \cup {"none"}, kind : Kinds]
        /\ answer' \in {0, 200, 204, 500, 503}
    BY <1>1 DEF DockerInv, ManagerTypeOK
  <2> QED BY <2>1, <2>2 DEF ManagerTypeOK
<1>3. PoolInv'
  <2>1. [StatsNext]_statsVars
    BY DEF ListStep, LogsStep, DaemonActs, ActEnds
  <2> QED BY <2>1, PoolStep DEF DockerInv
<1>4. LogInv'
  <2>1. [LogsNext]_logVars
    BY DEF ListStep, LogsStep, DaemonActs, ActEnds
  <2> QED BY <2>1, LogStep DEF DockerInv
<1>5. request.at # "none"
  BY DEF ListStep, LogsStep, DaemonActs, ActEnds
<1>6. answer = 0 /\ request.kind = request.at
  BY <1>5 DEF DockerInv, Talk
<1>7. request \in [at : Kinds \cup {"none"}, kind : Kinds] /\ done \in BOOLEAN
  BY DEF DockerInv, ManagerTypeOK
<1>8. Talk'
  <2>1. CASE request' = request /\ answer' = answer
    BY <1>6, <2>1 DEF Talk
  <2>2. CASE /\ request.at = "list" /\ request' = [request EXCEPT !.at = "none"]
             /\ \/ caller.at = "returned" /\ answer' = 200 /\ done' = TRUE
                \/ answer' = 500
             /\ caller' = caller
    BY <1>6, <1>7, <2>2 DEF Talk
  <2>3. CASE /\ request.at = "logs" /\ request' = [request EXCEPT !.at = "none"]
             /\ \/ reader = "ended" /\ answer' = 200 /\ done' = TRUE
                \/ answer' = 500
             /\ reader' = reader
    BY <1>6, <1>7, <2>3 DEF Talk
  <2>4. CASE /\ request' = [request EXCEPT !.at = "none"]
             /\ answer' = 500 \/ (answer' = 204 /\ done' = TRUE)
    BY <1>6, <1>7, <2>4 DEF Talk
  <2>5. CASE ListStep
    <3>1. CASE StatsNext /\ UNCHANGED <<request, done, answer>>
      BY <2>1, <3>1
    <3>2. CASE caller.at = "returned" /\ Finish(200) /\ done' = TRUE /\ UNCHANGED statsVars
      BY <2>2, <2>5, <3>2 DEF ListStep, Finish, statsVars
    <3>3. CASE Finish(500) /\ UNCHANGED <<statsVars, done>>
      BY <2>2, <2>5, <3>3 DEF ListStep, Finish, statsVars
    <3> QED BY <2>5, <3>1, <3>2, <3>3 DEF ListStep
  <2>6. CASE LogsStep
    <3>1. CASE LogsNext /\ UNCHANGED <<request, done, answer>>
      BY <2>1, <3>1
    <3>2. CASE reader = "ended" /\ Finish(200) /\ done' = TRUE /\ UNCHANGED logVars
      BY <2>3, <2>6, <3>2 DEF LogsStep, Finish, logVars
    <3>3. CASE Finish(500) /\ UNCHANGED <<logVars, done>>
      BY <2>3, <2>6, <3>3 DEF LogsStep, Finish, logVars
    <3> QED BY <2>6, <3>1, <3>2, <3>3 DEF LogsStep
  <2>7. CASE DaemonActs
    BY <2>1, <2>7 DEF DaemonActs
  <2>8. CASE ActEnds
    <3>1. CASE Finish(500)
      BY <2>4, <3>1 DEF Finish
    <3>2. CASE done /\ Finish(204) /\ UNCHANGED done
      <4>1. done' = TRUE
        <5>1. done = TRUE
          BY Zenon, <1>7, <3>2
        <5> QED BY <3>2, <5>1
      <4> QED BY <2>4, <3>2, <4>1 DEF Finish
    <3> QED BY <2>8, <3>1, <3>2 DEF ActEnds
  <2> QED BY <2>5, <2>6, <2>7, <2>8
<1> QED BY <1>2, <1>3, <1>4, <1>8 DEF DockerInv

LEMMA DockerAlways == Spec => []DockerInv
<1>1. ASSUME DockerInv, [Next]_vars PROVE DockerInv'
  <2>1. CASE UNCHANGED vars
    <3>1. /\ UNCHANGED statsVars /\ UNCHANGED logVars
          /\ daemon' = daemon /\ manager' = manager /\ retry' = retry
          /\ request' = request /\ done' = done /\ answer' = answer
      BY <2>1 DEF vars, connVars
    <3>2. PoolInv' /\ LogInv'
      BY <1>1, <3>1, PoolStep, LogStep DEF DockerInv
    <3>3. caller' = caller /\ reader' = reader
      BY <3>1 DEF statsVars, logVars
    <3>4. Talk'
      <4>1. Talk
        BY <1>1 DEF DockerInv
      <4> QED BY <3>1, <3>3, <4>1 DEF Talk
    <3>5. ManagerTypeOK'
      <4>1. ManagerTypeOK
        BY <1>1 DEF DockerInv
      <4> QED BY <3>1, <4>1 DEF ManagerTypeOK
    <3> QED BY <3>2, <3>4, <3>5 DEF DockerInv
  <2> QED BY <1>1, <2>1, BeginKeeps, ConnectionKeeps, RequestKeeps DEF Next
<1> QED BY <1>1, DockerInit, PTL DEF Spec

(* The lines handed on are the lines of what each stream sent, however the    *)
(* daemon cut it into frames and mixed the streams (docker.go:282-353).       *)
THEOREM FramesDoNotShow == Spec => []FramingIsInvisible
<1>1. DockerInv => FramingIsInvisible
  BY QuietIsRead DEF DockerInv
<1> QED BY <1>1, DockerAlways, PTL

(* Every state has the types of TypeOK: the requests and retries, the pool,   *)
(* the texts, and lines that are texts again.                                 *)
THEOREM DockerTypes == Spec => []TypeOK
<1>1. DockerInv => TypeOK
  BY DEF DockerInv, PoolInv, LogInv, ManagerTypeOK, TypeOK
<1> QED BY <1>1, DockerAlways, PTL

(* The pool keeps its promise under the requests too: each of them starts it  *)
(* afresh, and only a list lets it run (docker.go:161-242).                   *)
THEOREM ListsAreQuiet == Spec => []ReturnedIsQuiet
<1>1. DockerInv => ReturnedIsQuiet
  BY PoolEnds DEF DockerInv
<1> QED BY <1>1, DockerAlways, PTL

(* A success is answered only after the daemon did what was asked: a list     *)
(* with every worker gone, logs read to the end with the lines of the text,   *)
(* and "unavailable" only without asking (docker.go:161-430,                  *)
(* server.go:334-344, handlers.go:257-411).                                   *)
THEOREM AnswersTellTheTruth == Spec => []AnswersAreTrue
<1>1. ASSUME DockerInv PROVE AnswersAreTrue
  <2>1. ReturnedIsQuiet
    BY <1>1, PoolEnds DEF DockerInv
  <2>2. Quiet => \A s \in Stream : Emitted(s) = LinesOf(s)
    BY <1>1, QuietIsRead DEF DockerInv, FramingIsInvisible
  <2>3. Talk /\ (reader = "ended" => Quiet)
    BY <1>1 DEF DockerInv, LogInv
  <2> QED BY <2>1, <2>2, <2>3 DEF AnswersAreTrue, Talk, ReturnedIsQuiet
<1> QED BY <1>1, DockerAlways, PTL
=============================================================================
