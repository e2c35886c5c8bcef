------------------------------ MODULE FilesProof ------------------------------
(***************************************************************************)
(* For any tree, names, requests and disk: what requests that run at once    *)
(* never do to it. Uploads appear whole, downloads are of one version,       *)
(* temporary files have an owner, a search finds what stays, and nothing     *)
(* changes outside the paths of a request.                                   *)
(*                                                                           *)
(* All of it follows from IInv: the tree is one of directories (Rooted),     *)
(* every handler is where its record says (Requests), temporary files are    *)
(* where their requests put them (Owned), a writer has its inode for itself  *)
(* and a reader one that nobody changes (Content), and a search has found    *)
(* what stays or has a directory above it in its list (Searching).           *)
(***************************************************************************)
EXTENDS Files, FiniteSetTheorems, SequenceTheorems, TLAPS

Names == Name \cup Request
Paths == Seq(Names)

(* The requests that have made their temporary file: only their names occur   *)
(* in the tree beside those of Name.                                          *)
SpentStates == {"fill", "replace", "clean", "ended"}
Spent == {r \in Request : req[r].at \in SpentStates}
Known == Seq(Name \cup Spent)

(* The tree: what is above a path is a directory.                             *)
IsTree(f) == /\ IsFiniteSet(DOMAIN f) /\ f \in [DOMAIN f -> 0 .. MaxInode] /\ DOMAIN f \subseteq Paths
             /\ \A p \in DOMAIN f : \A q \in PathsTo(p) : q # p => q \in DOMAIN f /\ f[q] = Dir
Rooted == IsTree(tree) /\ Path \subseteq Known

Chunk == (Request \cup {"original", "hole"}) \X Nat
Items == [from : Paths, to : Paths, dir : BOOLEAN]
States == {"new", "begun", "create", "fill", "replace", "clean", "open", "reading", "answered", "move",
           "remove", "empty", "copying", "listing", "target", "pour", "ended"}
Record == [at : States, kind : {op.kind : op \in Operation} \cup {"none"},
           from : Seq(Name), to : Seq(Name), in : 0 .. MaxInode, out : 0 .. MaxInode, done : Nat,
           got : Seq(Chunk) \cup Seq(Paths), todo : Seq(Paths) \cup Seq(Items), stays : SUBSET Paths, moved : BOOLEAN]

CopyStates == {"copying", "listing", "target", "pour"}
Copies(r) == req[r].at \in CopyStates
Writes(r) == req[r].at \in {"fill", "replace"}
Shape(x, names) ==
  /\ x.at \in {"create", "fill", "replace", "clean"} => x.kind = "write"
  /\ x.at = "move" => x.kind = "rename"
  /\ x.at = "open" => x.kind = "read"
  /\ x.at \in {"begun", "create", "open"} => x.done = 0 /\ (x.kind # "search" => x.got = <<>>)
  /\ x.at \in {"remove", "empty"} => x.kind \in {"delete", "deleteAll"}
  /\ x.at = "begun" => x.todo \in Seq(Paths) /\ x.got \in Seq(Paths)
  /\ x.at = "reading" => x.kind = "read" /\ x.got \in Seq(Chunk)
  /\ x.at \in CopyStates =>
       /\ x.kind = "copy" /\ x.todo \in Seq(Items)
       /\ \A n \in DOMAIN x.todo : x.todo[n].to \in names /\ Under(x.todo[n].to, x.to)
       /\ x.at # "copying" => x.todo # <<>>
Requests == /\ req \in [Request -> Record]
            /\ \A r \in Request : Shape(req[r], Known)

(* Before anything unusual, temporary files are where their requests put them. *)
Temporary == {"fill", "replace", "clean"}
CopiesNames(r) == Copies(r) => /\ req[r].at # "listing"
                               /\ \A n \in DOMAIN req[r].todo : req[r].todo[n].to \in Seq(Name)
Owned == unusual = {} =>
  /\ \A p \in Path : \/ p \in Seq(Name)
                     \/ \E r \in Request : req[r].at \in Temporary /\ p = Temp(r) /\ IsFile(p)
  /\ \A r \in Request : CopiesNames(r)

(* What is in the files: a writer has its inode for itself, under its own name *)
(* wherever that is, and a reader one that nobody changes, but for copies.    *)
Begun(r, n) == [k \in 1 .. n |-> <<r, k>>]
Store == /\ data \in [1 .. MaxInode -> Seq(Chunk)] /\ inPlace \subseteq 1 .. MaxInode
         /\ IsFile(<<>>) => tree[<<>>] \in inPlace
NamedIsWhole == \A p \in Path :
  IsFile(p) /\ p # <<>> /\ Last(p) \in Name /\ tree[p] \notin inPlace => Whole(data[tree[p]])
Writer(r) == Writes(r) =>
  /\ req[r].out # 0 /\ req[r].done <= Chunks /\ (req[r].at = "replace" => req[r].done = Chunks)
  /\ req[r].out \in inPlace \/ data[req[r].out] = Begun(r, req[r].done)
  /\ \A p \in Path : tree[p] = req[r].out /\ tree[p] \notin inPlace => p # <<>> /\ Last(p) = r
  /\ \A p \in Path : IsFile(p) /\ p # <<>> /\ Last(p) = r => tree[p] = req[r].out \/ tree[p] \in inPlace
  /\ \A q \in Request : Writes(q) /\ q # r => req[q].out # req[r].out
Copier(r) == /\ req[r].at = "pour" => req[r].out \in inPlace
             /\ req[r].at \in {"pour", "target"} => req[r].in # 0
Reader(r) ==
  /\ req[r].at = "reading" =>
       /\ req[r].in # 0
       /\ \/ req[r].in \in inPlace
          \/ /\ Whole(data[req[r].in]) /\ req[r].done <= Len(data[req[r].in])
             /\ req[r].got = SubSeq(data[req[r].in], 1, req[r].done)
             /\ \A q \in Request : Writes(q) => req[q].out # req[r].in
  /\ req[r].at = "answered" /\ req[r].kind = "read" /\ req[r].in \notin inPlace => Whole(req[r].got)
Content == Store /\ NamedIsWhole /\ \A r \in Request : Writer(r) /\ Copier(r) /\ Reader(r)

(* A search has found what stays, or has still to look at what is above it.   *)
Finds(x, p) == \E n \in DOMAIN x.got : x.got[n] = p
WillFind(x, p) == \E n \in DOMAIN x.todo : Under(p, x.todo[n]) /\ p # x.todo[n]
Searches(x) == x.at = "begun" /\ x.kind = "search" =>
  \A p \in x.stays : p # <<>> /\ p \in Seq(Name \ Hidden) => Finds(x, p) \/ WillFind(x, p)
Found(x) == x.at = "answered" /\ x.kind \in {"search", "list"} =>
  \A p \in x.stays : (/\ p # <<>> /\ p \in Seq(Name \ Hidden)
                       /\ (x.kind = "search" \/ DirOf(p) = x.from)) => Finds(x, p)
Searching == \A r \in Request : Searches(req[r]) /\ Found(req[r])

IInv == Rooted /\ Requests /\ Owned /\ Content /\ Searching

-----------------------------------------------------------------------------
(* Paths: what is above a path, what is below, and what is left of it.        *)
Cat(p, q) == p \o q
Rest(p, a) == SubSeq(p, Len(a) + 1, Len(p))

LEMMA UnderMeans ==
  ASSUME NEW p \in Paths, NEW q \in Paths
  PROVE  Under(p, q) <=> Len(q) <= Len(p) /\ \A i \in 1 .. Len(q) : p[i] = q[i]
<1>1. SubSeq(q, 1, Len(q)) = q
  BY SubSeqFull DEF Paths
<1>2. CASE Len(q) <= Len(p)
  <2> DEFINE s == SubSeq(p, 1, Len(q))
  <2>1. \A i \in 1 .. Len(q) : p[i] \in Names
    BY <1>2, ElementOfSeq DEF Paths
  <2>2. Len(q) \in Nat
    BY DEF Paths
  <2>3. s \in Paths /\ Len(s) = Len(q) /\ \A i \in 1 .. Len(q) : s[i] = p[i]
    BY <2>1, <2>2, SubSeqProperties DEF Paths
  <2> HIDE DEF s
  <2>4. q = s <=> \A i \in 1 .. Len(q) : p[i] = q[i]
    BY <2>3, SeqEqual DEF Paths
  <2> QED BY <1>1, <1>2, <2>4 DEF Under, IsPrefix, s
<1>3. CASE ~(Len(q) <= Len(p))
  BY <1>3 DEF Under, IsPrefix
<1> QED BY <1>2, <1>3

LEMMA RootAbove == <<>> \in Paths /\ \A p \in Paths : Under(p, <<>>)
<1>1. <<>> \in Paths /\ Len(<<>>) = 0
  BY EmptySeq DEF Paths
<1>2. \A p \in Paths : Len(p) \in Nat
  BY DEF Paths
<1> QED BY <1>1, <1>2, UnderMeans

LEMMA UnderItself == ASSUME NEW p \in Paths PROVE Under(p, p)
  BY UnderMeans DEF Paths

LEMMA UnderTransitive ==
  ASSUME NEW p \in Paths, NEW q \in Paths, NEW a \in Paths, Under(p, q), Under(q, a)
  PROVE  Under(p, a)
<1>1. Len(p) \in Nat /\ Len(q) \in Nat /\ Len(a) \in Nat
  BY DEF Paths
<1> QED BY <1>1, UnderMeans

LEMMA UnderBoth ==
  ASSUME NEW p \in Paths, NEW q \in Paths, Under(p, q), Under(q, p)
  PROVE  p = q
<1>1. Len(p) \in Nat /\ Len(q) \in Nat
  BY DEF Paths
<1>2. Len(p) = Len(q) /\ \A i \in 1 .. Len(p) : p[i] = q[i]
  BY <1>1, UnderMeans
<1> QED BY <1>2, SeqEqual DEF Paths

LEMMA UnderOneAnother ==
  ASSUME NEW p \in Paths, NEW q \in Paths, NEW a \in Paths, Under(p, q), Under(p, a)
  PROVE  Under(q, a) \/ Under(a, q)
<1>1. Len(p) \in Nat /\ Len(q) \in Nat /\ Len(a) \in Nat
  BY DEF Paths
<1> QED BY <1>1, UnderMeans

LEMMA DirFacts ==
  ASSUME NEW S, NEW p \in Seq(S)
  PROVE  /\ DirOf(p) \in Seq(S)
         /\ p = <<>> => DirOf(p) = <<>>
         /\ p # <<>> => /\ Len(p) \in Nat \ {0} /\ Last(p) \in S
                        /\ Len(DirOf(p)) = Len(p) - 1
                        /\ \A i \in 1 .. Len(p) - 1 : DirOf(p)[i] = p[i]
<1>1. CASE p = <<>>
  BY <1>1 DEF DirOf
<1>2. CASE p # <<>>
  <2>1. Len(p) \in Nat \ {0}
    BY <1>2, EmptySeq
  <2>2. \A i \in 1 .. Len(p) : p[i] \in S
    BY ElementOfSeq
  <2>3. \A i \in 1 .. Len(p) - 1 : p[i] \in S
    BY <2>1, <2>2
  <2> DEFINE n == Len(p) - 1
  <2>4. n \in Nat /\ \A i \in 1 .. n : p[i] \in S
    BY <2>1, <2>3
  <2> HIDE DEF n
  <2>5. /\ SubSeq(p, 1, n) \in Seq(S)
        /\ Len(SubSeq(p, 1, n)) = IF 1 <= n THEN n - 1 + 1 ELSE 0
        /\ \A i \in 1 .. n - 1 + 1 : SubSeq(p, 1, n)[i] = p[1 + i - 1]
    BY <2>4, SubSeqProperties
  <2>6. /\ SubSeq(p, 1, n) \in Seq(S) /\ Len(SubSeq(p, 1, n)) = n
        /\ \A i \in 1 .. n : SubSeq(p, 1, n)[i] = p[i]
    BY <2>4, <2>5
  <2> QED BY <1>2, <2>1, <2>2, <2>6 DEF DirOf, Front, Last, n
<1> QED BY <1>1, <1>2

LEMMA DirAbove ==
  ASSUME NEW p \in Paths
  PROVE  /\ DirOf(p) \in Paths /\ Under(p, DirOf(p)) /\ (p # <<>> => DirOf(p) # p)
         /\ \A q \in Paths : Under(p, q) /\ q # p => p # <<>> /\ Under(DirOf(p), q)
<1>1. CASE p = <<>>
  <2>1. DirOf(p) \in Paths /\ DirOf(p) = p
    BY <1>1, DirFacts DEF Paths
  <2>2. \A q \in Paths : Under(p, q) => q = p
    BY <1>1, RootAbove, UnderBoth
  <2> QED BY <1>1, <2>1, <2>2, UnderItself
<1>2. CASE p # <<>>
  <2>1. /\ DirOf(p) \in Paths /\ Len(p) \in Nat \ {0} /\ Len(DirOf(p)) = Len(p) - 1
        /\ \A i \in 1 .. Len(p) - 1 : DirOf(p)[i] = p[i]
    BY <1>2, DirFacts DEF Paths
  <2>2. Under(p, DirOf(p)) /\ DirOf(p) # p
    BY <2>1, UnderMeans
  <2>3. ASSUME NEW q \in Paths, Under(p, q), q # p PROVE Under(DirOf(p), q)
    <3>1. Len(q) \in Nat /\ Len(q) <= Len(p) /\ \A i \in 1 .. Len(q) : p[i] = q[i]
      BY <2>3, UnderMeans DEF Paths
    <3>2. Len(q) # Len(p)
      BY <2>3, <3>1, SeqEqual DEF Paths
    <3> QED BY <2>1, <3>1, <3>2, UnderMeans
  <2> QED BY <1>2, <2>1, <2>2, <2>3
<1> QED BY <1>1, <1>2

LEMMA AppendFacts ==
  ASSUME NEW S, NEW d \in Seq(S), NEW x \in S
  PROVE  /\ Append(d, x) \in Seq(S) /\ Append(d, x) # <<>>
         /\ DirOf(Append(d, x)) = d /\ Last(Append(d, x)) = x
<1> DEFINE p == Append(d, x)
<1>1. /\ p \in Seq(S) /\ p # <<>> /\ Len(p) = Len(d) + 1 /\ p[Len(d) + 1] = x
      /\ \A i \in 1 .. Len(d) : p[i] = d[i]
  BY AppendProperties
<1>2. Len(d) \in Nat
  OBVIOUS
<1> HIDE DEF p
<1>3. Last(p) = x
  BY <1>1, <1>2 DEF Last
<1>4. DirOf(p) \in Seq(S) /\ Len(DirOf(p)) = Len(d) /\ \A i \in 1 .. Len(d) : DirOf(p)[i] = d[i]
  BY <1>1, <1>2, DirFacts
<1>5. DirOf(p) = d
  BY <1>4, SeqEqual
<1> QED BY <1>1, <1>3, <1>5 DEF p

LEMMA DirAndLast ==
  ASSUME NEW S, NEW p \in Seq(S), NEW q \in Seq(S), p # <<>>, q # <<>>,
         DirOf(p) = DirOf(q), Last(p) = Last(q)
  PROVE  p = q
<1>1. /\ Len(p) \in Nat \ {0} /\ Len(DirOf(p)) = Len(p) - 1
      /\ \A i \in 1 .. Len(p) - 1 : DirOf(p)[i] = p[i]
  BY DirFacts
<1>2. /\ Len(q) \in Nat \ {0} /\ Len(DirOf(q)) = Len(q) - 1
      /\ \A i \in 1 .. Len(q) - 1 : DirOf(q)[i] = q[i]
  BY DirFacts
<1>3. Len(p) = Len(q) /\ p[Len(p)] = q[Len(p)]
  BY <1>1, <1>2 DEF Last
<1>4. \A i \in 1 .. Len(p) : p[i] = q[i]
  BY <1>1, <1>2, <1>3
<1> QED BY <1>3, <1>4, SeqEqual

LEMMA Narrower ==
  ASSUME NEW S, S \subseteq Names, NEW p \in Seq(S), NEW q \in Paths, Under(p, q)
  PROVE  q \in Seq(S)
<1>1. p \in Paths
  BY SeqMonotonic DEF Paths
<1>2. \A i \in 1 .. Len(q) : q[i] \in S
  <2>1. Len(p) \in Nat /\ Len(q) \in Nat /\ \A i \in 1 .. Len(p) : p[i] \in S
    BY <1>1, ElementOfSeq DEF Paths
  <2> QED BY <1>1, <2>1, UnderMeans
<1> DEFINE s == SubSeq(q, 1, Len(q))
<1>3. Len(q) \in Nat /\ s = q
  BY SubSeqFull DEF Paths
<1>4. s \in Seq(S)
  BY <1>2, <1>3, SubSeqProperties
<1> QED BY <1>3, <1>4

LEMMA CatTyped ==
  ASSUME NEW S, NEW a \in Seq(S), NEW t \in Seq(S)
  PROVE  Cat(a, t) \in Seq(S)
  BY ConcatProperties DEF Cat

LEMMA CatMeans ==
  ASSUME NEW a \in Paths, NEW t \in Paths
  PROVE  /\ Cat(a, t) \in Paths /\ Len(Cat(a, t)) = Len(a) + Len(t)
         /\ \A i \in 1 .. Len(a) : Cat(a, t)[i] = a[i]
         /\ \A i \in 1 .. Len(t) : Cat(a, t)[Len(a) + i] = t[i]
<1>1. Len(a) \in Nat /\ Len(t) \in Nat
  BY DEF Paths
<1>2. /\ a \o t \in Seq(Names) /\ Len(a \o t) = Len(a) + Len(t)
      /\ \A i \in 1 .. Len(a) + Len(t) : (a \o t)[i] = IF i <= Len(a) THEN a[i] ELSE t[i - Len(a)]
  BY ConcatProperties DEF Paths
<1>3. \A i \in 1 .. Len(a) : (a \o t)[i] = a[i]
  BY <1>1, <1>2
<1>4. ASSUME NEW i \in 1 .. Len(t) PROVE (a \o t)[Len(a) + i] = t[i]
  BY <1>1, <1>2
<1> QED BY <1>2, <1>3, <1>4 DEF Cat, Paths

LEMMA CutFacts ==
  ASSUME NEW S, S \subseteq Names, NEW p \in Seq(S), NEW a \in Paths, Under(p, a)
  PROVE  Rest(p, a) \in Seq(S) /\ Cat(a, Rest(p, a)) = p
<1>1. p \in Paths
  BY SeqMonotonic DEF Paths
<1>2. Len(p) \in Nat /\ Len(a) \in Nat /\ Len(a) <= Len(p) /\ \A i \in 1 .. Len(a) : p[i] = a[i]
  BY <1>1, UnderMeans DEF Paths
<1> DEFINE m == Len(a) + 1
           n == Len(p)
           t == SubSeq(p, m, n)
<1>3. m \in Int /\ n \in Int /\ \A i \in m .. n : p[i] \in S
  BY <1>2, ElementOfSeq
<1>4. /\ t \in Seq(S) /\ Len(t) = IF m <= n THEN n - m + 1 ELSE 0
      /\ \A i \in 1 .. n - m + 1 : t[i] = p[m + i - 1]
  BY <1>3, SubSeqProperties
<1>5. t \in Paths
  BY <1>4, SeqMonotonic DEF Paths
<1> HIDE DEF t
<1>6. Len(t) = Len(p) - Len(a) /\ \A i \in 1 .. Len(t) : t[i] = p[Len(a) + i]
  BY <1>2, <1>4
<1>7. Cat(a, t) \in Paths /\ Len(Cat(a, t)) = Len(p)
  BY <1>2, <1>5, <1>6, CatMeans
<1>8. ASSUME NEW i \in 1 .. Len(p) PROVE Cat(a, t)[i] = p[i]
  <2>1. CASE i <= Len(a)
    BY <1>2, <1>5, <2>1, CatMeans
  <2>2. CASE i > Len(a)
    <3>1. PICK j \in 1 .. Len(t) : i = Len(a) + j
      <4>1. i - Len(a) \in 1 .. Len(t) /\ i = Len(a) + (i - Len(a))
        BY <1>2, <1>6, <2>2
      <4> QED BY <4>1
    <3> QED BY <1>5, <1>6, <3>1, CatMeans
  <2> QED BY <1>2, <2>1, <2>2
<1>9. Cat(a, t) = p
  BY <1>1, <1>7, <1>8, SeqEqual DEF Paths
<1> QED BY <1>4, <1>9 DEF Rest, t

LEMMA CatUnder ==
  ASSUME NEW a \in Paths, NEW t \in Paths
  PROVE  /\ Under(Cat(a, t), a) /\ Cat(a, <<>>) = a
         /\ \A s \in Paths : Cat(a, s) = Cat(a, t) => s = t
         /\ \A s \in Paths : Under(Cat(a, t), Cat(a, s)) <=> Under(t, s)
         /\ Rest(Cat(a, t), a) = t
         /\ t # <<>> => Cat(a, t) # a /\ Cat(a, t) # <<>> /\ Last(Cat(a, t)) = Last(t)
<1>1. Len(a) \in Nat /\ Len(t) \in Nat
  BY DEF Paths
<1> DEFINE c == Cat(a, t)
<1>c. c \in Paths /\ Len(c) = Len(a) + Len(t) /\ \A i \in 1 .. Len(a) : c[i] = a[i]
  BY CatMeans
<1> HIDE DEF c
<1>u. Under(c, a)
  BY <1>1, <1>c, UnderMeans
<1>2. Under(Cat(a, t), a)
  BY <1>u DEF c
<1>3. Cat(a, <<>>) = a
  BY ConcatEmptySeq DEF Cat, Paths
<1>4. \A s \in Paths : Cat(a, s) = Cat(a, t) => s = t
  <2> SUFFICES ASSUME NEW s \in Paths, Cat(a, s) = Cat(a, t) PROVE s = t
    OBVIOUS
  <2> DEFINE d == Cat(a, s)
  <2>1. d \in Paths /\ Len(d) = Len(a) + Len(s) /\ \A i \in 1 .. Len(s) : d[Len(a) + i] = s[i]
    BY CatMeans
  <2> DEFINE e == Cat(a, t)
  <2>2. Len(e) = Len(a) + Len(t) /\ \A i \in 1 .. Len(t) : e[Len(a) + i] = t[i]
    BY CatMeans
  <2>e. d = e
    OBVIOUS
  <2> HIDE DEF d, e
  <2>3. Len(s) \in Nat
    BY DEF Paths
  <2>4. Len(s) = Len(t)
    BY <1>1, <2>1, <2>2, <2>3, <2>e
  <2>5. \A i \in 1 .. Len(s) : s[i] = t[i]
    BY <2>1, <2>2, <2>4, <2>e
  <2> QED BY <2>4, <2>5, SeqEqual DEF Paths
<1>5. ASSUME NEW s \in Paths PROVE Under(Cat(a, t), Cat(a, s)) <=> Under(t, s)
  <2> DEFINE x == Cat(a, t)
             y == Cat(a, s)
  <2>1. Len(s) \in Nat
    BY DEF Paths
  <2>2. /\ x \in Paths /\ Len(x) = Len(a) + Len(t)
        /\ \A i \in 1 .. Len(a) : x[i] = a[i]
        /\ \A i \in 1 .. Len(t) : x[Len(a) + i] = t[i]
    BY CatMeans
  <2>3. /\ y \in Paths /\ Len(y) = Len(a) + Len(s)
        /\ \A i \in 1 .. Len(a) : y[i] = a[i]
        /\ \A i \in 1 .. Len(s) : y[Len(a) + i] = s[i]
    BY CatMeans
  <2> HIDE DEF x, y
  <2>4. ASSUME Under(x, y) PROVE Under(t, s)
    <3>1. Len(y) <= Len(x) /\ \A i \in 1 .. Len(y) : x[i] = y[i]
      BY <2>2, <2>3, <2>4, UnderMeans
    <3>2. Len(s) <= Len(t)
      BY <1>1, <2>1, <2>2, <2>3, <3>1
    <3>3. ASSUME NEW i \in 1 .. Len(s) PROVE t[i] = s[i]
      <4>1. Len(a) + i \in 1 .. Len(y) /\ i \in 1 .. Len(t)
        BY <1>1, <2>1, <2>3, <3>2
      <4>2. x[Len(a) + i] = y[Len(a) + i]
        BY <3>1, <4>1
      <4> QED BY <2>2, <2>3, <4>1, <4>2
    <3> QED BY <3>2, <3>3, UnderMeans
  <2>5. ASSUME Under(t, s) PROVE Under(x, y)
    <3>1. Len(s) <= Len(t) /\ \A i \in 1 .. Len(s) : t[i] = s[i]
      BY <2>5, UnderMeans
    <3>2. ASSUME NEW i \in 1 .. Len(y) PROVE x[i] = y[i]
      <4>1. CASE i <= Len(a)
        BY <1>1, <2>2, <2>3, <4>1
      <4>2. CASE i > Len(a)
        <5>1. PICK j \in 1 .. Len(s) : i = Len(a) + j
          <6>1. i - Len(a) \in 1 .. Len(s) /\ i = Len(a) + (i - Len(a))
            BY <1>1, <2>1, <2>3, <4>2
          <6> QED BY <6>1
        <5>2. j \in 1 .. Len(t)
          BY <1>1, <2>1, <3>1
        <5> QED BY <2>2, <2>3, <3>1, <5>1, <5>2
      <4> QED BY <1>1, <2>1, <2>3, <4>1, <4>2
    <3>3. Len(y) <= Len(x)
      BY <1>1, <2>1, <2>2, <2>3, <3>1
    <3> QED BY <2>2, <2>3, <3>2, <3>3, UnderMeans
  <2> QED BY <2>4, <2>5 DEF x, y
<1>6. Rest(Cat(a, t), a) = t
  <2>1. Cat(a, t) \in Seq(Names) /\ a \in Paths /\ Under(Cat(a, t), a)
    BY <1>2, CatMeans DEF Paths
  <2>2. Rest(Cat(a, t), a) \in Paths /\ Cat(a, Rest(Cat(a, t), a)) = Cat(a, t)
    BY <2>1, CutFacts DEF Paths
  <2> QED BY <1>4, <2>2
<1>7. ASSUME t # <<>> PROVE Cat(a, t) # a /\ Cat(a, t) # <<>> /\ Last(Cat(a, t)) = Last(t)
  <2>1. Len(t) \in Nat \ {0}
    BY <1>7, EmptySeq DEF Paths
  <2>2. /\ Len(Cat(a, t)) = Len(a) + Len(t) /\ Cat(a, t) \in Paths
        /\ Cat(a, t)[Len(a) + Len(t)] = t[Len(t)]
    BY <2>1, CatMeans
  <2>3. Len(<<>>) = 0
    BY EmptySeq
  <2> QED BY <1>1, <2>1, <2>2, <2>3 DEF Last
<1> QED BY <1>2, <1>3, <1>4, <1>5, <1>6, <1>7

LEMMA PathsToMeans ==
  ASSUME NEW p \in Paths
  PROVE  /\ PathsTo(p) \subseteq Paths /\ p \in PathsTo(p) /\ IsFiniteSet(PathsTo(p))
         /\ \A q \in Paths : q \in PathsTo(p) <=> Under(p, q)
<1>1. Len(p) \in Nat
  BY DEF Paths
<1>2. ASSUME NEW n \in 0 .. Len(p)
      PROVE  /\ SubSeq(p, 1, n) \in Paths /\ Len(SubSeq(p, 1, n)) = n
             /\ \A i \in 1 .. n : SubSeq(p, 1, n)[i] = p[i]
  <2>1. n \in Nat /\ \A i \in 1 .. n : p[i] \in Names
    BY <1>1, ElementOfSeq DEF Paths
  <2>2. /\ SubSeq(p, 1, n) \in Seq(Names)
        /\ Len(SubSeq(p, 1, n)) = IF 1 <= n THEN n - 1 + 1 ELSE 0
        /\ \A i \in 1 .. n - 1 + 1 : SubSeq(p, 1, n)[i] = p[1 + i - 1]
    BY <2>1, SubSeqProperties
  <2> QED BY <2>1, <2>2 DEF Paths
<1>3. PathsTo(p) \subseteq Paths /\ \A q \in PathsTo(p) : Under(p, q)
  <2>1. ASSUME NEW n \in 0 .. Len(p) PROVE SubSeq(p, 1, n) \in Paths /\ Under(p, SubSeq(p, 1, n))
    <3> DEFINE s == SubSeq(p, 1, n)
    <3>1. s \in Paths /\ Len(s) = n /\ \A i \in 1 .. n : s[i] = p[i]
      BY <1>2
    <3> HIDE DEF s
    <3>2. Under(p, s)
      BY <1>1, <3>1, UnderMeans
    <3> QED BY <3>1, <3>2 DEF s
  <2> QED BY <2>1 DEF PathsTo
<1>4. ASSUME NEW q \in Paths, Under(p, q) PROVE q \in PathsTo(p)
  <2>1. Len(q) \in 0 .. Len(p) /\ \A i \in 1 .. Len(q) : p[i] = q[i]
    BY <1>1, <1>4, UnderMeans DEF Paths
  <2>2. SubSeq(p, 1, Len(q)) = q
    <3> DEFINE s == SubSeq(p, 1, Len(q))
    <3>1. s \in Paths /\ Len(s) = Len(q) /\ \A i \in 1 .. Len(q) : s[i] = p[i]
      BY <1>2, <2>1
    <3> HIDE DEF s
    <3>2. s = q
      BY <2>1, <3>1, SeqEqual DEF Paths
    <3> QED BY <3>2 DEF s
  <2> QED BY <2>1, <2>2 DEF PathsTo
<1>5. IsFiniteSet(PathsTo(p))
  <2> DEFINE I == 0 .. Len(p)
             f == [n \in I |-> SubSeq(p, 1, n)]
  <2>1. IsFiniteSet(I)
    BY <1>1, FS_Interval
  <2>2. f \in Surjection(I, PathsTo(p))
    BY DEF Surjection, PathsTo
  <2> QED BY <2>1, <2>2, FS_Surjection
<1> QED BY <1>3, <1>4, <1>5, UnderItself

(* The first step down from q on the way to p.                                *)
Step(p, q) == SubSeq(p, 1, Len(q) + 1)
LEMMA StepFacts ==
  ASSUME NEW p \in Paths, NEW q \in Paths, Under(p, q), p # q
  PROVE  /\ Step(p, q) \in Paths /\ Step(p, q) # <<>> /\ DirOf(Step(p, q)) = q
         /\ Under(p, Step(p, q))
<1>1. /\ Len(p) \in Nat /\ Len(q) \in Nat /\ Len(q) <= Len(p)
      /\ \A i \in 1 .. Len(q) : p[i] = q[i]
  BY UnderMeans DEF Paths
<1>2. Len(q) # Len(p)
  BY <1>1, SeqEqual DEF Paths
<1> DEFINE n == Len(q) + 1
           s == SubSeq(p, 1, n)
<1>3. n \in Nat /\ n <= Len(p) /\ \A i \in 1 .. n : p[i] \in Names
  BY <1>1, <1>2, ElementOfSeq DEF Paths
<1>4. /\ s \in Paths /\ Len(s) = IF 1 <= n THEN n - 1 + 1 ELSE 0
      /\ \A i \in 1 .. n - 1 + 1 : s[i] = p[1 + i - 1]
  BY <1>3, SubSeqProperties DEF Paths
<1> HIDE DEF s
<1>5. Len(s) = Len(q) + 1 /\ \A i \in 1 .. Len(q) + 1 : s[i] = p[i]
  BY <1>1, <1>4
<1>6. Under(p, s)
  BY <1>1, <1>3, <1>4, <1>5, UnderMeans
<1>7. s # <<>>
  BY <1>1, <1>5, EmptySeq
<1>8. /\ DirOf(s) \in Paths /\ Len(DirOf(s)) = Len(q)
      /\ \A i \in 1 .. Len(q) : DirOf(s)[i] = q[i]
  <2>1. s \in Seq(Names)
    BY <1>4 DEF Paths
  <2>2. /\ DirOf(s) \in Seq(Names) /\ Len(DirOf(s)) = Len(s) - 1
        /\ \A i \in 1 .. Len(s) - 1 : DirOf(s)[i] = s[i]
    BY <1>7, <2>1, DirFacts
  <2> QED BY <1>1, <1>5, <2>2 DEF Paths
<1>9. DirOf(s) = q
  BY <1>8, SeqEqual DEF Paths
<1> QED BY <1>4, <1>6, <1>7, <1>9 DEF s, Step

-----------------------------------------------------------------------------
(* What the system calls do to a tree.                                        *)
LEMMA AboveIsDir ==
  ASSUME IsTree(tree), NEW p \in Path, NEW q \in Paths, Under(p, q), q # p
  PROVE  IsDir(q)
  BY PathsToMeans DEF IsTree, IsDir, Path

LEMMA TreeFromAbove ==
  ASSUME NEW f, IsFiniteSet(DOMAIN f), f \in [DOMAIN f -> 0 .. MaxInode], DOMAIN f \subseteq Paths,
         \A p \in DOMAIN f : \A q \in Paths : Under(p, q) /\ q # p => q \in DOMAIN f /\ f[q] = Dir
  PROVE  IsTree(f)
  BY PathsToMeans DEF IsTree

LEMMA WithTree ==
  ASSUME IsTree(tree), NEW p \in Paths, NEW node \in 0 .. MaxInode,
         p \notin Path, IsDir(DirOf(p))
  PROVE  IsTree(With(p, node))
<1> DEFINE f == With(p, node)
<1>1. /\ DOMAIN f = Path \cup {p} /\ f[p] = node
      /\ \A q \in Path : f[q] = tree[q]
  BY DEF With
<1>2. f \in [DOMAIN f -> 0 .. MaxInode]
  BY <1>1 DEF With, IsTree, Path
<1> HIDE DEF f
<1>3. IsFiniteSet(DOMAIN f)
  BY <1>1, FS_AddElement DEF IsTree, Path
<1>4. ASSUME NEW x \in DOMAIN f, NEW q \in Paths, Under(x, q), q # x
      PROVE  q \in DOMAIN f /\ f[q] = Dir
  <2>1. CASE x \in Path
    BY <1>1, <1>4, <2>1, AboveIsDir DEF IsDir
  <2>2. CASE x = p
    <3>1. DirOf(p) \in Paths /\ Under(DirOf(p), q)
      BY <1>4, <2>2, DirAbove
    <3>2. CASE q = DirOf(p)
      BY <1>1, <3>2 DEF IsDir
    <3>3. CASE q # DirOf(p)
      <4>1. DirOf(p) \in Path
        BY DEF IsDir
      <4>2. IsDir(q)
        BY <1>4, <3>1, <3>3, <4>1, AboveIsDir
      <4> QED BY <1>1, <4>2 DEF IsDir
    <3> QED BY <3>2, <3>3
  <2> QED BY <1>1, <2>1, <2>2
<1>5. DOMAIN f \subseteq Paths
  BY <1>1 DEF IsTree, Path
<1>6. IsTree(f)
  BY <1>2, <1>3, <1>4, <1>5, TreeFromAbove
<1> QED BY <1>6 DEF f

LEMMA NothingBelow ==
  ASSUME IsTree(tree), NEW p \in Paths, Children(p) = {} \/ ~IsDir(p), NEW x \in Path, Under(x, p)
  PROVE  x = p
<1>1. SUFFICES ASSUME x # p PROVE FALSE
  OBVIOUS
<1>2. x \in Paths
  BY DEF IsTree, Path
<1>3. IsDir(p)
  BY <1>1, AboveIsDir
<1> DEFINE c == Step(x, p)
<1>4. c \in Paths /\ c # <<>> /\ DirOf(c) = p /\ Under(x, c)
  BY <1>1, <1>2, StepFacts
<1> HIDE DEF c
<1>5. c \in Path
  BY <1>4, AboveIsDir DEF IsDir
<1>6. c \in Children(p)
  BY <1>4, <1>5 DEF Children
<1> QED BY <1>3, <1>6

LEMMA WithoutTree ==
  ASSUME IsTree(tree), NEW p \in Paths, Children(p) = {} \/ ~IsDir(p)
  PROVE  IsTree(Without({p}))
<1> DEFINE f == Without({p})
<1>1. DOMAIN f = Path \ {p} /\ \A q \in Path \ {p} : f[q] = tree[q]
  BY DEF Without
<1>2. f \in [DOMAIN f -> 0 .. MaxInode]
  BY <1>1 DEF Without, IsTree, Path
<1> HIDE DEF f
<1>3. IsFiniteSet(DOMAIN f)
  BY <1>1, FS_RemoveElement DEF IsTree, Path
<1>4. ASSUME NEW x \in DOMAIN f, NEW q \in Paths, Under(x, q), q # x
      PROVE  q \in DOMAIN f /\ f[q] = Dir
  <2>1. x \in Path /\ x # p /\ IsDir(q)
    BY <1>1, <1>4, AboveIsDir
  <2>2. q # p
    BY <1>4, <2>1, NothingBelow
  <2> QED BY <1>1, <2>1, <2>2 DEF IsDir
<1>5. DOMAIN f \subseteq Paths
  BY <1>1 DEF IsTree, Path
<1>6. IsTree(f)
  BY <1>2, <1>3, <1>4, <1>5, TreeFromAbove
<1> QED BY <1>6 DEF f

LEMMA MkdirTree ==
  ASSUME IsTree(tree), NEW p \in Paths, CanMkdirAll(p)
  PROVE  /\ IsTree(MkdirAll(p)) /\ DOMAIN MkdirAll(p) = Path \cup PathsTo(p)
         /\ \A q \in PathsTo(p) : MkdirAll(p)[q] = Dir
         /\ \A q \in Path : MkdirAll(p)[q] = tree[q]
<1> DEFINE f == MkdirAll(p)
<1>1. /\ DOMAIN f = Path \cup PathsTo(p)
      /\ \A q \in Path : f[q] = tree[q]
      /\ \A q \in PathsTo(p) : q \notin Path => f[q] = Dir
  BY DEF MkdirAll
<1>2. \A q \in PathsTo(p) : f[q] = Dir
  BY <1>1 DEF CanMkdirAll, IsFile
<1>3. f \in [DOMAIN f -> 0 .. MaxInode]
  BY <1>1, FilesAssumption DEF MkdirAll, IsTree, Path, Dir
<1> HIDE DEF f
<1>4. IsFiniteSet(DOMAIN f)
  <2>1. IsFiniteSet(Path) /\ IsFiniteSet(PathsTo(p))
    BY PathsToMeans DEF IsTree, Path
  <2> QED BY <1>1, <2>1, FS_Union
<1>5. ASSUME NEW x \in DOMAIN f, NEW q \in Paths, Under(x, q), q # x
      PROVE  q \in DOMAIN f /\ f[q] = Dir
  <2>1. CASE x \in Path
    BY <1>1, <1>5, <2>1, AboveIsDir DEF IsDir
  <2>2. CASE x \in PathsTo(p)
    <3>1. x \in Paths /\ Under(p, x)
      BY <2>2, PathsToMeans
    <3>2. Under(p, q)
      BY <1>5, <3>1, UnderTransitive
    <3> QED BY <1>1, <1>2, <3>2, PathsToMeans
  <2> QED BY <1>1, <2>1, <2>2
<1>6. DOMAIN f \subseteq Paths
  BY <1>1, PathsToMeans DEF IsTree, Path
<1>7. IsTree(f)
  BY <1>3, <1>4, <1>5, <1>6, TreeFromAbove
<1> QED BY <1>1, <1>2, <1>7 DEF f

(* os.Create after MkdirAll of the parent.                                    *)
Created(p, i) == LET parents == MkdirAll(DirOf(p))
                 IN [q \in DOMAIN parents \cup {p} |-> IF q = p THEN i ELSE parents[q]]
LEMMA CreatedTree ==
  ASSUME IsTree(tree), NEW p \in Paths, CanMkdirAll(DirOf(p)), ~IsDir(p), NEW i \in 1 .. MaxInode
  PROVE  /\ IsTree(Created(p, i)) /\ DOMAIN Created(p, i) = Path \cup PathsTo(DirOf(p)) \cup {p}
         /\ Created(p, i)[p] = i
         /\ \A q \in Path : q # p => Created(p, i)[q] = tree[q]
         /\ \A q \in PathsTo(DirOf(p)) : q # p => Created(p, i)[q] = Dir
<1> DEFINE d == DirOf(p)
           m == MkdirAll(d)
           f == Created(p, i)
<1>1. d \in Paths /\ Under(p, d)
  BY DirAbove
<1> HIDE DEF d
<1>2. /\ IsTree(m) /\ DOMAIN m = Path \cup PathsTo(d)
      /\ \A q \in PathsTo(d) : m[q] = Dir
      /\ \A q \in Path : m[q] = tree[q]
  BY <1>1, MkdirTree DEF d
<1> HIDE DEF m
<1>3. f = [q \in DOMAIN m \cup {p} |-> IF q = p THEN i ELSE m[q]]
  BY DEF Created, m, d
<1> HIDE DEF f
<1>4. /\ DOMAIN f = Path \cup PathsTo(d) \cup {p} /\ f[p] = i
      /\ \A q \in DOMAIN m : q # p => f[q] = m[q]
  BY <1>2, <1>3
<1>5. f \in [DOMAIN f -> 0 .. MaxInode]
  BY <1>2, <1>3 DEF IsTree
<1>6. IsFiniteSet(DOMAIN f)
  BY <1>2, <1>3, FS_AddElement DEF IsTree
<1>7. ASSUME NEW x \in DOMAIN f, NEW q \in Paths, Under(x, q), q # x
      PROVE  q \in DOMAIN f /\ f[q] = Dir
  <2>1. CASE x = p
    <3>1. Under(d, q)
      BY <1>7, <2>1, DirAbove DEF d
    <3>2. q \in PathsTo(d)
      BY <1>1, <3>1, PathsToMeans
    <3> QED BY <1>2, <1>4, <1>7, <2>1, <3>2
  <2>2. CASE x # p /\ x \in PathsTo(d)
    <3>1. x \in Paths /\ Under(d, x)
      BY <1>1, <2>2, PathsToMeans
    <3>2. Under(d, q)
      BY <1>1, <1>7, <3>1, UnderTransitive
    <3>3. q # p
      <4> SUFFICES ASSUME q = p PROVE FALSE
        OBVIOUS
      <4>1. d = p
        BY <1>1, <3>2, UnderBoth
      <4> QED BY <1>7, <2>2, <3>1, <4>1, UnderBoth
    <3>4. q \in PathsTo(d)
      BY <1>1, <3>2, PathsToMeans
    <3> QED BY <1>2, <1>4, <3>3, <3>4
  <2>3. CASE x \in Path
    <3>1. IsDir(q)
      BY <1>7, <2>3, AboveIsDir
    <3> QED BY <1>2, <1>4, <3>1 DEF IsDir
  <2> QED BY <1>4, <2>1, <2>2, <2>3
<1>8. DOMAIN f \subseteq Paths
  BY <1>1, <1>4, PathsToMeans DEF IsTree, Path
<1>9. IsTree(f)
  BY <1>5, <1>6, <1>7, <1>8, TreeFromAbove
<1>10. \A q \in Path : q # p => f[q] = tree[q]
  BY <1>2, <1>4
<1>11. \A q \in PathsTo(d) : q # p => f[q] = Dir
  BY <1>2, <1>4
<1> QED BY <1>4, <1>9, <1>10, <1>11 DEF f, d

(* os.Rename: what was at a or below is now at b or below.                    *)
LEMMA MovedFacts ==
  ASSUME IsTree(tree), NEW a \in Paths, NEW b \in Paths, CanMove(a, b)
  PROVE  /\ \A p \in DOMAIN Moved(a, b) :
              \/ p \in Path /\ ~Under(p, a) /\ ~Under(p, b) /\ Moved(a, b)[p] = tree[p]
              \/ \E t \in Paths : p = Cat(b, t) /\ Cat(a, t) \in Path /\ Moved(a, b)[p] = tree[Cat(a, t)]
         /\ \A p \in Path : ~Under(p, a) /\ p # b => p \in DOMAIN Moved(a, b)
         /\ \A t \in Paths : Cat(a, t) \in Path => Cat(b, t) \in DOMAIN Moved(a, b)
<1> DEFINE came(q) == Cat(b, Rest(q, a))
           target(q) == IF Under(q, a) THEN came(q) ELSE q
           D == {target(q) : q \in Path \ {b}} \cup {b}
           f == Moved(a, b)
<1>1. /\ f = [p \in D |-> IF Under(p, b) THEN tree[Cat(a, Rest(p, b))] ELSE tree[p]]
      /\ a \in Path /\ ~IsDir(b) /\ IsDir(DirOf(b)) /\ (IsDir(a) => b \notin Path /\ ~Under(b, a))
  BY DEF Moved, Cat, Rest, CanMove
<1>2. \A p \in D : f[p] = IF Under(p, b) THEN tree[Cat(a, Rest(p, b))] ELSE tree[p]
  BY <1>1
<1>3. DOMAIN f = D
  BY <1>1
<1> HIDE DEF f
<1>4. Path \subseteq Paths
  BY DEF IsTree, Path
<1>5. ASSUME NEW q \in Path, Under(q, a)
      PROVE  Rest(q, a) \in Paths /\ Cat(a, Rest(q, a)) = q
  <2>1. q \in Seq(Names)
    BY <1>4 DEF Paths
  <2> QED BY <1>5, <2>1, CutFacts DEF Paths
<1>6. ASSUME NEW t \in Paths, Cat(a, t) \in Path
      PROVE  Cat(b, t) \in D /\ f[Cat(b, t)] = tree[Cat(a, t)]
  <2>1. /\ Under(Cat(a, t), a) /\ Rest(Cat(a, t), a) = t
        /\ Under(Cat(b, t), b) /\ Rest(Cat(b, t), b) = t
    BY CatUnder
  <2>2. Cat(b, t) \in D
    <3>1. CASE Cat(a, t) = b
      <4>1. Under(b, a)
        BY <2>1, <3>1
      <4>2. ~IsDir(a)
        BY <1>1, <4>1
      <4>3. b = a
        BY <1>6, <3>1, <4>1, <4>2, NothingBelow
      <4>4. t = <<>>
        BY <3>1, <4>3, CatUnder
      <4>5. Cat(b, t) = b
        BY <4>4, CatUnder
      <4> QED BY <4>5
    <3>2. CASE Cat(a, t) # b
      <4>1. target(Cat(a, t)) = Cat(b, t)
        BY <2>1
      <4> QED BY <1>6, <3>2, <4>1
    <3> QED BY <3>1, <3>2
  <2> QED BY <1>2, <2>1, <2>2
<1>7. ASSUME NEW p \in Path, ~Under(p, a), p # b PROVE p \in D
  <2>1. target(p) = p
    BY <1>7
  <2> QED BY <1>7, <2>1
<1>8. ASSUME NEW p \in D
      PROVE  \/ p \in Path /\ ~Under(p, a) /\ ~Under(p, b) /\ f[p] = tree[p]
             \/ \E t \in Paths : p = Cat(b, t) /\ Cat(a, t) \in Path /\ f[p] = tree[Cat(a, t)]
  <2>1. CASE p = b
    <3>1. <<>> \in Paths /\ Cat(b, <<>>) = b /\ Cat(a, <<>>) = a
      BY RootAbove, CatUnder
    <3> QED BY <1>1, <1>6, <2>1, <3>1
  <2>2. CASE p # b
    <3>1. PICK q \in Path \ {b} : p = target(q)
      BY <2>2
    <3>2. CASE Under(q, a)
      <4>1. p = Cat(b, Rest(q, a)) /\ Rest(q, a) \in Paths /\ Cat(a, Rest(q, a)) \in Path
        BY <1>5, <3>1, <3>2
      <4> HIDE DEF D
      <4> QED BY <1>6, <4>1
    <3>3. CASE ~Under(q, a)
      <4>1. p = q
        BY <3>1, <3>3
      <4>2. ~Under(q, b)
        BY <1>1, <3>1, NothingBelow
      <4> QED BY <1>2, <3>1, <3>3, <4>1, <4>2
    <3> QED BY <3>2, <3>3
  <2> QED BY <2>1, <2>2
<1> HIDE DEF D
<1> QED BY <1>3, <1>6, <1>7, <1>8 DEF f

LEMMA MovedTree ==
  ASSUME IsTree(tree), NEW a \in Paths, NEW b \in Paths, CanMove(a, b)
  PROVE  IsTree(Moved(a, b))
<1> DEFINE f == Moved(a, b)
<1>1. /\ a \in Path /\ ~IsDir(b) /\ IsDir(DirOf(b)) /\ (IsDir(a) => b \notin Path /\ ~Under(b, a))
  BY DEF CanMove
<1>2. \A p \in DOMAIN f :
        \/ p \in Path /\ ~Under(p, a) /\ ~Under(p, b) /\ f[p] = tree[p]
        \/ \E t \in Paths : p = Cat(b, t) /\ Cat(a, t) \in Path /\ f[p] = tree[Cat(a, t)]
  BY MovedFacts
<1>3. \A p \in Path : ~Under(p, a) /\ p # b => p \in DOMAIN f
  BY MovedFacts
<1>4. \A t \in Paths : Cat(a, t) \in Path => Cat(b, t) \in DOMAIN f
  BY MovedFacts
<1>5. Path \subseteq Paths /\ tree \in [Path -> 0 .. MaxInode]
  BY DEF IsTree, Path
<1>6. IsFiniteSet(DOMAIN f)
  <2> DEFINE target(q) == IF Under(q, a) THEN b \o SubSeq(q, Len(a) + 1, Len(q)) ELSE q
             S == Path \ {b}
             T == {target(q) : q \in S}
             g == [q \in S |-> target(q)]
  <2>1. DOMAIN f = T \cup {b}
    BY DEF Moved
  <2>2. g \in Surjection(S, T)
    BY DEF Surjection
  <2>3. IsFiniteSet(S)
    BY FS_RemoveElement DEF IsTree, Path
  <2>4. IsFiniteSet(T)
    BY <2>2, <2>3, FS_Surjection
  <2> HIDE DEF f, T
  <2> QED BY <2>1, <2>4, FS_AddElement
<1>7. f = [p \in DOMAIN f |-> f[p]]
  BY DEF Moved
<1> HIDE DEF f
<1>8. DOMAIN f \subseteq Paths
  BY <1>2, <1>5, CatMeans
<1>9. f \in [DOMAIN f -> 0 .. MaxInode]
  <2>1. \A p \in DOMAIN f : f[p] \in 0 .. MaxInode
    BY <1>2, <1>5
  <2> QED BY <1>7, <2>1
<1>10. ASSUME NEW p \in DOMAIN f, NEW q \in Paths, Under(p, q), q # p
       PROVE  q \in DOMAIN f /\ f[q] = Dir
  <2>1. ASSUME IsDir(q), ~Under(q, a), ~Under(q, b) PROVE q \in DOMAIN f /\ f[q] = Dir
    <3>1. q \in Path /\ q # b /\ tree[q] = Dir
      BY <1>1, <2>1 DEF IsDir
    <3>2. q \in DOMAIN f
      BY <1>3, <2>1, <3>1
    <3>3. \A t \in Paths : q # Cat(b, t)
      BY <2>1, CatUnder
    <3> QED BY <1>2, <3>1, <3>2, <3>3
  <2>2. CASE p \in Path /\ ~Under(p, a) /\ ~Under(p, b)
    <3>1. p \in Paths /\ IsDir(q)
      BY <1>5, <1>10, <2>2, AboveIsDir
    <3>2. ~Under(q, a) /\ ~Under(q, b)
      BY <1>10, <2>2, <3>1, UnderTransitive
    <3> QED BY <2>1, <3>1, <3>2
  <2>3. ASSUME NEW t \in Paths, p = Cat(b, t), Cat(a, t) \in Path
        PROVE  q \in DOMAIN f /\ f[q] = Dir
    <3>1. p \in Paths /\ Under(p, b)
      BY <2>3, CatMeans, CatUnder
    <3>2. CASE Under(q, b)
      <4>1. PICK s \in Paths : q = Cat(b, s)
        <5>1. q \in Seq(Names)
          BY DEF Paths
        <5>2. Rest(q, b) \in Seq(Names) /\ Cat(b, Rest(q, b)) = q
          BY <3>2, <5>1, CutFacts
        <5> QED BY <5>2 DEF Paths
      <4>2. Under(t, s) /\ s # t
        BY <1>10, <2>3, <4>1, CatUnder
      <4>3. Under(Cat(a, t), Cat(a, s)) /\ Cat(a, s) # Cat(a, t) /\ Cat(a, s) \in Paths
        BY <4>2, CatUnder, CatMeans
      <4>4. Cat(a, s) \in Path /\ tree[Cat(a, s)] = Dir
        BY <2>3, <4>3, AboveIsDir DEF IsDir
      <4>5. q \in DOMAIN f
        BY <1>4, <4>1, <4>4
      <4>6. PICK r \in Paths : q = Cat(b, r) /\ f[q] = tree[Cat(a, r)]
        BY <1>2, <3>2, <4>5
      <4>7. r = s
        <5>1. \A x \in Paths : Cat(b, x) = Cat(b, s) => x = s
          BY CatUnder
        <5> QED BY <4>1, <4>6, <5>1
      <4> QED BY <4>4, <4>5, <4>6, <4>7
    <3>3. CASE ~Under(q, b)
      <4>1. Under(b, q)
        BY <1>10, <3>1, <3>3, UnderOneAnother
      <4>2. q # b
        BY <3>3, UnderItself
      <4>3. IsDir(q)
        <5>1. DirOf(b) \in Path /\ DirOf(b) \in Paths /\ Under(DirOf(b), q)
          BY <1>1, <1>5, <4>1, <4>2, DirAbove DEF IsDir
        <5>2. CASE q = DirOf(b)
          BY <1>1, <5>2
        <5>3. CASE q # DirOf(b)
          BY <5>1, <5>3, AboveIsDir
        <5> QED BY <5>2, <5>3
      <4>4. ~Under(q, a)
        <5> SUFFICES ASSUME Under(q, a) PROVE FALSE
          OBVIOUS
        <5>1. Under(b, a)
          BY <4>1, UnderTransitive
        <5>2. ~IsDir(a)
          BY <1>1, <5>1
        <5>3. q \in Path
          BY <4>3 DEF IsDir
        <5>4. q = a
          BY <5>2, <5>3, NothingBelow
        <5> QED BY <4>3, <5>2, <5>4
      <4> QED BY <2>1, <3>3, <4>3, <4>4
    <3> QED BY <3>2, <3>3
  <2> QED BY <1>2, <2>2, <2>3
<1>11. IsTree(f)
  BY <1>6, <1>8, <1>9, <1>10, TreeFromAbove
<1> QED BY <1>11 DEF f

-----------------------------------------------------------------------------
(* What a step does to the requests.                                          *)
Same(new, old) ==
  /\ new.at = old.at /\ new.kind = old.kind /\ new.to = old.to
  /\ new.in = old.in /\ new.out = old.out /\ new.done = old.done /\ new.got = old.got
  /\ new.todo = old.todo /\ (old.at # "empty" => new.from = old.from)

LEMMA MovesFacts ==
  ASSUME req \in [Request -> Record], NEW r \in Request, NEW new \in Record, Moves(r, new)
  PROVE  /\ req' \in [Request -> Record]
         /\ Same(req'[r], new) /\ req'[r].stays = new.stays \cap Path
         /\ \A q \in Request : q # r => Same(req'[q], req[q]) /\ req'[q].stays = req[q].stays \cap Path
<1>1. ASSUME NEW now \in Record
      PROVE  /\ [now EXCEPT !.stays = @ \cap Path] \in Record
             /\ Same([now EXCEPT !.stays = @ \cap Path], now)
             /\ [now EXCEPT !.stays = @ \cap Path].stays = now.stays \cap Path
  BY DEF Record, Same
<1>2. \A q \in Request : req'[q] = [(IF q = r THEN new ELSE req[q]) EXCEPT !.stays = @ \cap Path]
  BY DEF Moves
<1>3. ASSUME NEW q \in Request, NEW now \in Record, now = IF q = r THEN new ELSE req[q]
      PROVE  /\ req'[q] \in Record /\ Same(req'[q], now)
             /\ req'[q].stays = now.stays \cap Path
  BY <1>1, <1>2, <1>3
<1>4. req' = [q \in Request |-> req'[q]]
  BY DEF Moves
<1>5. \A q \in Request : req[q] \in Record
  OBVIOUS
<1> QED BY <1>3, <1>4, <1>5

LEMMA GoesFacts ==
  ASSUME req \in [Request -> Record], NEW r \in Request, NEW at \in States, GoesTo(r, at)
  PROVE  /\ req' \in [Request -> Record]
         /\ Same(req'[r], [req[r] EXCEPT !.at = at]) /\ req'[r].stays = req[r].stays \cap Path
         /\ \A q \in Request : q # r => Same(req'[q], req[q]) /\ req'[q].stays = req[q].stays \cap Path
<1> DEFINE new == [req[r] EXCEPT !.at = at]
<1>1. new \in Record /\ new.stays = req[r].stays
  BY DEF Record
<1>2. Moves(r, new)
  BY DEF GoesTo
<1> HIDE DEF new
<1>3. /\ req' \in [Request -> Record]
      /\ Same(req'[r], new) /\ req'[r].stays = new.stays \cap Path
      /\ \A q \in Request : q # r => Same(req'[q], req[q]) /\ req'[q].stays = req[q].stays \cap Path
  BY <1>1, <1>2, MovesFacts
<1> QED BY <1>1, <1>3 DEF new

LEMMA IdleTyped == Idle \in Record /\ Ended \in Record
<1>1. <<>> \in Seq(Name) /\ <<>> \in Seq(Chunk) \cup Seq(Paths) /\ <<>> \in Seq(Paths) \cup Seq(Items)
  BY EmptySeq
<1>2. 0 \in 0 .. MaxInode /\ 0 \in Nat /\ {} \in SUBSET Paths
      /\ "none" \in {op.kind : op \in Operation} \cup {"none"}
      /\ "new" \in States /\ "ended" \in States
  BY FilesAssumption DEF States
<1> HIDE DEF Paths, Chunk, Items, States
<1>3. Idle \in Record
  BY <1>1, <1>2 DEF Idle, Record
<1>4. Ended = [Idle EXCEPT !.at = "ended"]
  BY DEF Ended
<1> QED BY <1>2, <1>3, <1>4 DEF Record

LEMMA EndsFacts ==
  ASSUME req \in [Request -> Record], NEW r \in Request, Ends(r)
  PROVE  /\ req' \in [Request -> Record]
         /\ Same(req'[r], Ended) /\ req'[r].stays = {}
         /\ \A q \in Request : q # r => Same(req'[q], req[q]) /\ req'[q].stays = req[q].stays \cap Path
<1>1. Ended.stays = {}
  BY DEF Ended, Idle
<1> QED BY <1>1, IdleTyped, MovesFacts DEF Ends

(* The requests after a step of r, and the names that may be in the tree.     *)
OneMoved(r) ==
  /\ req' \in [Request -> Record]
  /\ \A q \in Request : q # r => Same(req'[q], req[q]) /\ req'[q].stays = req[q].stays \cap Path

LEMMA ShapeStays ==
  ASSUME NEW new, NEW old, Same(new, old), NEW more, NEW names, names \subseteq more, Shape(old, names)
  PROVE  Shape(new, more)
  BY DEF Shape, Same

LEMMA OneMovedKeeps ==
  ASSUME Requests, NEW r \in Request, OneMoved(r), NEW new, Same(req'[r], new),
         r \in Spent => new.at \in SpentStates, Shape(new, Known)
  PROVE  Requests' /\ Known \subseteq Known'
<1>1. Spent \subseteq Spent'
  BY DEF Spent, OneMoved, Same
<1>2. Known \subseteq Known'
  BY <1>1, SeqMonotonic DEF Known
<1>3. ASSUME NEW q \in Request PROVE Shape(req'[q], Known')
  <2>1. CASE q = r
    BY <1>2, <2>1, ShapeStays
  <2>2. CASE q # r
    <3>1. Shape(req[q], Known) /\ Same(req'[q], req[q])
      BY <2>2 DEF Requests, OneMoved
    <3> QED BY <1>2, <3>1, ShapeStays
  <2> QED BY <2>1, <2>2
<1> QED BY <1>2, <1>3 DEF Requests, OneMoved

LEMMA MovesKeeps ==
  ASSUME Requests, NEW r \in Request, NEW new \in Record, Moves(r, new),
         r \in Spent => new.at \in SpentStates, Shape(new, Known)
  PROVE  /\ Requests' /\ Known \subseteq Known' /\ OneMoved(r)
         /\ Same(req'[r], new) /\ req'[r].stays = new.stays \cap Path
<1>1. OneMoved(r) /\ Same(req'[r], new) /\ req'[r].stays = new.stays \cap Path
  BY MovesFacts DEF OneMoved, Requests
<1> QED BY <1>1, OneMovedKeeps

LEMMA EndsKeeps ==
  ASSUME Requests, NEW r \in Request, Ends(r)
  PROVE  /\ Requests' /\ Known \subseteq Known' /\ OneMoved(r)
         /\ Same(req'[r], Ended) /\ req'[r].stays = {}
         /\ req'[r].at = "ended" /\ req'[r].out = 0 /\ req'[r].in = 0
<1>1. OneMoved(r) /\ Same(req'[r], Ended) /\ req'[r].stays = {}
  BY EndsFacts DEF OneMoved, Requests
<1>2. Ended.at = "ended" /\ Ended.out = 0 /\ Ended.in = 0
  BY DEF Ended, Idle
<1>3. Shape(Ended, Known)
  BY <1>2 DEF Shape, CopyStates
<1> QED BY <1>1, <1>2, <1>3, OneMovedKeeps DEF SpentStates, Same

(* Where a request may go on to without anything else of it changing.         *)
GoesOn(r, at) ==
  /\ req'[r].at = at /\ req'[r].kind = req[r].kind /\ req'[r].to = req[r].to
  /\ req'[r].in = req[r].in /\ req'[r].out = req[r].out /\ req'[r].done = req[r].done
  /\ req'[r].got = req[r].got /\ req'[r].todo = req[r].todo
  /\ (at # "empty" => req'[r].from = req[r].from)
  /\ req'[r].stays = req[r].stays \cap Path

LEMMA GoesKeeps ==
  ASSUME Requests, NEW r \in Request, NEW at \in States \ {"begun", "reading"}, GoesTo(r, at),
         r \in Spent => at \in SpentStates,
         at \in {"create", "fill", "replace", "clean"} => req[r].kind = "write",
         at = "move" => req[r].kind = "rename", at = "open" => req[r].kind = "read",
         at \in {"create", "open"} => req[r].at = "begun",
         at \in {"remove", "empty"} => req[r].kind \in {"delete", "deleteAll"},
         at \in CopyStates => Copies(r) /\ (at # "copying" => req[r].todo # <<>>)
  PROVE  Requests' /\ Known \subseteq Known' /\ OneMoved(r) /\ GoesOn(r, at)
<1> DEFINE new == [req[r] EXCEPT !.at = at]
<1>1. new \in Record /\ Moves(r, new)
  BY DEF Requests, GoesTo, Record
<1>2. /\ new.at = at /\ new.kind = req[r].kind /\ new.to = req[r].to
      /\ new.in = req[r].in /\ new.out = req[r].out /\ new.done = req[r].done
      /\ new.got = req[r].got /\ new.todo = req[r].todo
      /\ new.from = req[r].from /\ new.stays = req[r].stays
  BY DEF Requests, Record
<1> HIDE DEF new
<1>3. Shape(new, Known)
  <2>1. Shape(req[r], Known)
    BY DEF Requests
  <2> HIDE DEF Known
  <2> QED BY <1>2, <2>1 DEF Shape, Copies
<1>4. /\ Requests' /\ Known \subseteq Known' /\ OneMoved(r)
      /\ Same(req'[r], new) /\ req'[r].stays = new.stays \cap Path
  BY <1>1, <1>2, <1>3, MovesKeeps
<1> QED BY <1>2, <1>4 DEF Same, GoesOn

-----------------------------------------------------------------------------
(* What a step must show of itself for each part of the invariant.            *)
LEMMA OwnedStep ==
  ASSUME Owned, NEW r \in Request, OneMoved(r), unusual' = {} => unusual = {},
         unusual' = {} => \A p \in Path' : \/ p \in Path /\ tree'[p] = tree[p]
                                           \/ p \in Seq(Name)
                                           \/ req'[r].at \in Temporary /\ p = Temp(r)' /\ IsFile(p)',
         unusual' = {} /\ req[r].at \in Temporary =>
           (req'[r].at \in Temporary /\ req'[r].to = req[r].to) \/ Temp(r) \notin Path',
         unusual' = {} => CopiesNames(r)'
  PROVE  Owned'
<1> SUFFICES ASSUME unusual' = {}
             PROVE  /\ \A p \in Path' : \/ p \in Seq(Name)
                                       \/ \E q \in Request : req'[q].at \in Temporary /\ p = Temp(q)' /\ IsFile(p)'
                    /\ \A q \in Request : CopiesNames(q)'
  BY DEF Owned
<1>1. \A q \in Request : q # r => req'[q].at = req[q].at /\ req'[q].to = req[q].to /\ req'[q].todo = req[q].todo
  BY DEF OneMoved, Same
<1>2. \A q \in Request : req'[q].to = req[q].to => Temp(q)' = Temp(q)
  BY DEF Temp, DirOf
<1>3. \A q \in Request : CopiesNames(q)'
  BY <1>1 DEF Owned, CopiesNames, Copies
<1>4. ASSUME NEW p \in Path', p \in Path, tree'[p] = tree[p], p \notin Seq(Name)
      PROVE  \E q \in Request : req'[q].at \in Temporary /\ p = Temp(q)' /\ IsFile(p)'
  <2>1. PICK q \in Request : req[q].at \in Temporary /\ p = Temp(q) /\ IsFile(p)
    BY <1>4 DEF Owned
  <2>2. IsFile(p)'
    BY <1>4, <2>1 DEF IsFile
  <2>3. req'[q].at \in Temporary /\ req'[q].to = req[q].to
    BY <1>1, <1>4, <2>1
  <2> QED BY <1>2, <2>1, <2>2, <2>3
<1> QED BY <1>3, <1>4

(* Where the file at p comes from.                                            *)
CameFrom(o, p) == /\ tree[o] = tree'[p] /\ o # <<>> /\ p # <<>>
                  /\ Last(p) = Last(o) \/ (Last(p) \in Name /\ Last(o) \in Name)
Complete(p) == /\ p # <<>> /\ Last(p) \in Name /\ Whole(data[tree'[p]])
               /\ \A q \in Request : Writes(q)' => req'[q].out # tree'[p]
Origin(p) == \/ tree'[p] \in inPlace
             \/ \E o \in Path : CameFrom(o, p)
             \/ Complete(p)

LEMMA ContentStep ==
  ASSUME Content, NEW r \in Request, OneMoved(r), data' = data, inPlace' = inPlace,
         \A p \in Path' : tree'[p] # Dir => Origin(p),
         Writes(r)' => /\ Writes(r) /\ req'[r].out = req[r].out /\ req'[r].done = req[r].done
                       /\ (req'[r].at = "replace" => req[r].done = Chunks),
         Copier(r)', Reader(r)'
  PROVE  Content'
<1>1. \A q \in Request : q # r =>
        /\ req'[q].at = req[q].at /\ req'[q].kind = req[q].kind /\ req'[q].in = req[q].in
        /\ req'[q].out = req[q].out /\ req'[q].done = req[q].done /\ req'[q].got = req[q].got
  BY DEF OneMoved, Same
<1>2. \A q \in Request : Writes(q)' => /\ Writes(q) /\ req'[q].out = req[q].out /\ req'[q].done = req[q].done
                                     /\ (req'[q].at = "replace" => req[q].done = Chunks)
  <2> SUFFICES ASSUME NEW q \in Request, q # r, Writes(q)'
               PROVE  /\ Writes(q) /\ req'[q].out = req[q].out /\ req'[q].done = req[q].done
                      /\ (req'[q].at = "replace" => req[q].done = Chunks)
    OBVIOUS
  <2>1. Writer(q)
    BY DEF Content
  <2> QED BY <1>1, <2>1 DEF Writes, Writer
<1>3. Store'
  <2>1. IsFile(<<>>)' => tree'[<<>>] \in inPlace
    <3> SUFFICES ASSUME IsFile(<<>>)' PROVE tree'[<<>>] \in inPlace
      OBVIOUS
    <3>1. Origin(<<>>)
      BY DEF IsFile
    <3> QED BY <3>1 DEF Origin, CameFrom, Complete
  <2> QED BY <2>1 DEF Store, Content
<1>4. NamedIsWhole'
  <2> SUFFICES ASSUME NEW p \in Path', IsFile(p)', p # <<>>, Last(p) \in Name, tree'[p] \notin inPlace
               PROVE  Whole(data[tree'[p]])
    BY DEF NamedIsWhole, Whole
  <2>0. Origin(p) /\ tree'[p] # Dir
    BY DEF IsFile
  <2>1. CASE Complete(p)
    BY <2>1 DEF Complete
  <2>2. ASSUME NEW o \in Path, CameFrom(o, p) PROVE Whole(data[tree'[p]])
    <3>1. tree[o] = tree'[p] /\ o # <<>> /\ Last(o) \in Name
      BY <2>2, FilesAssumption DEF CameFrom
    <3>2. IsFile(o)
      BY <2>0, <3>1 DEF IsFile
    <3> QED BY <3>1, <3>2 DEF Content, NamedIsWhole
  <2> QED BY <2>0, <2>1, <2>2 DEF Origin
<1>5. ASSUME NEW q \in Request PROVE Writer(q)'
  <2> SUFFICES ASSUME Writes(q)'
               PROVE  Writer(q)'
    BY DEF Writer
  <2>1. /\ Writes(q) /\ req'[q].out = req[q].out /\ req'[q].done = req[q].done
        /\ (req'[q].at = "replace" => req[q].done = Chunks)
    BY <1>2
  <2>2. Writer(q)
    BY DEF Content
  <2>3. /\ req'[q].out # 0 /\ req'[q].done <= Chunks /\ (req'[q].at = "replace" => req'[q].done = Chunks)
        /\ req'[q].out \in inPlace' \/ data'[req'[q].out] = Begun(q, req'[q].done)
    BY <2>1, <2>2 DEF Writer
  <2>4. ASSUME NEW p \in Path', tree'[p] = req'[q].out, tree'[p] \notin inPlace'
        PROVE  p # <<>> /\ Last(p) = q
    <3>1. tree'[p] # Dir /\ tree'[p] \notin inPlace
      BY <2>3, <2>4 DEF Dir
    <3>2. PICK o \in Path : CameFrom(o, p)
      <4>1. Origin(p)
        BY <3>1
      <4>2. ~Complete(p)
        BY <2>4 DEF Complete
      <4> QED BY <3>1, <4>1, <4>2 DEF Origin
    <3>3. tree[o] = tree'[p] /\ p # <<>> /\ (Last(p) = Last(o) \/ Last(o) \in Name)
      BY <3>2 DEF CameFrom
    <3>4. Last(o) = q
      BY <2>1, <2>2, <2>4, <3>1, <3>3 DEF Writer
    <3> QED BY <3>3, <3>4, FilesAssumption
  <2>5. ASSUME NEW p \in Path', IsFile(p)', p # <<>>, Last(p) = q
        PROVE  tree'[p] = req'[q].out \/ tree'[p] \in inPlace'
    <3>1. tree'[p] # Dir /\ Last(p) \notin Name
      BY <2>5, FilesAssumption DEF IsFile
    <3>2. ASSUME NEW o \in Path, CameFrom(o, p)
          PROVE  tree'[p] = req'[q].out \/ tree'[p] \in inPlace'
      <4>1. tree[o] = tree'[p] /\ o # <<>> /\ Last(o) = q
        BY <2>5, <3>1, <3>2 DEF CameFrom
      <4>2. IsFile(o)
        BY <3>1, <4>1 DEF IsFile
      <4> QED BY <2>1, <2>2, <4>1, <4>2 DEF Writer
    <3>3. ~Complete(p) /\ Origin(p)
      BY <2>5, <3>1 DEF Complete
    <3> QED BY <3>2, <3>3 DEF Origin
  <2>6. \A w \in Request : Writes(w)' /\ w # q => req'[w].out # req'[q].out
    BY <1>2, <2>1, <2>2 DEF Writer
  <2> QED BY <2>3, <2>4, <2>5, <2>6 DEF Writer
<1>6. ASSUME NEW q \in Request, q # r PROVE Copier(q)' /\ Reader(q)'
  <2>1. Copier(q) /\ Reader(q)
    BY DEF Content
  <2>2. Copier(q)'
    BY <1>1, <1>6, <2>1 DEF Copier
  <2>3. Reader(q)'
    BY <1>1, <1>2, <1>6, <2>1 DEF Reader, Whole
  <2> QED BY <2>2, <2>3
<1> QED BY <1>3, <1>4, <1>5, <1>6 DEF Content

LEMMA SearchingStep ==
  ASSUME Searching, NEW r \in Request, OneMoved(r), Searches(req'[r]), Found(req'[r])
  PROVE  Searching'
<1> SUFFICES ASSUME NEW q \in Request, q # r PROVE Searches(req'[q]) /\ Found(req'[q])
  BY DEF Searching, Searches, Found, Finds, WillFind
<1>1. Searches(req[q]) /\ Found(req[q])
  BY DEF Searching
<1>2. /\ req'[q].at = req[q].at /\ req'[q].kind = req[q].kind /\ req'[q].got = req[q].got
      /\ req'[q].todo = req[q].todo /\ req'[q].stays = req[q].stays \cap Path
      /\ (req[q].at # "empty" => req'[q].from = req[q].from)
  BY DEF OneMoved, Same
<1> QED BY <1>1, <1>2 DEF Searches, Found, Finds, WillFind

Kept(p) == p \in Path /\ p \in Path' /\ tree'[p] = tree[p]
Made(p) == p \in Known /\ (unusual' = {} => p \in Seq(Name)) /\ (tree'[p] # Dir => Origin(p))
KeepsWriting(r) == Writes(r)' =>
  /\ Writes(r) /\ req'[r].out = req[r].out /\ req'[r].done = req[r].done
  /\ (req'[r].at = "replace" => req[r].done = Chunks)
KeepsTemp(r) == unusual' = {} /\ req[r].at \in Temporary =>
  (req'[r].at \in Temporary /\ req'[r].to = req[r].to) \/ Temp(r) \notin Path'

LEMMA KeptOrigin ==
  ASSUME Content, NEW p \in Path, tree'[p] = tree[p], tree'[p] # Dir
  PROVE  Origin(p)
<1>1. CASE p = <<>>
  BY <1>1 DEF Content, Store, IsFile, Origin
<1>2. CASE p # <<>>
  BY <1>2 DEF Origin, CameFrom
<1> QED BY <1>1, <1>2

LEMMA StepKeeps ==
  ASSUME IInv, NEW r \in Request, OneMoved(r), Requests', Known \subseteq Known',
         data' = data, inPlace' = inPlace, unusual' = {} => unusual = {},
         IsTree(tree'), Path' \subseteq Known', \A p \in Path' : tree'[p] # Dir => Origin(p),
         unusual' = {} => \A p \in Path' : Kept(p) \/ p \in Seq(Name),
         KeepsTemp(r), unusual' = {} => CopiesNames(r)', KeepsWriting(r), Copier(r)', Reader(r)',
         Searches(req'[r]), Found(req'[r])
  PROVE  IInv'
<1>1. Rooted'
  BY DEF Rooted
<1>2. Owned'
  BY OwnedStep DEF IInv, Kept, KeepsTemp
<1>3. Content'
  BY ContentStep DEF IInv, KeepsWriting
<1>4. Searching'
  BY SearchingStep DEF IInv
<1> QED BY <1>1, <1>2, <1>3, <1>4 DEF IInv

LEMMA QuietStep ==
  ASSUME IInv, NEW r \in Request, OneMoved(r), Requests', Known \subseteq Known', Untouched,
         req[r].at \in Temporary => req'[r].at \in Temporary /\ req'[r].to = req[r].to,
         unusual = {} => CopiesNames(r)', KeepsWriting(r), Copier(r)', Reader(r)',
         Searches(req'[r]), Found(req'[r])
  PROVE  IInv'
<1>1. tree' = tree /\ data' = data /\ inPlace' = inPlace /\ unusual' = unusual
  BY DEF Untouched
<1>2. Path' = Path /\ \A p \in Path' : Kept(p)
  BY <1>1 DEF Path, Kept
<1>3. IsTree(tree') /\ Path' \subseteq Known'
  BY <1>1, <1>2 DEF IInv, Rooted, IsTree
<1>4. \A p \in Path' : tree'[p] # Dir => Origin(p)
  BY <1>2, KeptOrigin DEF IInv, Kept
<1>5. KeepsTemp(r)
  BY <1>1 DEF KeepsTemp
<1> QED BY <1>1, <1>2, <1>3, <1>4, <1>5, StepKeeps

(* The states in which nothing is said of what the request has in hand.       *)
PlainStates == {"new", "create", "clean", "open", "move", "remove", "empty", "copying", "listing", "ended"}

LEMMA PlainRecord ==
  ASSUME NEW r \in Request, req'[r].at \in PlainStates
  PROVE  KeepsWriting(r) /\ Copier(r)' /\ Reader(r)' /\ Searches(req'[r]) /\ Found(req'[r])
<1>1. req'[r].at \notin {"begun", "fill", "replace", "pour", "target", "reading", "answered"}
  BY DEF PlainStates
<1>2. KeepsWriting(r)
  BY <1>1 DEF KeepsWriting, Writes
<1>3. Copier(r)' /\ Reader(r)'
  BY <1>1 DEF Copier, Reader
<1> QED BY <1>1, <1>2, <1>3 DEF Searches, Found

LEMMA PlainStep ==
  ASSUME IInv, NEW r \in Request, OneMoved(r), Requests', Known \subseteq Known',
         data' = data, inPlace' = inPlace, unusual' = {} => unusual = {},
         IsTree(tree'), \A p \in Path' : Kept(p) \/ Made(p),
         KeepsTemp(r), unusual' = {} => CopiesNames(r)', req'[r].at \in PlainStates
  PROVE  IInv'
<1>1. Path' \subseteq Known'
  BY DEF Kept, Made, IInv, Rooted
<1>2. \A p \in Path' : tree'[p] # Dir => Origin(p)
  BY KeptOrigin DEF Kept, Made, IInv
<1>3. unusual' = {} => \A p \in Path' : Kept(p) \/ p \in Seq(Name)
  BY DEF Made
<1> QED BY <1>1, <1>2, <1>3, PlainRecord, StepKeeps

LEMMA EndsStep ==
  ASSUME IInv, NEW r \in Request, Ends(r), data' = data, inPlace' = inPlace, unusual' = unusual,
         IsTree(tree'), \A p \in Path' : Kept(p) \/ Made(p),
         KeepsTemp(r)
  PROVE  IInv'
<1>1. Requests' /\ Known \subseteq Known' /\ OneMoved(r) /\ req'[r].at = "ended"
  BY EndsKeeps DEF IInv
<1>2. CopiesNames(r)' /\ req'[r].at \in PlainStates
  BY <1>1 DEF CopiesNames, Copies, CopyStates, PlainStates
<1> QED BY <1>1, <1>2, PlainStep

LEMMA EndsQuietly ==
  ASSUME IInv, NEW r \in Request, Ends(r), Untouched, req[r].at \notin Temporary
  PROVE  IInv'
<1>1. tree' = tree /\ data' = data /\ inPlace' = inPlace /\ unusual' = unusual
  BY DEF Untouched
<1>2. \A p \in Path' : Kept(p)
  BY <1>1 DEF Path, Kept
<1>3. IsTree(tree')
  BY <1>1 DEF IInv, Rooted, IsTree
<1>4. KeepsTemp(r)
  BY DEF KeepsTemp
<1> QED BY <1>1, <1>2, <1>3, <1>4, EndsStep

LEMMA GoesStep ==
  ASSUME IInv, NEW r \in Request, Untouched,
         NEW at \in {"create", "clean", "open", "move", "remove", "empty"}, GoesTo(r, at),
         r \in Spent => at \in SpentStates, req[r].at \in Temporary => at \in Temporary,
         at \in {"create", "clean"} => req[r].kind = "write",
         at = "move" => req[r].kind = "rename", at = "open" => req[r].kind = "read",
         at \in {"create", "open"} => req[r].at = "begun",
         at \in {"remove", "empty"} => req[r].kind \in {"delete", "deleteAll"}
  PROVE  IInv'
<1>1. at \in States \ {"begun", "reading"} /\ at \notin CopyStates /\ at \notin {"fill", "replace"} /\ at \in PlainStates
  BY DEF States, CopyStates, PlainStates
<1>2. Requests' /\ Known \subseteq Known' /\ OneMoved(r) /\ GoesOn(r, at)
  BY <1>1, GoesKeeps DEF IInv
<1>3. CopiesNames(r)' /\ req'[r].at \in PlainStates
  BY <1>1, <1>2 DEF CopiesNames, Copies, GoesOn
<1>4. req[r].at \in Temporary => req'[r].at \in Temporary /\ req'[r].to = req[r].to
  BY <1>2 DEF GoesOn
<1>5. KeepsWriting(r) /\ Copier(r)' /\ Reader(r)' /\ Searches(req'[r]) /\ Found(req'[r])
  BY <1>3, PlainRecord
<1> QED BY <1>2, <1>3, <1>4, <1>5, QuietStep

-----------------------------------------------------------------------------
(* The steps that only read.                                                  *)
LEMMA BeginKeeps == ASSUME IInv, NEW r \in Request, Begin(r) PROVE IInv'
<1>1. req[r].at = "new" /\ Untouched /\ req[r].at \notin Temporary /\ r \notin Spent
  BY DEF Begin, At, Temporary, Spent, SpentStates
<1>2. ASSUME NEW op \in Operation, Resolvable(op.from), Resolvable(op.to),
             Moves(r, [Idle EXCEPT !.at = "begun", !.kind = op.kind, !.from = Resolve(op.from),
                                   !.to = Resolve(op.to), !.stays = Path, !.todo = << <<>> >>])
      PROVE  IInv'
  <2> DEFINE new == [Idle EXCEPT !.at = "begun", !.kind = op.kind, !.from = Resolve(op.from),
                                 !.to = Resolve(op.to), !.stays = Path, !.todo = << <<>> >>]
  <2>1. Resolve(op.from) \in Seq(Name) /\ Resolve(op.to) \in Seq(Name)
    BY <1>2, FilesAssumption, EmptySeq DEF Resolvable, Resolve
  <2>2. << <<>> >> \in Seq(Paths) /\ Path \subseteq Paths
    BY RootAbove DEF IInv, Rooted, IsTree, Path
  <2>3. "begun" \in States /\ op.kind \in {o.kind : o \in Operation}
    BY DEF States
  <2>4. new \in Record
    BY <2>1, <2>2, <2>3, IdleTyped DEF Record
  <2>5. new.at = "begun" /\ new.todo = << <<>> >> /\ new.done = 0 /\ new.got = <<>>
    BY DEF Idle
  <2> HIDE DEF new
  <2>6. Shape(new, Known)
    BY <2>2, <2>5, EmptySeq DEF Shape, CopyStates
  <2>7. /\ Requests' /\ Known \subseteq Known' /\ OneMoved(r)
        /\ Same(req'[r], new) /\ req'[r].stays = new.stays \cap Path
    BY <1>1, <1>2, <2>4, <2>6, MovesKeeps DEF new, IInv
  <2>8. req'[r].at = "begun" /\ req'[r].todo = << <<>> >> /\ req'[r].stays \subseteq Path
    BY <2>5, <2>7 DEF Same
  <2>9. ASSUME NEW p \in req'[r].stays, p # <<>> PROVE WillFind(req'[r], p)
    BY <2>2, <2>8, <2>9, RootAbove DEF WillFind
  <2>10. Searches(req'[r]) /\ Found(req'[r])
    BY <2>8, <2>9 DEF Searches, Found
  <2>11. CopiesNames(r)' /\ KeepsWriting(r) /\ Copier(r)' /\ Reader(r)'
    BY <2>8 DEF CopiesNames, Copies, CopyStates, KeepsWriting, Writes, Copier, Reader
  <2> QED BY <1>1, <2>7, <2>10, <2>11, QuietStep
<1>3. CASE Ends(r)
  BY <1>1, <1>3, EndsQuietly
<1> QED BY <1>2, <1>3 DEF Begin

LEMMA ChecksKeep ==
  ASSUME IInv, NEW r \in Request, WriteCheck(r) \/ ReadStat(r) \/ RenameCheck(r) \/ DeleteCheck(r)
  PROVE  IInv'
<1>1. req[r].at = "begun" /\ Untouched /\ req[r].at \notin Temporary /\ r \notin Spent
  BY DEF WriteCheck, ReadStat, RenameCheck, DeleteCheck, Is, At, Temporary, Spent, SpentStates
<1>2. CASE Ends(r)
  BY <1>1, <1>2, EndsQuietly
<1>3. CASE GoesTo(r, "create") /\ req[r].kind = "write"
  BY <1>1, <1>3, GoesStep
<1>4. CASE GoesTo(r, "open") /\ req[r].kind = "read"
  BY <1>1, <1>4, GoesStep
<1>5. CASE GoesTo(r, "move") /\ req[r].kind = "rename"
  BY <1>1, <1>5, GoesStep
<1>6. CASE GoesTo(r, "remove") /\ req[r].kind \in {"delete", "deleteAll"}
  BY <1>1, <1>6, GoesStep
<1> QED BY <1>2, <1>3, <1>4, <1>5, <1>6 DEF WriteCheck, ReadStat, RenameCheck, DeleteCheck, Is

LEMMA FillFailsKeeps == ASSUME IInv, NEW r \in Request, FillFails(r) PROVE IInv'
<1>1. req[r].at = "fill" /\ Untouched /\ GoesTo(r, "clean")
  BY DEF FillFails, At
<1>2. req[r].kind = "write"
  BY <1>1 DEF IInv, Requests, Shape
<1> QED BY <1>1, <1>2, GoesStep DEF SpentStates, Temporary

LEMMA FillEndsKeeps == ASSUME IInv, NEW r \in Request, FillEnds(r) PROVE IInv'
<1>1. req[r].at = "fill" /\ req[r].done = Chunks /\ Untouched /\ GoesTo(r, "replace")
  BY DEF FillEnds, At
<1>2. req[r].kind = "write"
  BY <1>1 DEF IInv, Requests, Shape
<1>3. "replace" \in States \ {"begun", "reading"} /\ "replace" \in SpentStates /\ "replace" \notin CopyStates
  BY DEF States, SpentStates, CopyStates
<1>4. Requests' /\ Known \subseteq Known' /\ OneMoved(r) /\ GoesOn(r, "replace")
  BY <1>1, <1>2, <1>3, GoesKeeps DEF IInv
<1>5. KeepsWriting(r)
  BY <1>1, <1>4 DEF KeepsWriting, GoesOn, Writes
<1>6. CopiesNames(r)' /\ Copier(r)' /\ Reader(r)' /\ Searches(req'[r]) /\ Found(req'[r])
  BY <1>4 DEF CopiesNames, Copies, CopyStates, Copier, Reader, Searches, Found, GoesOn
<1>7. req'[r].at \in Temporary /\ req'[r].to = req[r].to
  BY <1>4 DEF GoesOn, Temporary
<1> QED BY <1>1, <1>4, <1>5, <1>6, <1>7, QuietStep

LEMMA ReadOpenKeeps == ASSUME IInv, NEW r \in Request, ReadOpen(r) PROVE IInv'
<1>1. req[r].at = "open" /\ Untouched /\ req[r].at \notin Temporary /\ r \notin Spent
  BY DEF ReadOpen, At, Temporary, Spent, SpentStates
<1>2. CASE Ends(r)
  BY <1>1, <1>2, EndsQuietly
<1> DEFINE p == req[r].from
           new == [req[r] EXCEPT !.at = "reading", !.in = tree[p]]
<1>3. CASE IsFile(p) /\ Moves(r, new)
  <2>1. req[r] \in Record /\ p \in Seq(Name) /\ Shape(req[r], Known)
    BY DEF IInv, Requests, Record
  <2>2. req[r].done = 0 /\ req[r].got = <<>> /\ req[r].kind = "read"
    BY <1>1, <2>1 DEF Shape
  <2>3. tree[p] \in 0 .. MaxInode /\ tree[p] # 0 /\ p \in Path
    BY <1>3 DEF IInv, Rooted, IsTree, IsFile, Path, Dir
  <2>4. new \in Record /\ new.at = "reading" /\ new.kind = "read" /\ new.in = tree[p] /\ new.done = 0 /\ new.got = <<>>
    BY <2>1, <2>2, <2>3 DEF Record, States
  <2> HIDE DEF new
  <2>5. Shape(new, Known)
    BY <2>4, EmptySeq DEF Shape, CopyStates
  <2>6. /\ Requests' /\ Known \subseteq Known' /\ OneMoved(r)
        /\ Same(req'[r], new) /\ req'[r].stays = new.stays \cap Path
    BY <1>1, <1>3, <2>4, <2>5, MovesKeeps DEF IInv
  <2>7. req'[r].at = "reading" /\ req'[r].in = tree[p] /\ req'[r].done = 0 /\ req'[r].got = <<>>
    BY <2>4, <2>6 DEF Same
  <2>8. data' = data /\ inPlace' = inPlace
    BY <1>1 DEF Untouched
  <2>9. ASSUME tree[p] \notin inPlace
        PROVE  /\ Whole(data[tree[p]]) /\ data[tree[p]] \in Seq(Chunk)
               /\ \A q \in Request : Writes(q) => req[q].out # tree[p]
    <3>1. p # <<>>
      BY <1>3, <2>9 DEF IInv, Content, Store
    <3>2. Last(p) \in Name
      BY <2>1, <3>1, DirFacts
    <3>3. Whole(data[tree[p]]) /\ data[tree[p]] \in Seq(Chunk)
      BY <1>3, <2>3, <2>9, <3>1, <3>2 DEF IInv, Content, Store, NamedIsWhole
    <3>4. ASSUME NEW q \in Request, Writes(q) PROVE req[q].out # tree[p]
      <4>1. Writer(q)
        BY DEF IInv, Content
      <4>2. tree[p] = req[q].out => Last(p) = q
        BY <2>3, <2>9, <3>4, <4>1 DEF Writer
      <4> QED BY <3>2, <4>2, FilesAssumption
    <3> QED BY <3>3, <3>4
  <2>10. Reader(r)'
    <3>1. ASSUME tree[p] \notin inPlace
          PROVE  /\ Whole(data[tree[p]]) /\ 0 <= Len(data[tree[p]]) /\ <<>> = SubSeq(data[tree[p]], 1, 0)
                 /\ \A q \in Request : Writes(q)' => req'[q].out # tree[p]
      <4>1. /\ Whole(data[tree[p]]) /\ data[tree[p]] \in Seq(Chunk)
            /\ \A q \in Request : Writes(q) => req[q].out # tree[p]
        BY <2>9, <3>1
      <4>2. <<>> = SubSeq(data[tree[p]], 1, 0)
        BY <4>1, SubSeqEmpty
      <4>3. \A q \in Request : Writes(q)' => Writes(q) /\ req'[q].out = req[q].out
        BY <2>6, <2>7 DEF Writes, OneMoved, Same
      <4> QED BY <4>1, <4>2, <4>3
    <3> QED BY <2>3, <2>7, <2>8, <3>1 DEF Reader, Whole
  <2>11. CopiesNames(r)' /\ Copier(r)' /\ Searches(req'[r]) /\ Found(req'[r]) /\ KeepsWriting(r)
    BY <2>7 DEF CopiesNames, Copies, CopyStates, Copier, Searches, Found, KeepsWriting, Writes
  <2> QED BY <1>1, <2>6, <2>10, <2>11, QuietStep
<1> QED BY <1>2, <1>3 DEF ReadOpen

LEMMA NextChunk ==
  ASSUME NEW S, NEW s \in Seq(S), NEW n \in Nat, n < Len(s)
  PROVE  s[n + 1] \in S /\ SubSeq(s, 1, n + 1) = Append(SubSeq(s, 1, n), s[n + 1])
<1>1. Len(s) \in Nat /\ \A i \in 1 .. Len(s) : s[i] \in S
  BY ElementOfSeq
<1> DEFINE a == SubSeq(s, 1, n)
           m == n + 1
           b == SubSeq(s, 1, m)
<1>2. s[n + 1] \in S /\ \A i \in 1 .. n : s[i] \in S
  BY <1>1
<1>3. a \in Seq(S) /\ Len(a) = n /\ \A i \in 1 .. n : a[i] = s[i]
  BY <1>2, SubSeqProperties
<1>4. m \in Nat /\ 1 <= m /\ \A i \in 1 .. m : s[i] \in S
  BY <1>1
<1> HIDE DEF a, m
<1>5. b \in Seq(S) /\ Len(b) = m /\ \A i \in 1 .. m : b[i] = s[i]
  BY <1>4, SubSeqProperties
<1> HIDE DEF b
<1>6. /\ Append(a, s[n + 1]) \in Seq(S) /\ Len(Append(a, s[n + 1])) = n + 1
      /\ Append(a, s[n + 1])[n + 1] = s[n + 1] /\ \A i \in 1 .. n : Append(a, s[n + 1])[i] = s[i]
  BY <1>2, <1>3, AppendProperties
<1>7. b = Append(a, s[n + 1])
  BY <1>5, <1>6, SeqEqual DEF m
<1> QED BY <1>2, <1>7 DEF a, b, m

LEMMA ReadChunkKeeps == ASSUME IInv, NEW r \in Request, ReadChunk(r) PROVE IInv'
<1> DEFINE s == data[req[r].in]
           n == req[r].done
           got == Append(req[r].got, s[n + 1])
           new == [req[r] EXCEPT !.done = n + 1, !.got = got]
<1>1. /\ req[r].at = "reading" /\ Untouched /\ req[r].at \notin Temporary /\ r \notin Spent
      /\ n < Len(s) /\ Moves(r, new)
  BY DEF ReadChunk, At, Temporary, Spent, SpentStates
<1>2. req[r] \in Record /\ n \in Nat /\ Reader(r) /\ req[r].in # 0 /\ req[r].in \in 1 .. MaxInode
  BY <1>1, FilesAssumption DEF IInv, Requests, Content, Reader, Record
<1>3. s \in Seq(Chunk) /\ Len(s) \in Nat
  BY <1>2 DEF IInv, Content, Store
<1>4. s[n + 1] \in Chunk /\ SubSeq(s, 1, n + 1) = Append(SubSeq(s, 1, n), s[n + 1])
  BY <1>1, <1>2, <1>3, NextChunk
<1>5. req[r].kind = "read" /\ req[r].got \in Seq(Chunk)
  BY <1>1 DEF IInv, Requests, Shape
<1>6. got \in Seq(Chunk) /\ n + 1 \in Nat
  BY <1>2, <1>4, <1>5, AppendProperties
<1> HIDE DEF got
<1>7. new \in Record /\ new.at = "reading" /\ new.kind = "read" /\ new.in = req[r].in /\ new.done = n + 1 /\ new.got = got
  BY <1>1, <1>2, <1>5, <1>6 DEF Record
<1> HIDE DEF new
<1>8. Shape(new, Known)
  BY <1>6, <1>7 DEF Shape, CopyStates
<1>9. Requests' /\ Known \subseteq Known' /\ OneMoved(r) /\ Same(req'[r], new)
  BY <1>1, <1>7, <1>8, MovesKeeps DEF IInv
<1>10. req'[r].at = "reading" /\ req'[r].in = req[r].in /\ req'[r].done = n + 1 /\ req'[r].got = got
  BY <1>7, <1>9 DEF Same
<1>11. data' = data /\ inPlace' = inPlace
  BY <1>1 DEF Untouched
<1>12. ASSUME req[r].in \notin inPlace
       PROVE  /\ Whole(s) /\ n + 1 <= Len(s) /\ got = SubSeq(s, 1, n + 1)
              /\ \A q \in Request : Writes(q)' => req'[q].out # req[r].in
  <2>1. /\ Whole(s) /\ req[r].got = SubSeq(s, 1, n)
        /\ \A q \in Request : Writes(q) => req[q].out # req[r].in
    BY <1>1, <1>2, <1>12 DEF Reader
  <2>2. \A q \in Request : Writes(q)' => Writes(q) /\ req'[q].out = req[q].out
    BY <1>9, <1>10 DEF Writes, OneMoved, Same
  <2>3. n + 1 <= Len(s)
    BY <1>1, <1>2, <1>3
  <2> QED BY <1>4, <2>1, <2>2, <2>3 DEF got
<1>13. Reader(r)'
  BY <1>2, <1>10, <1>11, <1>12 DEF Reader, Whole
<1>14. CopiesNames(r)' /\ Copier(r)' /\ Searches(req'[r]) /\ Found(req'[r]) /\ KeepsWriting(r)
  BY <1>10 DEF CopiesNames, Copies, CopyStates, Copier, Searches, Found, KeepsWriting, Writes
<1> QED BY <1>1, <1>9, <1>13, <1>14, QuietStep

LEMMA ReadEndKeeps == ASSUME IInv, NEW r \in Request, ReadEnd(r) PROVE IInv'
<1> DEFINE s == data[req[r].in]
<1>1. /\ req[r].at = "reading" /\ Untouched /\ req[r].at \notin Temporary /\ r \notin Spent
      /\ req[r].done >= Len(s) /\ GoesTo(r, "answered")
  BY DEF ReadEnd, At, Temporary, Spent, SpentStates
<1>2. "answered" \in States \ {"begun", "reading"} /\ "answered" \notin CopyStates
  BY DEF States, CopyStates
<1>3. Requests' /\ Known \subseteq Known' /\ OneMoved(r) /\ GoesOn(r, "answered")
  BY <1>1, <1>2, GoesKeeps DEF IInv
<1>4. req[r] \in Record /\ Reader(r) /\ req[r].in \in 1 .. MaxInode
  BY <1>1, FilesAssumption DEF IInv, Requests, Content, Reader, Record
<1>5. req[r].done \in Nat /\ s \in Seq(Chunk) /\ Len(s) \in Nat
  BY <1>4 DEF Record, IInv, Content, Store
<1>6. req[r].in \notin inPlace => Whole(req[r].got)
  <2>1. SubSeq(s, 1, Len(s)) = s
    BY <1>5, SubSeqFull
  <2>2. ASSUME req[r].in \notin inPlace PROVE Whole(req[r].got)
    <3>1. Whole(s) /\ req[r].done <= Len(s) /\ req[r].got = SubSeq(s, 1, req[r].done)
      BY <1>1, <1>4, <2>2 DEF Reader
    <3>2. req[r].done = Len(s)
      BY <1>1, <1>5, <3>1
    <3> HIDE DEF s
    <3> QED BY <2>1, <3>1, <3>2
  <2> QED BY <2>2
<1>7. Reader(r)'
  BY <1>1, <1>3, <1>6 DEF Reader, Whole, GoesOn, Untouched
<1>8. req[r].kind = "read"
  BY <1>1 DEF IInv, Requests, Shape
<1>9. CopiesNames(r)' /\ Copier(r)' /\ Searches(req'[r]) /\ Found(req'[r]) /\ KeepsWriting(r)
  BY <1>3, <1>8 DEF CopiesNames, Copies, CopyStates, Copier, Searches, Found, KeepsWriting, Writes, GoesOn
<1> QED BY <1>1, <1>3, <1>7, <1>9, QuietStep

-----------------------------------------------------------------------------
(* What a listing of a directory returns.                                     *)
LEMMA SetToSeqFacts ==
  ASSUME NEW S, IsFiniteSet(S)
  PROVE  /\ SetToSeq(S) \in Seq(S)
         /\ \A x \in S : \E n \in DOMAIN SetToSeq(S) : SetToSeq(S)[n] = x
<1> DEFINE n == Cardinality(S)
           I == 1 .. n
           f == SetToSeq(S)
<1>1. n \in Nat /\ ExistsBijection(I, S)
  BY FS_CardinalityType
<1>2. \E g \in [I -> S] : IsInjective(g)
  BY <1>1, Zenon DEF ExistsBijection, Bijection, Injection
<1>3. f \in [I -> S] /\ IsInjective(f)
  BY <1>2, Zenon DEF SetToSeq
<1>4. f \in Seq(S) /\ DOMAIN f = I
  BY <1>1, <1>3
<1>5. IsFiniteSet(I) /\ Cardinality(I) = n
  BY <1>1, FS_Interval
<1> HIDE DEF I, n, f
<1>6. f \in Injection(I, S)
  BY <1>3 DEF Injection
<1>7. f \in Surjection(I, S)
  BY <1>5, <1>6, FS_Injection DEF n
<1>8. \A x \in S : \E k \in I : f[k] = x
  BY <1>7, Zenon DEF Surjection
<1> QED BY <1>4, <1>8 DEF f

LEMMA ChildrenFacts ==
  ASSUME IInv, NEW d
  PROVE  /\ IsFiniteSet(Children(d)) /\ Children(d) \subseteq Path \cap Known \cap Paths
         /\ IsFiniteSet(Shown(d)) /\ Shown(d) \subseteq Children(d)
         /\ IsFiniteSet(Enter(d)) /\ Enter(d) \subseteq Shown(d)
<1>1. IsFiniteSet(Path) /\ Path \subseteq Known /\ Path \subseteq Paths
  BY DEF IInv, Rooted, IsTree, Path
<1>2. Children(d) \subseteq Path /\ Shown(d) \subseteq Children(d) /\ Enter(d) \subseteq Shown(d)
  BY DEF Children, Shown, Enter
<1>3. IsFiniteSet(Children(d)) /\ IsFiniteSet(Shown(d)) /\ IsFiniteSet(Enter(d))
  <2>1. IsFiniteSet(Children(d))
    BY <1>1, <1>2, FS_Subset
  <2>2. IsFiniteSet(Shown(d))
    BY <1>2, <2>1, FS_Subset
  <2> QED BY <1>2, <2>1, <2>2, FS_Subset
<1> QED BY <1>1, <1>2, <1>3

(* The steps of a copy that change nothing but the list of what is left.      *)
LEMMA CopyMoves ==
  ASSUME IInv, NEW r \in Request, NEW new \in Record, Moves(r, new), Untouched,
         req[r].at \in CopyStates \cup {"begun"}, new.at \in {"copying", "target"}, Shape(new, Known),
         new.at = "target" => new.in # 0,
         unusual = {} => \A n \in DOMAIN new.todo : new.todo[n].to \in Seq(Name)
  PROVE  IInv'
<1>1. req[r].at \notin Temporary /\ r \notin Spent
  BY DEF CopyStates, Temporary, Spent, SpentStates
<1>2. Requests' /\ Known \subseteq Known' /\ OneMoved(r) /\ Same(req'[r], new)
  BY <1>1, MovesKeeps DEF IInv
<1>3. req'[r].at = new.at /\ req'[r].in = new.in /\ req'[r].todo = new.todo
  BY <1>2 DEF Same
<1>4. unusual = {} => CopiesNames(r)'
  BY <1>3 DEF CopiesNames
<1>5. Copier(r)' /\ Reader(r)' /\ KeepsWriting(r) /\ Searches(req'[r]) /\ Found(req'[r])
  BY <1>3 DEF Copier, Reader, KeepsWriting, Writes, Searches, Found
<1> QED BY <1>1, <1>2, <1>4, <1>5, QuietStep

LEMMA CopyStatKeeps == ASSUME IInv, NEW r \in Request, CopyStat(r) PROVE IInv'
<1> DEFINE x == Item(req[r].from, req[r].to)
           new == [req[r] EXCEPT !.at = "copying", !.todo = <<x>>]
<1>1. req[r].at = "begun" /\ req[r].kind = "copy" /\ Untouched /\ req[r].at \notin Temporary
  BY DEF CopyStat, Is, At, Temporary
<1>2. CASE Ends(r)
  BY <1>1, <1>2, EndsQuietly
<1>3. CASE Moves(r, new)
  <2>1. req[r] \in Record /\ req[r].to \in Seq(Name)
    BY DEF IInv, Requests, Record
  <2>2. req[r].to \in Known /\ req[r].to \in Paths /\ req[r].from \in Paths
    BY <2>1, SeqMonotonic DEF Known, Paths, Names, Record
  <2>3. x \in Items /\ x.to = req[r].to
    BY <2>2 DEF Items, Item, IsDir
  <2> HIDE DEF x
  <2>4. <<x>> \in Seq(Items) /\ DOMAIN <<x>> = {1} /\ <<x>>[1] = x /\ <<x>> # <<>>
    BY <2>3
  <2>5. /\ new \in Record /\ new.at = "copying" /\ new.todo = <<x>> /\ new.kind = "copy"
        /\ new.to = req[r].to
    BY <1>1, <2>1, <2>4 DEF Record, States
  <2> HIDE DEF new
  <2>6. Under(req[r].to, req[r].to)
    BY <2>2, UnderItself
  <2>7. Shape(new, Known)
    BY <2>2, <2>3, <2>4, <2>5, <2>6 DEF Shape
  <2>8. \A n \in DOMAIN new.todo : new.todo[n].to \in Seq(Name)
    BY <2>1, <2>3, <2>4, <2>5
  <2> QED BY <1>1, <1>3, <2>5, <2>7, <2>8, CopyMoves
<1> QED BY <1>2, <1>3 DEF CopyStat

(* What a copy still has to do, and what it does next.                        *)
LEMMA CopyFacts ==
  ASSUME IInv, NEW r \in Request, Copies(r)
  PROVE  /\ req[r] \in Record /\ req[r].kind = "copy" /\ req[r].todo \in Seq(Items)
         /\ req[r].at \notin Temporary /\ r \notin Spent
         /\ \A n \in DOMAIN req[r].todo : req[r].todo[n].to \in Known /\ Under(req[r].todo[n].to, req[r].to)
         /\ unusual = {} => \A n \in DOMAIN req[r].todo : req[r].todo[n].to \in Seq(Name)
         /\ req[r].at # "copying" => req[r].todo # <<>>
         /\ req[r].todo # <<>> =>
              /\ NextItem(r) \in Items /\ NextItem(r).to \in Known /\ Under(NextItem(r).to, req[r].to)
              /\ unusual = {} => NextItem(r).to \in Seq(Name)
<1>1. /\ req[r] \in Record /\ req[r].kind = "copy" /\ req[r].todo \in Seq(Items)
      /\ \A n \in DOMAIN req[r].todo : req[r].todo[n].to \in Known /\ Under(req[r].todo[n].to, req[r].to)
      /\ req[r].at # "copying" => req[r].todo # <<>>
  BY DEF IInv, Requests, Shape, Copies
<1>2. req[r].at \notin Temporary /\ r \notin Spent
  BY DEF Copies, CopyStates, Temporary, Spent, SpentStates
<1>3. unusual = {} => \A n \in DOMAIN req[r].todo : req[r].todo[n].to \in Seq(Name)
  BY DEF IInv, Owned, CopiesNames
<1>4. req[r].todo # <<>> => 1 \in DOMAIN req[r].todo /\ NextItem(r) = req[r].todo[1] /\ NextItem(r) \in Items
  BY <1>1, EmptySeq DEF NextItem
<1> QED BY <1>1, <1>2, <1>3, <1>4

LEMMA TailFacts ==
  ASSUME NEW S, NEW s \in Seq(S), s # <<>>
  PROVE  Tail(s) \in Seq(S) /\ \A n \in DOMAIN Tail(s) : \E m \in DOMAIN s : Tail(s)[n] = s[m]
<1>1. /\ Tail(s) \in Seq(S) /\ Len(Tail(s)) = Len(s) - 1
      /\ \A i \in 1 .. Len(Tail(s)) : Tail(s)[i] = s[i + 1]
  BY HeadTailProperties
<1>2. Len(s) \in Nat /\ DOMAIN s = 1 .. Len(s) /\ DOMAIN Tail(s) = 1 .. Len(Tail(s))
  BY <1>1
<1>3. \A i \in 1 .. Len(Tail(s)) : i + 1 \in DOMAIN s
  BY <1>1, <1>2
<1> QED BY <1>1, <1>2, <1>3

LEMMA CopyOpenKeeps == ASSUME IInv, NEW r \in Request, CopyOpen(r) PROVE IInv'
<1> DEFINE p == NextItem(r).from
           new == [req[r] EXCEPT !.at = "target", !.in = tree[p], !.done = 0]
<1>1. req[r].at = "copying" /\ req[r].todo # <<>> /\ Untouched
  BY DEF CopyOpen, At
<1>2. /\ Copies(r) /\ req[r] \in Record /\ req[r].kind = "copy" /\ req[r].todo \in Seq(Items)
      /\ req[r].at \notin Temporary
      /\ \A n \in DOMAIN req[r].todo : req[r].todo[n].to \in Known /\ Under(req[r].todo[n].to, req[r].to)
      /\ unusual = {} => \A n \in DOMAIN req[r].todo : req[r].todo[n].to \in Seq(Name)
  <2>1. Copies(r)
    BY <1>1 DEF Copies, CopyStates
  <2> QED BY <2>1, CopyFacts
<1>3. CASE Ends(r)
  BY <1>1, <1>2, <1>3, EndsQuietly
<1>4. CASE IsFile(p) /\ Moves(r, new)
  <2>1. tree[p] \in 0 .. MaxInode /\ tree[p] # 0
    BY <1>4 DEF IInv, Rooted, IsTree, IsFile, Path, Dir
  <2>2. /\ new \in Record /\ new.at = "target" /\ new.todo = req[r].todo /\ new.kind = "copy"
        /\ new.to = req[r].to /\ new.in # 0
    BY <1>2, <2>1 DEF Record, States
  <2> HIDE DEF new
  <2>3. Shape(new, Known)
    BY <1>1, <1>2, <2>2 DEF Shape
  <2> QED BY <1>1, <1>2, <1>4, <2>2, <2>3, CopyMoves DEF Copies
<1> QED BY <1>3, <1>4 DEF CopyOpen

LEMMA CopyNextKeeps == ASSUME IInv, NEW r \in Request, CopyNext(r) PROVE IInv'
<1> DEFINE rest == Tail(req[r].todo)
           new == [req[r] EXCEPT !.at = "copying", !.todo = rest, !.in = 0, !.out = 0]
<1>1. req[r].at = "pour" /\ Untouched /\ Moves(r, new)
  BY DEF CopyNext, At
<1>2. /\ Copies(r) /\ req[r] \in Record /\ req[r].kind = "copy" /\ req[r].todo \in Seq(Items)
      /\ \A n \in DOMAIN req[r].todo : req[r].todo[n].to \in Known /\ Under(req[r].todo[n].to, req[r].to)
      /\ unusual = {} => \A n \in DOMAIN req[r].todo : req[r].todo[n].to \in Seq(Name)
      /\ req[r].todo # <<>>
  <2>1. Copies(r)
    BY <1>1 DEF Copies, CopyStates
  <2> QED BY <1>1, <2>1, CopyFacts
<1>3. rest \in Seq(Items) /\ \A n \in DOMAIN rest : \E m \in DOMAIN req[r].todo : rest[n] = req[r].todo[m]
  BY <1>2, TailFacts
<1> HIDE DEF rest
<1>4. 0 \in 0 .. MaxInode
  BY FilesAssumption
<1>5. /\ new \in Record /\ new.at = "copying" /\ new.todo = rest /\ new.kind = "copy" /\ new.to = req[r].to
  BY <1>2, <1>3, <1>4 DEF Record, States
<1> HIDE DEF new
<1>6. Shape(new, Known)
  BY <1>2, <1>3, <1>5 DEF Shape
<1>7. unusual = {} => \A n \in DOMAIN rest : rest[n].to \in Seq(Name)
  BY <1>2, <1>3
<1> QED BY <1>1, <1>2, <1>5, <1>6, <1>7, CopyMoves DEF Copies

LEMMA CopyEndsKeeps == ASSUME IInv, NEW r \in Request, CopyEnds(r) PROVE IInv'
  BY EndsQuietly DEF CopyEnds, At, Temporary

LEMMA ConcatElements ==
  ASSUME NEW S, NEW s \in Seq(S), NEW t \in Seq(S)
  PROVE  /\ Cat(s, t) \in Seq(S)
         /\ \A n \in DOMAIN Cat(s, t) : \/ \E m \in DOMAIN s : Cat(s, t)[n] = s[m]
                                       \/ \E m \in DOMAIN t : Cat(s, t)[n] = t[m]
         /\ \A m \in DOMAIN s : \E n \in DOMAIN Cat(s, t) : Cat(s, t)[n] = s[m]
         /\ \A m \in DOMAIN t : \E n \in DOMAIN Cat(s, t) : Cat(s, t)[n] = t[m]
<1> DEFINE c == Cat(s, t)
<1>1. /\ c \in Seq(S) /\ Len(c) = Len(s) + Len(t)
      /\ \A i \in 1 .. Len(s) + Len(t) : c[i] = IF i <= Len(s) THEN s[i] ELSE t[i - Len(s)]
  BY ConcatProperties DEF Cat
<1>2. /\ Len(s) \in Nat /\ DOMAIN s = 1 .. Len(s) /\ Len(t) \in Nat /\ DOMAIN t = 1 .. Len(t)
      /\ DOMAIN c = 1 .. Len(c)
  BY <1>1
<1> HIDE DEF c
<1>3. ASSUME NEW n \in DOMAIN c
      PROVE  (\E m \in DOMAIN s : c[n] = s[m]) \/ (\E m \in DOMAIN t : c[n] = t[m])
  <2>1. CASE n <= Len(s)
    BY <1>1, <1>2, <2>1
  <2>2. CASE ~(n <= Len(s))
    <3>1. n - Len(s) \in DOMAIN t /\ c[n] = t[n - Len(s)]
      BY <1>1, <1>2, <2>2
    <3> QED BY <3>1
  <2> QED BY <2>1, <2>2
<1>4. ASSUME NEW m \in DOMAIN s PROVE \E n \in DOMAIN c : c[n] = s[m]
  BY <1>1, <1>2
<1>5. ASSUME NEW m \in DOMAIN t PROVE \E n \in DOMAIN c : c[n] = t[m]
  <2>1. Len(s) + m \in DOMAIN c /\ c[Len(s) + m] = t[m]
    BY <1>1, <1>2
  <2> QED BY <2>1
<1> QED BY <1>1, <1>3, <1>4, <1>5 DEF c

LEMMA CopyListKeeps == ASSUME IInv, NEW r \in Request, CopyList(r) PROVE IInv'
<1> DEFINE i == NextItem(r)
           entry(p) == Item(p, Append(i.to, Last(p)))
           E == {entry(p) : p \in Children(i.from)}
           s == SetToSeq(E)
           t == Tail(req[r].todo)
           new == [req[r] EXCEPT !.at = "copying", !.todo = s \o t]
<1>1. req[r].at = "listing" /\ Untouched
  BY DEF CopyList, At
<1>2. Copies(r)
  BY <1>1 DEF Copies, CopyStates
<1>3. /\ req[r] \in Record /\ req[r].kind = "copy" /\ req[r].todo \in Seq(Items)
      /\ req[r].at \notin Temporary /\ req[r].todo # <<>>
      /\ \A n \in DOMAIN req[r].todo : req[r].todo[n].to \in Known /\ Under(req[r].todo[n].to, req[r].to)
      /\ i \in Items /\ i.to \in Known /\ Under(i.to, req[r].to)
  BY <1>1, <1>2, CopyFacts
<1>4. unusual # {}
  BY <1>1, <1>2 DEF IInv, Owned, CopiesNames
<1>5. CASE Ends(r)
  BY <1>1, <1>3, <1>5, EndsQuietly
<1>6. CASE IsDir(i.from) /\ Moves(r, new)
  <2>1. IsFiniteSet(E)
    <3> DEFINE g == [p \in Children(i.from) |-> entry(p)]
    <3>1. g \in Surjection(Children(i.from), E)
      BY DEF Surjection
    <3>2. IsFiniteSet(Children(i.from))
      BY ChildrenFacts
    <3> QED BY <3>1, <3>2, FS_Surjection
  <2>2. ASSUME NEW x \in E PROVE x \in Items /\ x.to \in Known /\ Under(x.to, req[r].to)
    <3>1. PICK p \in Children(i.from) : x = entry(p)
      OBVIOUS
    <3>2. p \in Path /\ p \in Known /\ p \in Paths /\ p # <<>>
      BY ChildrenFacts DEF Children
    <3> DEFINE S == Name \cup Spent
               q == Append(i.to, Last(p))
    <3>3. Last(p) \in S
      BY <3>2, DirFacts DEF Known
    <3>4. q \in Seq(S) /\ DirOf(q) = i.to
      BY <1>3, <3>3, AppendFacts DEF Known
    <3>5. S \subseteq Names /\ req[r].to \in Seq(Name)
      BY <1>3 DEF Spent, Names, Record
    <3>6. q \in Known /\ q \in Paths /\ i.to \in Paths /\ req[r].to \in Paths
      BY <1>3, <3>4, <3>5, SeqMonotonic DEF Known, Paths, Names
    <3> HIDE DEF q
    <3>7. Under(q, i.to)
      BY <3>4, <3>6, DirAbove
    <3>8. Under(q, req[r].to)
      BY <1>3, <3>6, <3>7, UnderTransitive
    <3>9. x = [from |-> p, to |-> q, dir |-> IsDir(p)]
      BY <3>1 DEF Item, q
    <3>10. IsDir(p) \in BOOLEAN
      BY DEF IsDir
    <3> QED BY <3>2, <3>6, <3>8, <3>9, <3>10 DEF Items
  <2>3. E \subseteq Items
    BY <2>2
  <2> HIDE DEF E
  <2>4. s \in Seq(E)
    BY <2>1, SetToSeqFacts
  <2>5. s \in Seq(Items) /\ \A n \in DOMAIN s : s[n] \in E
    BY <2>3, <2>4, SeqMonotonic
  <2>6. t \in Seq(Items) /\ \A n \in DOMAIN t : \E m \in DOMAIN req[r].todo : t[n] = req[r].todo[m]
    BY <1>3, TailFacts
  <2> HIDE DEF s, t
  <2> DEFINE c == Cat(s, t)
  <2>7. /\ c \in Seq(Items)
        /\ \A n \in DOMAIN c : (\E m \in DOMAIN s : c[n] = s[m]) \/ (\E m \in DOMAIN t : c[n] = t[m])
    BY <2>5, <2>6, ConcatElements
  <2> HIDE DEF c
  <2>8. /\ new \in Record /\ new.at = "copying" /\ new.todo = c /\ new.kind = "copy" /\ new.to = req[r].to
    BY <1>3, <2>7 DEF Record, States, c, Cat
  <2> HIDE DEF new
  <2>9. \A n \in DOMAIN c : c[n].to \in Known /\ Under(c[n].to, req[r].to)
    BY <1>3, <2>2, <2>5, <2>6, <2>7
  <2>10. Shape(new, Known)
    BY <2>7, <2>8, <2>9 DEF Shape
  <2> QED BY <1>1, <1>2, <1>4, <1>6, <2>8, <2>10, CopyMoves DEF Copies
<1> QED BY <1>5, <1>6 DEF CopyList

LEMMA ListKeeps == ASSUME IInv, NEW r \in Request, List(r) PROVE IInv'
<1> DEFINE d == req[r].from
           s == SetToSeq(Shown(d))
           new == [req[r] EXCEPT !.at = "answered", !.got = s]
<1>1. /\ req[r].at = "begun" /\ req[r].kind = "list" /\ Untouched /\ req[r].at \notin Temporary /\ r \notin Spent
  BY DEF List, Is, At, Temporary, Spent, SpentStates
<1>2. CASE Ends(r)
  BY <1>1, <1>2, EndsQuietly
<1>3. CASE Moves(r, new)
  <2>1. IsFiniteSet(Shown(d)) /\ Shown(d) \subseteq Paths
    BY ChildrenFacts
  <2>2. s \in Seq(Shown(d)) /\ \A x \in Shown(d) : \E n \in DOMAIN s : s[n] = x
    BY <2>1, SetToSeqFacts
  <2>3. s \in Seq(Paths)
    BY <2>1, <2>2, SeqMonotonic
  <2> HIDE DEF s
  <2>4. req[r] \in Record
    BY DEF IInv, Requests
  <2>5. /\ new \in Record /\ new.at = "answered" /\ new.kind = "list" /\ new.got = s /\ new.from = d
        /\ new.stays = req[r].stays
    BY <1>1, <2>3, <2>4 DEF Record, States
  <2> HIDE DEF new
  <2>6. Shape(new, Known)
    BY <2>5 DEF Shape, CopyStates
  <2>7. /\ Requests' /\ Known \subseteq Known' /\ OneMoved(r)
        /\ Same(req'[r], new) /\ req'[r].stays = new.stays \cap Path
    BY <1>1, <1>3, <2>5, <2>6, MovesKeeps DEF IInv
  <2>8. /\ req'[r].at = "answered" /\ req'[r].kind = "list" /\ req'[r].got = s /\ req'[r].from = d
        /\ req'[r].stays \subseteq Path
    BY <2>5, <2>7 DEF Same
  <2>9. ASSUME NEW p \in Path, p # <<>>, p \in Seq(Name \ Hidden), DirOf(p) = d
        PROVE  Finds(req'[r], p)
    <3>1. Last(p) \in Name \ Hidden
      BY <2>9, DirFacts
    <3>2. p \in Shown(d)
      BY <2>9, <3>1 DEF Shown, Children
    <3> QED BY <2>2, <2>8, <3>2 DEF Finds
  <2>10. Found(req'[r]) /\ Searches(req'[r])
    BY <2>8, <2>9 DEF Found, Searches
  <2>11. CopiesNames(r)' /\ KeepsWriting(r) /\ Copier(r)' /\ Reader(r)'
    BY <2>8 DEF CopiesNames, Copies, CopyStates, KeepsWriting, Writes, Copier, Reader
  <2> QED BY <1>1, <2>7, <2>10, <2>11, QuietStep
<1> QED BY <1>2, <1>3 DEF List

LEMMA SearchEndsKeeps == ASSUME IInv, NEW r \in Request, SearchEnds(r) PROVE IInv'
<1>1. /\ req[r].at = "begun" /\ req[r].kind = "search" /\ Untouched /\ req[r].at \notin Temporary
      /\ r \notin Spent /\ req[r].todo = <<>> /\ GoesTo(r, "answered")
  BY DEF SearchEnds, Is, At, Temporary, Spent, SpentStates
<1>2. "answered" \in States \ {"begun", "reading"} /\ "answered" \notin CopyStates
  BY DEF States, CopyStates
<1>3. Requests' /\ Known \subseteq Known' /\ OneMoved(r) /\ GoesOn(r, "answered")
  BY <1>1, <1>2, GoesKeeps DEF IInv
<1>4. Searches(req[r])
  BY DEF IInv, Searching
<1>5. ASSUME NEW p \in req[r].stays, p # <<>>, p \in Seq(Name \ Hidden)
      PROVE  Finds(req[r], p)
  <2>1. Finds(req[r], p) \/ WillFind(req[r], p)
    BY <1>1, <1>4, <1>5 DEF Searches
  <2>2. ~WillFind(req[r], p)
    BY <1>1 DEF WillFind
  <2> QED BY <2>1, <2>2
<1>6. Found(req'[r]) /\ Searches(req'[r])
  BY <1>3, <1>5 DEF Found, Searches, GoesOn, Finds
<1>7. CopiesNames(r)' /\ KeepsWriting(r) /\ Copier(r)' /\ Reader(r)'
  BY <1>1, <1>3 DEF GoesOn, CopiesNames, Copies, CopyStates, KeepsWriting, Writes, Copier, Reader
<1> QED BY <1>1, <1>3, <1>6, <1>7, QuietStep

LEMMA SearchDirKeeps == ASSUME IInv, NEW r \in Request, SearchDir(r) PROVE IInv'
<1> DEFINE d == Head(req[r].todo)
           s == SetToSeq(Shown(d))
           e == SetToSeq(Enter(d))
           t == Tail(req[r].todo)
           new == [req[r] EXCEPT !.got = req[r].got \o s, !.todo = e \o t]
<1>1. /\ req[r].at = "begun" /\ req[r].kind = "search" /\ Untouched /\ req[r].at \notin Temporary
      /\ r \notin Spent /\ req[r].todo # <<>>
  BY DEF SearchDir, Is, At, Temporary, Spent, SpentStates
<1>2. CASE Ends(r)
  BY <1>1, <1>2, EndsQuietly
<1>3. CASE ~IsFile(d) /\ Moves(r, new)
  <2>1. req[r] \in Record /\ req[r].todo \in Seq(Paths) /\ req[r].got \in Seq(Paths) /\ req[r].done = 0
    BY <1>1 DEF IInv, Requests, Shape
  <2>2. /\ d \in Paths /\ t \in Seq(Paths) /\ Len(t) = Len(req[r].todo) - 1 /\ d = req[r].todo[1]
        /\ \A n \in 1 .. Len(t) : t[n] = req[r].todo[n + 1]
    BY <1>1, <2>1, HeadTailProperties
  <2>3. /\ IsFiniteSet(Shown(d)) /\ Shown(d) \subseteq Paths
        /\ IsFiniteSet(Enter(d)) /\ Enter(d) \subseteq Paths
    BY ChildrenFacts
  <2>4. s \in Seq(Shown(d)) /\ \A x \in Shown(d) : \E n \in DOMAIN s : s[n] = x
    BY <2>3, SetToSeqFacts
  <2>5. e \in Seq(Enter(d)) /\ \A x \in Enter(d) : \E n \in DOMAIN e : e[n] = x
    BY <2>3, SetToSeqFacts
  <2>6. s \in Seq(Paths) /\ e \in Seq(Paths)
    BY <2>3, <2>4, <2>5, SeqMonotonic
  <2>7. DOMAIN t = 1 .. Len(t) /\ Len(t) \in Nat /\ Len(req[r].todo) \in Nat
        /\ DOMAIN req[r].todo = 1 .. Len(req[r].todo)
    BY <2>1, <2>2
  <2> HIDE DEF s, e, t, d
  <2> DEFINE old == req[r].got
             got == Cat(old, s)
             todo == Cat(e, t)
  <2>17. old \in Seq(Paths) /\ s \in Seq(Paths) /\ e \in Seq(Paths) /\ t \in Seq(Paths)
    BY <2>1, <2>2, <2>6
  <2> HIDE DEF old
  <2>8. /\ got \in Seq(Paths)
        /\ \A m \in DOMAIN old : \E n \in DOMAIN got : got[n] = old[m]
        /\ \A m \in DOMAIN s : \E n \in DOMAIN got : got[n] = s[m]
    <3>1. old \in Seq(Paths) /\ s \in Seq(Paths)
      BY <2>17
    <3> QED BY <3>1, ConcatElements
  <2>9. /\ todo \in Seq(Paths)
        /\ \A m \in DOMAIN e : \E n \in DOMAIN todo : todo[n] = e[m]
        /\ \A m \in DOMAIN t : \E n \in DOMAIN todo : todo[n] = t[m]
    <3>1. e \in Seq(Paths) /\ t \in Seq(Paths)
      BY <2>17
    <3> QED BY <3>1, ConcatElements
  <2> HIDE DEF got, todo
  <2>10. /\ new \in Record /\ new.at = "begun" /\ new.kind = "search" /\ new.got = got /\ new.todo = todo
         /\ new.done = 0 /\ new.stays = req[r].stays
    BY <1>1, <2>1, <2>8, <2>9 DEF Record, States, got, old, todo, Cat
  <2> HIDE DEF new
  <2>11. Shape(new, Known)
    BY <2>8, <2>9, <2>10 DEF Shape, CopyStates
  <2>12. /\ Requests' /\ Known \subseteq Known' /\ OneMoved(r)
         /\ Same(req'[r], new) /\ req'[r].stays = new.stays \cap Path
    BY <1>1, <1>3, <2>10, <2>11, MovesKeeps DEF IInv, new
  <2>13. /\ req'[r].at = "begun" /\ req'[r].kind = "search" /\ req'[r].got = got /\ req'[r].todo = todo
         /\ req'[r].stays = req[r].stays \cap Path
    BY <2>10, <2>12 DEF Same
  <2>14. ASSUME NEW p \in req[r].stays \cap Path, p # <<>>, p \in Seq(Name \ Hidden)
         PROVE  Finds(req'[r], p) \/ WillFind(req'[r], p)
    <3>1. p \in Paths
      BY DEF IInv, Rooted, IsTree, Path
    <3>2. Searches(req[r])
      BY DEF IInv, Searching
    <3>3. Finds(req[r], p) \/ WillFind(req[r], p)
      BY <1>1, <2>14, <3>2 DEF Searches
    <3>4. CASE Finds(req[r], p)
      BY <2>8, <2>13, <3>4 DEF Finds, old
    <3>5. ASSUME NEW m \in DOMAIN t, Under(p, t[m]), p # t[m] PROVE WillFind(req'[r], p)
      <4>1. PICK n \in DOMAIN todo : todo[n] = t[m]
        BY <2>9
      <4> QED BY <2>13, <3>5, <4>1 DEF WillFind
    <3>6. CASE Under(p, d) /\ p # d
      <4> DEFINE q == Step(p, d)
      <4>1. q \in Paths /\ q # <<>> /\ DirOf(q) = d /\ Under(p, q)
        BY <2>2, <3>1, <3>6, StepFacts
      <4> HIDE DEF q
      <4>2. q \in Seq(Name \ Hidden)
        <5>1. Name \ Hidden \subseteq Names
          BY DEF Names
        <5> QED BY <2>14, <4>1, <5>1, Narrower
      <4>3. Last(q) \in Name \ Hidden
        BY <4>1, <4>2, DirFacts
      <4>4. q \in Path /\ (q # p => IsDir(q))
        BY <2>14, <4>1, AboveIsDir DEF IInv, Rooted, IsDir
      <4>5. q \in Shown(d)
        BY <4>1, <4>3, <4>4 DEF Shown, Children
      <4>6. CASE q = p
        <5>1. PICK m \in DOMAIN s : s[m] = p
          BY <2>4, <4>5, <4>6
        <5> QED BY <2>8, <2>13, <5>1 DEF Finds
      <4>7. CASE q # p
        <5>1. q \in Enter(d)
          BY <4>4, <4>5, <4>7 DEF Enter
        <5>2. PICK m \in DOMAIN e : e[m] = q
          BY <2>5, <5>1
        <5>3. PICK n \in DOMAIN todo : todo[n] = q
          BY <2>9, <5>2
        <5> QED BY <2>13, <4>1, <4>7, <5>3 DEF WillFind
      <4> QED BY <4>6, <4>7
    <3>7. CASE WillFind(req[r], p)
      <4>1. PICK n \in DOMAIN req[r].todo : Under(p, req[r].todo[n]) /\ p # req[r].todo[n]
        BY <3>7 DEF WillFind
      <4>2. CASE n = 1
        BY <2>2, <3>6, <4>1, <4>2
      <4>3. CASE n # 1
        <5>1. n - 1 \in DOMAIN t /\ t[n - 1] = req[r].todo[n]
          BY <2>2, <2>7, <4>3
        <5> QED BY <3>5, <4>1, <5>1
      <4> QED BY <4>2, <4>3
    <3> QED BY <3>3, <3>4, <3>7
  <2>15. Searches(req'[r]) /\ Found(req'[r])
    BY <2>13, <2>14 DEF Searches, Found
  <2>16. CopiesNames(r)' /\ KeepsWriting(r) /\ Copier(r)' /\ Reader(r)'
    BY <2>13 DEF CopiesNames, Copies, CopyStates, KeepsWriting, Writes, Copier, Reader
  <2> QED BY <1>1, <2>12, <2>15, <2>16, QuietStep
<1> QED BY <1>2, <1>3 DEF SearchDir

-----------------------------------------------------------------------------
(* The steps that make and remove names.                                      *)
LEMMA NamesKnown ==
  /\ Seq(Name) \subseteq Known /\ Seq(Name) \subseteq Paths /\ Known \subseteq Paths
  /\ Name \cup Spent \subseteq Names /\ Name \subseteq Names
<1>1. Name \cup Spent \subseteq Names /\ Name \subseteq Names /\ Name \subseteq Name \cup Spent
  BY DEF Spent, Names
<1> QED BY <1>1, SeqMonotonic DEF Known, Paths

LEMMA TempFacts ==
  ASSUME req \in [Request -> Record], NEW r \in Request
  PROVE  /\ Temp(r) \in Paths /\ Temp(r) # <<>> /\ Last(Temp(r)) = r /\ DirOf(Temp(r)) = DirOf(req[r].to)
         /\ DirOf(req[r].to) \in Seq(Name) /\ r \notin Name
         /\ \A p \in Seq(Name) : p # <<>> => Last(p) # r
         /\ Temp(r) \notin Seq(Name)
<1>1. req[r].to \in Seq(Name)
  BY DEF Record
<1> DEFINE d == DirOf(req[r].to)
<1>2. d \in Seq(Name)
  BY <1>1, DirFacts
<1> HIDE DEF d
<1>3. r \in Names /\ d \in Seq(Names)
  BY <1>2, NamesKnown DEF Names, Paths
<1>4. /\ Append(d, r) \in Seq(Names) /\ Append(d, r) # <<>>
      /\ DirOf(Append(d, r)) = d /\ Last(Append(d, r)) = r
  BY <1>3, AppendFacts
<1>5. r \notin Name
  BY FilesAssumption
<1>6. \A p \in Seq(Name) : p # <<>> => Last(p) # r
  BY <1>5, DirFacts
<1> QED BY <1>2, <1>4, <1>5, <1>6 DEF Temp, Paths, d

LEMMA WithoutFacts ==
  ASSUME NEW p, tree' = Without({p})
  PROVE  Path' = Path \ {p} /\ \A q \in Path' : Kept(q)
  BY DEF Without, Path, Kept

LEMMA MkdirMakes ==
  ASSUME IsTree(tree), NEW p \in Known, p \in Seq(Name) \/ unusual' # {}, CanMkdirAll(p), tree' = MkdirAll(p)
  PROVE  IsTree(tree') /\ \A q \in Path' : Kept(q) \/ Made(q)
<1>1. p \in Paths
  BY NamesKnown
<1>2. /\ IsTree(tree') /\ Path' = Path \cup PathsTo(p)
      /\ \A q \in PathsTo(p) : tree'[q] = Dir
      /\ \A q \in Path : tree'[q] = tree[q]
  BY <1>1, MkdirTree DEF Path
<1>3. ASSUME NEW q \in PathsTo(p) PROVE Made(q)
  <2>1. q \in Paths /\ Under(p, q)
    BY <1>1, PathsToMeans
  <2>2. q \in Known
    BY <2>1, NamesKnown, Narrower DEF Known
  <2>3. p \in Seq(Name) => q \in Seq(Name)
    BY <2>1, NamesKnown, Narrower
  <2> QED BY <1>2, <2>2, <2>3 DEF Made
<1> QED BY <1>2, <1>3 DEF Kept

LEMMA MkdirKeeps == ASSUME IInv, NEW r \in Request, Mkdir(r) PROVE IInv'
<1>1. /\ req[r].at = "begun" /\ Ends(r) /\ data' = data /\ inPlace' = inPlace /\ unusual' = unusual
      /\ req[r].at \notin Temporary /\ req[r].to \in Seq(Name)
  BY DEF Mkdir, Is, At, Temporary, IInv, Requests, Record
<1>2. KeepsTemp(r)
  BY <1>1 DEF KeepsTemp
<1>3. CASE CanMkdirAll(req[r].to) /\ tree' = MkdirAll(req[r].to)
  <2>1. req[r].to \in Known
    BY <1>1, NamesKnown
  <2>2. IsTree(tree') /\ \A q \in Path' : Kept(q) \/ Made(q)
    BY <1>1, <1>3, <2>1, MkdirMakes DEF IInv, Rooted
  <2> QED BY <1>1, <1>2, <2>2, EndsStep
<1>4. CASE tree' = tree
  BY <1>1, <1>4, EndsQuietly DEF Untouched
<1> QED BY <1>3, <1>4 DEF Mkdir

LEMMA EndsRemoving ==
  ASSUME IInv, NEW r \in Request, NEW p \in Paths, Children(p) = {} \/ ~IsDir(p),
         Ends(r), tree' = Without({p}), UNCHANGED <<data, inPlace, unusual>>, KeepsTemp(r)
  PROVE  IInv'
<1>1. IsTree(tree')
  BY WithoutTree DEF IInv, Rooted
<1>2. \A q \in Path' : Kept(q)
  BY WithoutFacts
<1> QED BY <1>1, <1>2, EndsStep

LEMMA CleanKeeps == ASSUME IInv, NEW r \in Request, Clean(r) PROVE IInv'
<1>1. req[r].at = "clean" /\ Ends(r) /\ data' = data /\ inPlace' = inPlace /\ unusual' = unusual
  BY DEF Clean, At
<1>2. Temp(r) \in Paths /\ Temp(r) \notin Seq(Name)
  BY TempFacts DEF IInv, Requests
<1>3. CASE IsFile(Temp(r)) /\ tree' = Without({Temp(r)})
  <2>1. Temp(r) \notin Path' /\ ~IsDir(Temp(r))
    BY <1>3, WithoutFacts DEF IsFile, IsDir
  <2>2. KeepsTemp(r)
    BY <2>1 DEF KeepsTemp
  <2> QED BY <1>1, <1>2, <1>3, <2>1, <2>2, EndsRemoving
<1>4. CASE ~IsFile(Temp(r)) /\ tree' = tree
  <2>1. unusual = {} => Temp(r) \notin Path
    BY <1>2, <1>4 DEF IInv, Owned
  <2>2. Path' = Path
    BY <1>4 DEF Path
  <2>3. KeepsTemp(r)
    BY <1>1, <2>1, <2>2 DEF KeepsTemp
  <2>4. IsTree(tree') /\ \A p \in Path' : Kept(p)
    BY <1>4, <2>2 DEF IInv, Rooted, IsTree, Kept
  <2> QED BY <1>1, <2>3, <2>4, EndsStep
<1> QED BY <1>3, <1>4 DEF Clean

LEMMA RemoveNameKeeps == ASSUME IInv, NEW r \in Request, RemoveName(r) PROVE IInv'
<1>1. /\ req[r].at = "remove" /\ UNCHANGED <<data, inPlace, unusual>>
      /\ req[r].at \notin Temporary /\ r \notin Spent /\ req[r].from \in Paths
  BY NamesKnown DEF RemoveName, At, Temporary, Spent, SpentStates, IInv, Requests, Record
<1>2. req[r].kind \in {"delete", "deleteAll"}
  BY <1>1 DEF IInv, Requests, Shape
<1>3. CASE GoesTo(r, "empty") /\ tree' = tree
  BY <1>1, <1>2, <1>3, GoesStep DEF Untouched
<1>4. KeepsTemp(r)
  BY <1>1 DEF KeepsTemp
<1>5. CASE Ends(r) /\ Children(req[r].from) = {} /\ tree' = Without({req[r].from})
  BY <1>1, <1>4, <1>5, EndsRemoving
<1>6. CASE Ends(r) /\ tree' = tree
  BY <1>1, <1>6, EndsQuietly DEF Untouched
<1> QED BY <1>3, <1>5, <1>6 DEF RemoveName

LEMMA RemoveEntryKeeps == ASSUME IInv, NEW r \in Request, RemoveEntry(r) PROVE IInv'
<1>1. /\ req[r].at = "empty" /\ GoesTo(r, "empty") /\ UNCHANGED <<data, inPlace, unusual>>
      /\ req[r].at \notin Temporary /\ r \notin Spent
  BY DEF RemoveEntry, At, Temporary, Spent, SpentStates
<1>2. req[r].kind \in {"delete", "deleteAll"}
  BY <1>1 DEF IInv, Requests, Shape
<1>3. PICK p \in Path : Children(p) = {} /\ tree' = Without({p})
  BY DEF RemoveEntry
<1>4. p \in Paths
  BY DEF IInv, Rooted, IsTree, Path
<1>5. "empty" \in States \ {"begun", "reading"} /\ "empty" \notin CopyStates /\ "empty" \in PlainStates
  BY DEF States, CopyStates, PlainStates
<1>6. Requests' /\ Known \subseteq Known' /\ OneMoved(r) /\ GoesOn(r, "empty")
  BY <1>1, <1>2, <1>5, GoesKeeps DEF IInv
<1>7. IsTree(tree') /\ \A q \in Path' : Kept(q)
  BY <1>3, <1>4, WithoutTree, WithoutFacts DEF IInv, Rooted
<1>8. KeepsTemp(r) /\ CopiesNames(r)' /\ req'[r].at \in PlainStates
  BY <1>1, <1>5, <1>6 DEF KeepsTemp, CopiesNames, Copies, GoesOn
<1> QED BY <1>1, <1>6, <1>7, <1>8, PlainStep

LEMMA RemoveTopKeeps == ASSUME IInv, NEW r \in Request, RemoveTop(r) PROVE IInv'
<1>1. /\ req[r].at = "empty" /\ UNCHANGED <<data, inPlace, unusual>> /\ Ends(r)
      /\ req[r].at \notin Temporary /\ req[r].from \in Paths
  BY NamesKnown DEF RemoveTop, At, Temporary, IInv, Requests, Record
<1>2. KeepsTemp(r)
  BY <1>1 DEF KeepsTemp
<1>3. CASE Children(req[r].from) = {} /\ tree' = Without({req[r].from})
  BY <1>1, <1>2, <1>3, EndsRemoving
<1>4. CASE tree' = tree
  BY <1>1, <1>4, EndsQuietly DEF Untouched
<1> QED BY <1>3, <1>4 DEF RemoveTop

LEMMA CopyDirKeeps == ASSUME IInv, NEW r \in Request, CopyDir(r) PROVE IInv'
<1> DEFINE p == NextItem(r).to
<1>1. req[r].at = "copying" /\ req[r].todo # <<>> /\ data' = data /\ inPlace' = inPlace
  BY DEF CopyDir, At
<1>2. Copies(r)
  BY <1>1 DEF Copies, CopyStates
<1>3. req[r].kind = "copy" /\ req[r].at \notin Temporary /\ r \notin Spent /\ p \in Known
  BY <1>1, <1>2, CopyFacts
<1>4. CASE Ends(r) /\ tree' = tree /\ unusual' = unusual
  BY <1>1, <1>3, <1>4, EndsQuietly DEF Untouched
<1>5. CASE /\ CanMkdirAll(p) /\ tree' = MkdirAll(p) /\ GoesTo(r, "listing")
           /\ unusual' = unusual \cup {"dirCopied"}
  <2>1. unusual' # {}
    BY <1>5
  <2>2. IsTree(tree') /\ \A q \in Path' : Kept(q) \/ Made(q)
    BY <1>3, <1>5, <2>1, MkdirMakes DEF IInv, Rooted
  <2>3. "listing" \in States \ {"begun", "reading"} /\ "listing" \in PlainStates
    BY DEF States, PlainStates
  <2>4. Requests' /\ Known \subseteq Known' /\ OneMoved(r) /\ GoesOn(r, "listing")
    BY <1>1, <1>2, <1>3, <1>5, <2>3, GoesKeeps DEF IInv
  <2>5. KeepsTemp(r) /\ req'[r].at \in PlainStates
    BY <2>1, <2>3, <2>4 DEF KeepsTemp, GoesOn
  <2> QED BY <1>1, <2>1, <2>2, <2>4, <2>5, PlainStep
<1> QED BY <1>4, <1>5 DEF CopyDir

-----------------------------------------------------------------------------
(* The steps that move names.                                                 *)
LEMMA MovedMakes ==
  ASSUME IInv, NEW a \in Paths, NEW b \in Seq(Name), CanMove(a, b), tree' = Moved(a, b),
         IsDir(a) => unusual' # {}, IsFile(a) /\ tree'[b] = tree[a] => Origin(b)
  PROVE  IsTree(tree') /\ \A p \in Path' : Kept(p) \/ Made(p)
<1>1. IsTree(tree) /\ Path \subseteq Known /\ Path \subseteq Paths /\ b \in Paths /\ b \in Known
  BY NamesKnown DEF IInv, Rooted, IsTree, Path
<1>2. IsTree(tree')
  BY <1>1, MovedTree
<1>3. ASSUME NEW p \in Path'
      PROVE  \/ p \in Path /\ tree'[p] = tree[p]
             \/ \E t \in Paths : p = Cat(b, t) /\ Cat(a, t) \in Path /\ tree'[p] = tree[Cat(a, t)]
  BY <1>1, MovedFacts DEF Path
<1>4. b # <<>> /\ (IsFile(a) \/ IsDir(a))
  BY DEF CanMove, IsFile, IsDir
<1>5. ASSUME NEW p \in Path', NEW t \in Paths, p = Cat(b, t), Cat(a, t) \in Path, tree'[p] = tree[Cat(a, t)]
      PROVE  Made(p)
  <2> DEFINE o == Cat(a, t)
  <2>1. Under(o, a) /\ Rest(o, a) = t /\ Cat(a, <<>>) = a /\ Cat(b, <<>>) = b
    BY <1>1, CatUnder
  <2>2. t # <<>> => o # a /\ o # <<>> /\ Last(o) = Last(t)
    BY CatUnder
  <2>3. t # <<>> => p # <<>> /\ Last(p) = Last(t)
    BY <1>1, <1>5, CatUnder
  <2>4. o \in Known /\ o \in Path
    BY <1>1, <1>5
  <2> HIDE DEF o
  <2>5. p \in Known
    <3>1. t \in Known
      BY <2>1, <2>4, CutFacts, NamesKnown DEF Known
    <3> QED BY <1>1, <1>5, <3>1, CatTyped DEF Known
  <2>6. CASE t = <<>>
    <3>1. p = b /\ tree'[b] = tree[a]
      BY <1>5, <2>1, <2>6 DEF o
    <3>2. tree'[p] # Dir => Origin(p)
      BY <1>4, <3>1 DEF IsDir, IsFile
    <3> QED BY <2>5, <3>1, <3>2 DEF Made
  <2>7. CASE t # <<>>
    <3>1. IsDir(a)
      BY <1>1, <2>1, <2>2, <2>4, <2>7, AboveIsDir
    <3>2. CameFrom(o, p)
      BY <1>5, <2>2, <2>3, <2>7 DEF CameFrom, o
    <3>3. Origin(p)
      BY <2>4, <3>2 DEF Origin
    <3> QED BY <2>5, <3>1, <3>3 DEF Made
  <2> QED BY <2>6, <2>7
<1> QED BY <1>2, <1>3, <1>5 DEF Kept

LEMMA ReplaceKeeps == ASSUME IInv, NEW r \in Request, Replace(r) PROVE IInv'
<1> DEFINE a == Temp(r)
           b == req[r].to
<1>1. /\ req[r].at = "replace" /\ GoesTo(r, "clean") /\ data' = data /\ inPlace' = inPlace
      /\ unusual' = unusual
  BY DEF Replace, At
<1>2. req[r].kind = "write"
  BY <1>1 DEF IInv, Requests, Shape
<1>3. "clean" \in States \ {"begun", "reading"} /\ "clean" \in PlainStates /\ "clean" \notin CopyStates
      /\ "clean" \in Temporary /\ "clean" \in SpentStates
  BY DEF States, PlainStates, CopyStates, Temporary, SpentStates
<1>4. Requests' /\ Known \subseteq Known' /\ OneMoved(r) /\ GoesOn(r, "clean")
  BY <1>1, <1>2, <1>3, GoesKeeps DEF IInv
<1>5. KeepsTemp(r) /\ CopiesNames(r)' /\ req'[r].at \in PlainStates
  BY <1>3, <1>4 DEF KeepsTemp, CopiesNames, Copies, GoesOn
<1>6. a \in Paths /\ a # <<>> /\ Last(a) = r /\ b \in Seq(Name)
  BY TempFacts DEF IInv, Requests, Record
<1>7. CASE tree' = tree
  <2>1. IsTree(tree') /\ \A p \in Path' : Kept(p)
    BY <1>7 DEF IInv, Rooted, IsTree, Kept, Path
  <2> QED BY <1>1, <1>4, <1>5, <2>1, PlainStep
<1>8. CASE IsFile(a) /\ CanMove(a, b) /\ tree' = Moved(a, b)
  <2>1. b # <<>> /\ ~IsDir(a) /\ a \in Path
    BY <1>8 DEF CanMove, IsFile, IsDir
  <2>2. Last(b) \in Name
    BY <1>6, <2>1, DirFacts
  <2>3. Writer(r) /\ Writes(r)
    BY <1>1 DEF IInv, Content, Writes
  <2>4. ASSUME tree'[b] = tree[a], tree[a] \notin inPlace PROVE Complete(b)
    <3>1. tree[a] = req[r].out
      BY <1>6, <1>8, <2>1, <2>3, <2>4 DEF Writer
    <3>2. data[tree[a]] = Begun(r, Chunks)
      BY <1>1, <2>3, <2>4, <3>1 DEF Writer
    <3>3. Whole(data[tree[a]])
      BY <3>2 DEF Whole, Upload, Begun
    <3>4. ASSUME NEW q \in Request, Writes(q)' PROVE req'[q].out # tree[a]
      <4>1. q # r
        BY <1>4, <3>4 DEF GoesOn, Writes
      <4>2. Writes(q) /\ req'[q].out = req[q].out
        BY <1>4, <3>4, <4>1 DEF OneMoved, Same, Writes
      <4> QED BY <2>3, <3>1, <4>1, <4>2 DEF Writer
    <3> QED BY <2>1, <2>2, <2>4, <3>3, <3>4 DEF Complete
  <2>5. tree'[b] = tree[a] => Origin(b)
    BY <2>4 DEF Origin
  <2>6. IsTree(tree') /\ \A p \in Path' : Kept(p) \/ Made(p)
    BY <1>6, <1>8, <2>1, <2>5, MovedMakes
  <2> QED BY <1>1, <1>4, <1>5, <2>6, PlainStep
<1> QED BY <1>7, <1>8 DEF Replace

LEMMA FollowsFacts ==
  ASSUME NEW old \in Record, NEW a \in Paths, NEW b \in Seq(Name)
  PROVE  /\ [Follows(old, a, b) EXCEPT !.stays = @ \cap Path] \in Record
         /\ Same([Follows(old, a, b) EXCEPT !.stays = @ \cap Path], old)
         /\ [Follows(old, a, b) EXCEPT !.stays = @ \cap Path].stays = old.stays \cap Path
<1>1. CASE old.at = "empty" /\ Under(old.from, a)
  <2> DEFINE t == SubSeq(old.from, Len(a) + 1, Len(old.from))
             from == b \o t
             moved == old.moved \/ old.from = a
             new == [old EXCEPT !.from = from, !.moved = moved]
  <2>1. Follows(old, a, b) = new
    BY <1>1 DEF Follows
  <2>2. t \in Seq(Name)
    <3>1. old.from \in Seq(Name)
      BY DEF Record
    <3> QED BY <1>1, <3>1, CutFacts, NamesKnown DEF Rest
  <2>3. from \in Seq(Name)
    BY <2>2, CatTyped DEF Cat
  <2>4. moved \in BOOLEAN
    BY DEF Record
  <2> HIDE DEF from, moved
  <2>5. /\ new \in Record /\ Same(new, old) /\ new.stays = old.stays
    BY <1>1, <2>3, <2>4 DEF Record, Same
  <2> HIDE DEF new
  <2> QED BY <2>1, <2>5 DEF Record, Same
<1>2. CASE ~(old.at = "empty" /\ Under(old.from, a))
  <2>1. Follows(old, a, b) = old
    BY <1>2 DEF Follows
  <2> QED BY <2>1 DEF Record, Same
<1> QED BY <1>1, <1>2

LEMMA RenameKeeps == ASSUME IInv, NEW r \in Request, Rename(r) PROVE IInv'
<1> DEFINE a == req[r].from
           b == req[r].to
<1>1. req[r].at = "move" /\ data' = data /\ inPlace' = inPlace /\ req[r].at \notin Temporary
      /\ r \notin Spent
  BY DEF Rename, At, Temporary, Spent, SpentStates
<1>2. a \in Seq(Name) /\ b \in Seq(Name) /\ a \in Paths /\ req \in [Request -> Record]
  BY NamesKnown DEF IInv, Requests, Record
<1>3. CASE Ends(r) /\ tree' = tree /\ unusual' = unusual
  BY <1>1, <1>3, EndsQuietly DEF Untouched
<1>4. CASE /\ CanMove(a, b) /\ tree' = Moved(a, b)
           /\ unusual' = IF IsDir(a) THEN unusual \cup {"dirMoved"} ELSE unusual
           /\ req' = [q \in Request |-> IF q = r THEN Ended
                        ELSE [Follows(req[q], a, b) EXCEPT !.stays = @ \cap Path]]
  <2>1. ASSUME NEW q \in Request, q # r
        PROVE  req'[q] \in Record /\ Same(req'[q], req[q]) /\ req'[q].stays = req[q].stays \cap Path
    <3>1. req'[q] = [Follows(req[q], a, b) EXCEPT !.stays = @ \cap Path]
      BY <1>4, <2>1
    <3> QED BY <1>2, <3>1, FollowsFacts
  <2>2. req'[r] = Ended /\ Ended \in Record
    BY <1>4, IdleTyped
  <2>3. req' \in [Request -> Record]
    <3>1. req' = [q \in Request |-> req'[q]]
      BY <1>4
    <3> QED BY <2>1, <2>2, <3>1
  <2>4. OneMoved(r)
    BY <2>1, <2>3 DEF OneMoved
  <2>5. Ended.at = "ended"
    BY DEF Ended, Idle
  <2>6. Shape(Ended, Known) /\ Same(req'[r], Ended)
    BY <2>2, <2>5 DEF Shape, CopyStates, Same
  <2>7. Requests' /\ Known \subseteq Known'
    BY <1>1, <2>4, <2>6, OneMovedKeeps DEF IInv
  <2>8. KeepsTemp(r) /\ CopiesNames(r)' /\ req'[r].at \in PlainStates
    BY <1>1, <2>2, <2>5 DEF KeepsTemp, CopiesNames, Copies, CopyStates, PlainStates
  <2>9. ASSUME IsFile(a), tree'[b] = tree[a] PROVE Origin(b)
    <3>1. CASE a = <<>>
      BY <2>9, <3>1 DEF Origin, IInv, Content, Store
    <3>2. CASE a # <<>>
      <4>1. b # <<>> /\ a \in Path
        BY <1>4 DEF CanMove
      <4>2. Last(a) \in Name /\ Last(b) \in Name
        BY <1>2, <3>2, <4>1, DirFacts
      <4>3. CameFrom(a, b)
        BY <2>9, <3>2, <4>1, <4>2 DEF CameFrom
      <4> QED BY <4>1, <4>3 DEF Origin
    <3> QED BY <3>1, <3>2
  <2>10. (IsDir(a) => unusual' # {}) /\ (unusual' = {} => unusual = {})
    BY <1>4
  <2>11. IsTree(tree') /\ \A p \in Path' : Kept(p) \/ Made(p)
    BY <1>2, <1>4, <2>9, <2>10, MovedMakes
  <2> QED BY <1>1, <2>4, <2>7, <2>8, <2>10, <2>11, PlainStep
<1> QED BY <1>3, <1>4 DEF Rename

-----------------------------------------------------------------------------
(* The steps that write to an inode.                                          *)
InodeFree(q, i) ==
  /\ Writes(q) \/ req[q].at = "pour" => req[q].out # i
  /\ req[q].at = "reading" => req[q].in # i
  /\ req[q].at = "answered" /\ req[q].in = i => i \notin inPlace

LEMMA InodeStep ==
  ASSUME IInv, NEW r \in Request, OneMoved(r), NEW i \in 1 .. MaxInode,
         data' \in [1 .. MaxInode -> Seq(Chunk)], \A k \in 1 .. MaxInode : k # i => data'[k] = data[k],
         inPlace' \subseteq 1 .. MaxInode, \A k \in 1 .. MaxInode : k # i => (k \in inPlace' <=> k \in inPlace),
         \A p \in Path' : IsFile(p)' => Kept(p) \/ tree'[p] = i,
         i \notin inPlace' => /\ \A p \in Path' : tree'[p] = i => p # <<>> /\ Last(p) = r
                             /\ \A q \in Request : q # r => InodeFree(q, i),
         Writes(r)' => req'[r].out = i, Writer(r)', Copier(r)', Reader(r)'
  PROVE  Content'
<1>1. ASSUME NEW q \in Request, q # r
      PROVE  /\ req'[q].at = req[q].at /\ req'[q].kind = req[q].kind /\ req'[q].in = req[q].in
             /\ req'[q].out = req[q].out /\ req'[q].done = req[q].done /\ req'[q].got = req[q].got
             /\ req[q].in \in 0 .. MaxInode /\ req[q].out \in 0 .. MaxInode
             /\ (Writes(q)' <=> Writes(q))
  BY <1>1 DEF OneMoved, Same, IInv, Requests, Record, Writes
<1>2. Content /\ MaxInode \in Nat /\ r \notin Name
  BY FilesAssumption DEF IInv
<1>3. ASSUME NEW p \in Path', IsFile(p)', tree'[p] # i
      PROVE  p \in Path /\ IsFile(p) /\ tree'[p] = tree[p] /\ tree[p] \in 1 .. MaxInode
  BY <1>2, <1>3 DEF Kept, IsFile, IInv, Rooted, IsTree, Path, Dir
<1>4. Store'
  <2>1. IsFile(<<>>)' => tree'[<<>>] \in inPlace'
    <3> SUFFICES ASSUME IsFile(<<>>)' PROVE tree'[<<>>] \in inPlace'
      OBVIOUS
    <3>1. <<>> \in Path'
      BY DEF IsFile
    <3>2. CASE tree'[<<>>] = i
      BY <3>1, <3>2
    <3>3. CASE tree'[<<>>] # i
      <4>1. IsFile(<<>>) /\ tree'[<<>>] = tree[<<>>] /\ tree[<<>>] \in 1 .. MaxInode
        BY <1>3, <3>1, <3>3
      <4> QED BY <1>2, <3>3, <4>1 DEF Content, Store
    <3> QED BY <3>2, <3>3
  <2> QED BY <2>1 DEF Store
<1>5. NamedIsWhole'
  <2> SUFFICES ASSUME NEW p \in Path', IsFile(p)', p # <<>>, Last(p) \in Name, tree'[p] \notin inPlace'
               PROVE  Whole(data'[tree'[p]])
    BY DEF NamedIsWhole, Whole
  <2>1. tree'[p] # i
    BY <1>2
  <2>2. p \in Path /\ IsFile(p) /\ tree'[p] = tree[p] /\ tree[p] \in 1 .. MaxInode
    BY <1>3, <2>1
  <2>3. tree[p] \notin inPlace /\ data'[tree[p]] = data[tree[p]]
    BY <2>1, <2>2
  <2> QED BY <1>2, <2>2, <2>3 DEF Content, NamedIsWhole
<1>6. ASSUME NEW q \in Request, q # r PROVE Writer(q)'
  <2> SUFFICES ASSUME Writes(q) PROVE Writer(q)'
    BY <1>1, <1>6 DEF Writer
  <2> DEFINE o == req[q].out
  <2>1. Writer(q) /\ req'[q].out = o /\ req'[q].done = req[q].done /\ req'[q].at = req[q].at
    BY <1>1, <1>2, <1>6 DEF Content
  <2>2. /\ o # 0 /\ o \in 1 .. MaxInode /\ req[q].done <= Chunks
        /\ (req[q].at = "replace" => req[q].done = Chunks)
    BY <1>1, <1>2, <1>6, <2>1 DEF Writer
  <2>3. i \notin inPlace' => o # i
    BY <1>6 DEF InodeFree
  <2>4. o \in inPlace' \/ data'[o] = Begun(q, req[q].done)
    BY <2>1, <2>2, <2>3 DEF Writer
  <2>5. ASSUME NEW p \in Path', tree'[p] = o, o \notin inPlace' PROVE p # <<>> /\ Last(p) = q
    <3>1. o # i /\ IsFile(p)'
      BY <2>2, <2>3, <2>5 DEF IsFile, Dir
    <3>2. p \in Path /\ tree[p] = o
      BY <1>3, <2>5, <3>1
    <3>3. o \notin inPlace
      BY <2>2, <2>5, <3>1
    <3> QED BY <2>1, <3>2, <3>3 DEF Writer
  <2>6. ASSUME NEW p \in Path', IsFile(p)', p # <<>>, Last(p) = q PROVE tree'[p] = o \/ tree'[p] \in inPlace'
    <3>1. CASE tree'[p] = i
      BY <1>6, <2>6, <3>1
    <3>2. CASE tree'[p] # i
      <4>1. p \in Path /\ IsFile(p) /\ tree'[p] = tree[p] /\ tree[p] \in 1 .. MaxInode
        BY <1>3, <2>6, <3>2
      <4>2. tree[p] = o \/ tree[p] \in inPlace
        BY <2>1, <2>6, <4>1 DEF Writer
      <4> QED BY <3>2, <4>1, <4>2
    <3> QED BY <3>1, <3>2
  <2>7. ASSUME NEW w \in Request, Writes(w)', w # q PROVE req'[w].out # o
    <3>1. CASE w = r
      <4>1. Writes(q)'
        BY <1>1, <1>6
      <4>2. req'[q].out # req'[r].out
        BY <1>6, <2>7, <3>1, <4>1 DEF Writer
      <4> QED BY <2>1, <3>1, <4>2
    <3>2. CASE w # r
      BY <1>1, <2>1, <2>7, <3>2 DEF Writer
    <3> QED BY <3>1, <3>2
  <2> HIDE DEF o
  <2> QED BY <2>1, <2>2, <2>4, <2>5, <2>6, <2>7 DEF Writer
<1>7. ASSUME NEW q \in Request, q # r PROVE Copier(q)' /\ Reader(q)'
  <2>1. Copier(q) /\ Reader(q)
    BY <1>2 DEF Content
  <2>2. i \notin inPlace' => InodeFree(q, i)
    BY <1>7
  <2>3. Copier(q)'
    <3>1. req[q].at = "pour" => req[q].out \in inPlace /\ req[q].out \in 1 .. MaxInode
      BY <1>2, <2>1 DEF Copier, Content, Store
    <3>2. req[q].at = "pour" => req[q].out \in inPlace'
      BY <2>2, <3>1 DEF InodeFree
    <3> QED BY <1>1, <1>7, <2>1, <3>2 DEF Copier
  <2> DEFINE n == req[q].in
  <2>4. req'[q].at = "reading" =>
          /\ req'[q].in # 0
          /\ \/ req'[q].in \in inPlace'
             \/ /\ Whole(data'[req'[q].in]) /\ req'[q].done <= Len(data'[req'[q].in])
                /\ req'[q].got = SubSeq(data'[req'[q].in], 1, req'[q].done)
                /\ \A w \in Request : Writes(w)' => req'[w].out # req'[q].in
    <3> SUFFICES ASSUME req[q].at = "reading"
                 PROVE  /\ n # 0
                        /\ n \notin inPlace' =>
                             /\ Whole(data'[n]) /\ req[q].done <= Len(data'[n])
                             /\ req[q].got = SubSeq(data'[n], 1, req[q].done)
                             /\ \A w \in Request : Writes(w)' => req'[w].out # n
      BY <1>1, <1>7
    <3>1. n # 0 /\ n \in 1 .. MaxInode
      BY <1>1, <1>2, <1>7, <2>1 DEF Reader
    <3>2. SUFFICES ASSUME n \notin inPlace'
                   PROVE  /\ Whole(data'[n]) /\ req[q].done <= Len(data'[n])
                          /\ req[q].got = SubSeq(data'[n], 1, req[q].done)
                          /\ \A w \in Request : Writes(w)' => req'[w].out # n
      BY <3>1
    <3>3. n # i
      BY <2>2, <3>2 DEF InodeFree
    <3>4. n \notin inPlace /\ data'[n] = data[n]
      BY <3>1, <3>2, <3>3
    <3>5. /\ Whole(data[n]) /\ req[q].done <= Len(data[n]) /\ req[q].got = SubSeq(data[n], 1, req[q].done)
          /\ \A w \in Request : Writes(w) => req[w].out # n
      BY <2>1, <3>4 DEF Reader
    <3>6. \A w \in Request : Writes(w)' => req'[w].out # n
      BY <1>1, <3>3, <3>5
    <3> HIDE DEF n
    <3> QED BY <3>4, <3>5, <3>6
  <2>5. req'[q].at = "answered" /\ req'[q].kind = "read" /\ req'[q].in \notin inPlace' => Whole(req'[q].got)
    <3> SUFFICES ASSUME req[q].at = "answered", req[q].kind = "read", n \notin inPlace' PROVE Whole(req[q].got)
      BY <1>1, <1>7
    <3>1. n \in inPlace => n \in 1 .. MaxInode
      BY <1>2 DEF Content, Store
    <3>2. n \notin inPlace
      BY <2>2, <3>1 DEF InodeFree
    <3> QED BY <2>1, <3>2 DEF Reader
  <2>6. Reader(q)'
    BY <2>4, <2>5 DEF Reader, Whole
  <2> QED BY <2>3, <2>6
<1> QED BY <1>4, <1>5, <1>6, <1>7 DEF Content

LEMMA FreshFacts ==
  ASSUME Free # {}
  PROVE  /\ Fresh \in 1 .. MaxInode /\ Fresh # 0 /\ \A p \in Path : tree[p] # Fresh
         /\ \A q \in Request : req[q].in # Fresh /\ req[q].out # Fresh
<1>1. Fresh \in Free
  BY Zenon DEF Fresh
<1>2. \A q \in Request : req[q].in \in Opened /\ req[q].out \in Opened
  BY DEF Opened
<1> HIDE DEF Fresh
<1>3. Fresh \in 1 .. MaxInode /\ Fresh \notin Opened /\ Fresh \notin {tree[p] : p \in Path}
  BY <1>1 DEF Free
<1> QED BY <1>2, <1>3, FilesAssumption

LEMMA CreateTempKeeps == ASSUME IInv, NEW r \in Request, CreateTemp(r) PROVE IInv'
<1> DEFINE i == Fresh
           t == Temp(r)
           new == [req[r] EXCEPT !.at = "fill", !.out = i]
<1>1. req[r].at = "create" /\ unusual' = unusual /\ req[r].at \notin Temporary /\ r \notin Spent
  BY DEF CreateTemp, At, Temporary, Spent, SpentStates
<1>2. CASE Ends(r) /\ UNCHANGED <<tree, data, inPlace>>
  BY <1>1, <1>2, EndsQuietly DEF Untouched
<1>3. CASE /\ IsDir(DirOf(req[r].to)) /\ Free # {} /\ tree' = With(t, i)
           /\ data' = [data EXCEPT ![i] = <<>>] /\ inPlace' = inPlace \ {i} /\ Moves(r, new)
  <2>1. /\ i \in 1 .. MaxInode /\ i # 0 /\ \A p \in Path : tree[p] # i
        /\ \A q \in Request : req[q].in # i /\ req[q].out # i
    BY <1>3, FreshFacts
  <2> HIDE DEF i
  <2>2. req[r] \in Record /\ Shape(req[r], Known) /\ req \in [Request -> Record]
    BY DEF IInv, Requests
  <2>3. req[r].kind = "write" /\ req[r].done = 0 /\ req[r].to \in Seq(Name)
    BY <1>1, <2>2 DEF Shape, Record
  <2>4. /\ t \in Paths /\ t # <<>> /\ Last(t) = r /\ DirOf(t) = DirOf(req[r].to)
        /\ DirOf(req[r].to) \in Seq(Name) /\ r \notin Name
    BY <2>2, TempFacts
  <2>5. \A p \in Path : p \in Known /\ (p # <<>> => Last(p) # r)
    <3>1. \A p \in Known : p # <<>> => Last(p) \in Name \cup Spent
      BY DirFacts DEF Known
    <3> QED BY <1>1, <2>4, <3>1 DEF IInv, Rooted
  <2>6. /\ new \in Record /\ new.at = "fill" /\ new.out = i /\ new.kind = "write" /\ new.done = 0
        /\ new.to = req[r].to
    <3>1. i \in 0 .. MaxInode /\ "fill" \in States
      BY <2>1 DEF States
    <3>2. req[r] \in Record /\ req[r].kind = "write" /\ req[r].done = 0
      BY <2>2, <2>3
    <3> QED BY <3>1, <3>2 DEF Record
  <2> HIDE DEF new
  <2>7. Shape(new, Known)
    BY <2>6 DEF Shape, CopyStates
  <2>8. Requests' /\ Known \subseteq Known' /\ OneMoved(r) /\ Same(req'[r], new)
    BY <1>1, <1>3, <2>6, <2>7, MovesKeeps DEF IInv
  <2>9. /\ req'[r].at = "fill" /\ req'[r].out = i /\ req'[r].done = 0 /\ req'[r].to = req[r].to
    BY <2>6, <2>8 DEF Same
  <2>10. t \notin Path
    BY <2>4, <2>5
  <2>11. Path' = Path \cup {t} /\ tree'[t] = i /\ \A p \in Path : tree'[p] = tree[p] /\ p # t
    BY <1>3, <2>10 DEF With, Path
  <2>12. Temp(r)' = t
    BY <2>9 DEF Temp, DirOf
  <2> HIDE DEF t
  <2>13. Rooted'
    <3>1. IsTree(tree')
      BY <1>3, <2>1, <2>4, <2>10, WithTree DEF IInv, Rooted
    <3>2. t \in Known'
      <4> DEFINE S == Name \cup Spent'
      <4>1. r \in S
        BY <2>9 DEF Spent, SpentStates
      <4>2. DirOf(req[r].to) \in Seq(S)
        BY <2>4, SeqMonotonic
      <4> HIDE DEF S
      <4>3. Append(DirOf(req[r].to), r) \in Seq(S)
        BY <4>1, <4>2, AppendFacts
      <4> QED BY <4>3 DEF t, Temp, Known, S
    <3>3. Path' \subseteq Known'
      BY <2>8, <2>11, <3>2 DEF IInv, Rooted
    <3> QED BY <3>1, <3>3 DEF Rooted
  <2>14. Owned'
    <3>1. \A p \in Path' : (p \in Path /\ tree'[p] = tree[p]) \/ p = Temp(r)'
      BY <2>11, <2>12
    <3>2. req'[r].at \in Temporary
      BY <2>9 DEF Temporary
    <3>3. CopiesNames(r)'
      BY <2>9 DEF CopiesNames, Copies, CopyStates
    <3>4. ASSUME NEW p \in Path', p = t PROVE IsFile(p)'
      BY <2>1, <2>11, <3>4 DEF IsFile, Dir
    <3>5. \A p \in Path' : \/ p \in Path /\ tree'[p] = tree[p]
                           \/ req'[r].at \in Temporary /\ p = Temp(r)' /\ IsFile(p)'
      BY <2>12, <3>1, <3>2, <3>4
    <3> QED BY <1>1, <2>8, <3>3, <3>5, OwnedStep DEF IInv
  <2>15. Content'
    <3>1. /\ data' \in [1 .. MaxInode -> Seq(Chunk)] /\ data'[i] = <<>>
          /\ \A k \in 1 .. MaxInode : k # i => data'[k] = data[k]
      BY <1>3, <2>1, EmptySeq DEF IInv, Content, Store
    <3>2. /\ inPlace' \subseteq 1 .. MaxInode /\ i \notin inPlace'
          /\ \A k \in 1 .. MaxInode : k # i => (k \in inPlace' <=> k \in inPlace)
      BY <1>3 DEF IInv, Content, Store
    <3>3. \A p \in Path' : IsFile(p)' => Kept(p) \/ tree'[p] = i
      BY <2>11 DEF Kept
    <3>4. \A p \in Path' : tree'[p] = i => p = t
      BY <2>1, <2>11
    <3>5. \A p \in Path' : tree'[p] = i => p # <<>> /\ Last(p) = r
      BY <2>4, <3>4
    <3>6. \A q \in Request : q # r => InodeFree(q, i)
      BY <2>1 DEF InodeFree
    <3>7. Begun(r, 0) = <<>>
      BY DEF Begun
    <3>8. Writer(r)'
      <4>1. \A p \in Path' : IsFile(p)' /\ p # <<>> /\ Last(p) = r => tree'[p] = i
        BY <2>5, <2>11
      <4>2. \A q \in Request : Writes(q)' /\ q # r => req'[q].out # i
        BY <2>1, <2>8 DEF OneMoved, Same
      <4>3. 0 <= Chunks
        BY FilesAssumption
      <4>4. data'[i] = Begun(r, 0)
        BY <3>1, <3>7
      <4> HIDE DEF t
      <4> QED BY <2>1, <2>9, <3>5, <4>1, <4>2, <4>3, <4>4 DEF Writer, Begun
    <3>9. Copier(r)' /\ Reader(r)'
      BY <2>9 DEF Copier, Reader
    <3> QED BY <2>1, <2>8, <2>9, <3>1, <3>2, <3>3, <3>5, <3>6, <3>8, <3>9, InodeStep
  <2>16. Searching'
    <3>1. Searches(req'[r]) /\ Found(req'[r])
      BY <2>9 DEF Searches, Found
    <3> QED BY <2>8, <3>1, SearchingStep DEF IInv
  <2> QED BY <2>8, <2>13, <2>14, <2>15, <2>16 DEF IInv
<1> QED BY <1>2, <1>3 DEF CreateTemp

LEMMA PutAtTyped ==
  ASSUME NEW s \in Seq(Chunk), NEW n \in Nat, NEW chunk \in Chunk
  PROVE  PutAt(s, n, chunk) \in Seq(Chunk)
<1> DEFINE m == IF n > Len(s) THEN n ELSE Len(s)
           f == PutAt(s, n, chunk)
<1>1. m \in Nat /\ Len(s) \in Nat
  OBVIOUS
<1>2. f = [k \in 1 .. m |-> IF k = n THEN chunk ELSE IF k \in DOMAIN s THEN s[k] ELSE <<"hole", k>>]
  BY DEF PutAt
<1> HIDE DEF m, f
<1>3. ASSUME NEW k \in 1 .. m PROVE f[k] \in Chunk
  <2>1. <<"hole", k>> \in Chunk
    BY <1>1 DEF Chunk
  <2>2. k \in DOMAIN s => s[k] \in Chunk
    BY ElementOfSeq
  <2> QED BY <1>2, <2>1, <2>2
<1>4. f \in [1 .. m -> Chunk]
  BY <1>2, <1>3
<1> QED BY <1>1, <1>4 DEF f

LEMMA BegunGoesOn ==
  ASSUME NEW r \in Request, NEW n \in Nat
  PROVE  PutAt(Begun(r, n), n + 1, <<r, n + 1>>) = Begun(r, n + 1)
<1> DEFINE s == Begun(r, n)
           m == IF n + 1 > Len(s) THEN n + 1 ELSE Len(s)
           c == <<r, n + 1>>
<1>1. DOMAIN s = 1 .. n /\ Len(s) = n /\ \A k \in 1 .. n : s[k] = <<r, k>>
  BY DEF Begun
<1>2. m = n + 1
  BY <1>1
<1> HIDE DEF s, c, m
<1>3. PutAt(s, n + 1, c) =
        [k \in 1 .. m |-> IF k = n + 1 THEN c ELSE IF k \in DOMAIN s THEN s[k] ELSE <<"hole", k>>]
  BY DEF PutAt, m
<1>4. ASSUME NEW k \in 1 .. m
      PROVE  (IF k = n + 1 THEN c ELSE IF k \in DOMAIN s THEN s[k] ELSE <<"hole", k>>) = <<r, k>>
  <2>1. CASE k = n + 1
    BY <2>1 DEF c
  <2>2. CASE k # n + 1
    <3>1. k \in 1 .. n
      BY <1>2, <2>2
    <3> QED BY <1>1, <2>2, <3>1
  <2> QED BY <2>1, <2>2
<1>5. PutAt(s, n + 1, c) = [k \in 1 .. n + 1 |-> <<r, k>>]
  BY <1>2, <1>3, <1>4
<1> QED BY <1>5 DEF Begun, s, c

LEMMA FillTempKeeps == ASSUME IInv, NEW r \in Request, FillTemp(r) PROVE IInv'
<1> DEFINE i == req[r].out
           n == req[r].done
           new == [req[r] EXCEPT !.done = n + 1]
<1>1. /\ req[r].at = "fill" /\ n < Chunks /\ tree' = tree /\ inPlace' = inPlace /\ unusual' = unusual
      /\ data' = [data EXCEPT ![i] = PutAt(data[i], n + 1, <<r, n + 1>>)] /\ Moves(r, new)
  BY DEF FillTemp, At
<1>2. req[r] \in Record /\ Shape(req[r], Known) /\ n \in Nat /\ Chunks \in Nat /\ n + 1 \in Nat
  BY FilesAssumption DEF IInv, Requests, Record
<1>3. req[r].kind = "write"
  BY <1>1, <1>2 DEF Shape
<1>4. Writes(r) /\ Writer(r)
  BY <1>1 DEF Writes, IInv, Content
<1>5. i \in 1 .. MaxInode /\ i # 0
  BY <1>2, <1>4, FilesAssumption DEF Writer, Record
<1>6. /\ new \in Record /\ new.at = "fill" /\ new.out = i /\ new.kind = "write" /\ new.done = n + 1
      /\ new.to = req[r].to
  BY <1>1, <1>2, <1>3 DEF Record
<1> HIDE DEF new
<1>7. Shape(new, Known)
  BY <1>6 DEF Shape, CopyStates
<1>8. Requests' /\ Known \subseteq Known' /\ OneMoved(r) /\ Same(req'[r], new)
  BY <1>1, <1>6, <1>7, MovesKeeps DEF IInv, SpentStates
<1>9. req'[r].at = "fill" /\ req'[r].out = i /\ req'[r].done = n + 1 /\ req'[r].to = req[r].to
  BY <1>6, <1>8 DEF Same
<1>10. Path' = Path /\ \A p \in Path' : Kept(p)
  BY <1>1 DEF Path, Kept
<1>11. Rooted'
  BY <1>1, <1>8, <1>10 DEF IInv, Rooted, IsTree
<1>12. Owned'
  <2>1. CopiesNames(r)' /\ req'[r].at \in Temporary
    BY <1>9 DEF CopiesNames, Copies, CopyStates, Temporary
  <2> QED BY <1>1, <1>8, <1>9, <1>10, <2>1, OwnedStep DEF IInv, Kept
<1>13. Content'
  <2> DEFINE s == data[i]
             c == <<r, n + 1>>
  <2>1. s \in Seq(Chunk) /\ c \in Chunk
    BY <1>2, <1>5 DEF IInv, Content, Store, Chunk
  <2> HIDE DEF c
  <2>2. PutAt(s, n + 1, c) \in Seq(Chunk)
    <3>1. n + 1 \in Nat
      BY <1>2
    <3> HIDE DEF s
    <3> QED BY <2>1, <3>1, PutAtTyped
  <2>3. /\ data' \in [1 .. MaxInode -> Seq(Chunk)] /\ data'[i] = PutAt(s, n + 1, c)
        /\ \A k \in 1 .. MaxInode : k # i => data'[k] = data[k]
    BY <1>1, <1>5, <2>2 DEF IInv, Content, Store, c
  <2>4. i \notin inPlace => data'[i] = Begun(r, n + 1)
    BY <1>2, <1>4, <2>3, BegunGoesOn DEF Writer, c
  <2>5. \A q \in Request : Writes(q)' /\ q # r => Writes(q) /\ req'[q].out = req[q].out
    BY <1>8 DEF OneMoved, Same, Writes
  <2>6. Writer(r)'
    <3>1. /\ \A p \in Path' : tree'[p] = i /\ tree'[p] \notin inPlace' => p # <<>> /\ Last(p) = r
          /\ \A p \in Path' : IsFile(p)' /\ p # <<>> /\ Last(p) = r => tree'[p] = i \/ tree'[p] \in inPlace'
          /\ \A q \in Request : Writes(q)' /\ q # r => req'[q].out # i
      BY <1>1, <1>4, <1>10, <2>5 DEF Writer, IsFile
    <3>2. n + 1 <= Chunks
      BY <1>1, <1>2
    <3>3. i \in inPlace' \/ data'[i] = Begun(r, n + 1)
      BY <1>1, <2>4
    <3> QED BY <1>5, <1>9, <3>1, <3>2, <3>3 DEF Writer, Begun
  <2>7. Copier(r)' /\ Reader(r)'
    BY <1>9 DEF Copier, Reader
  <2>8. ASSUME i \notin inPlace'
        PROVE  /\ \A p \in Path' : tree'[p] = i => p # <<>> /\ Last(p) = r
               /\ \A q \in Request : q # r => InodeFree(q, i)
    <3>1. \A p \in Path' : tree'[p] = i => p # <<>> /\ Last(p) = r
      BY <1>1, <1>4, <1>10, <2>8 DEF Writer
    <3>2. ASSUME NEW q \in Request, q # r PROVE InodeFree(q, i)
      <4>1. Copier(q) /\ Reader(q)
        BY DEF IInv, Content
      <4>2. Writes(q) => req[q].out # i
        BY <1>4, <3>2 DEF Writer
      <4>3. req[q].at = "pour" => req[q].out # i
        BY <1>1, <2>8, <4>1 DEF Copier
      <4>4. req[q].at = "reading" => req[q].in # i
        BY <1>1, <1>4, <2>8, <4>1 DEF Reader
      <4> QED BY <1>1, <2>8, <4>2, <4>3, <4>4 DEF InodeFree
    <3> QED BY <3>1, <3>2
  <2>9. inPlace' \subseteq 1 .. MaxInode
    BY <1>1 DEF IInv, Content, Store
  <2> QED BY <1>1, <1>5, <1>8, <1>9, <1>10, <2>3, <2>6, <2>7, <2>8, <2>9, InodeStep
<1>14. Searching'
  <2>1. Searches(req'[r]) /\ Found(req'[r])
    BY <1>9 DEF Searches, Found
  <2> QED BY <1>8, <2>1, SearchingStep DEF IInv
<1> QED BY <1>8, <1>11, <1>12, <1>13, <1>14 DEF IInv

LEMMA CopyCreateKeeps == ASSUME IInv, NEW r \in Request, CopyCreate(r) PROVE IInv'
<1> DEFINE p == NextItem(r).to
           i == IF IsFile(p) THEN tree[p] ELSE Fresh
           new == [req[r] EXCEPT !.at = "pour", !.out = i]
<1>1. req[r].at = "target" /\ unusual' = unusual
  BY DEF CopyCreate, At
<1>2. Copies(r)
  BY <1>1 DEF Copies, CopyStates
<1>3. /\ req[r] \in Record /\ req[r].kind = "copy" /\ req[r].todo \in Seq(Items)
      /\ req[r].at \notin Temporary /\ r \notin Spent /\ req[r].todo # <<>>
      /\ \A n \in DOMAIN req[r].todo : req[r].todo[n].to \in Known /\ Under(req[r].todo[n].to, req[r].to)
      /\ unusual = {} => \A n \in DOMAIN req[r].todo : req[r].todo[n].to \in Seq(Name)
      /\ p \in Known /\ (unusual = {} => p \in Seq(Name))
  BY <1>1, <1>2, CopyFacts
<1>4. p \in Paths /\ IsTree(tree)
  BY <1>3, NamesKnown DEF IInv, Rooted
<1>5. /\ DirOf(p) \in Known /\ DirOf(p) \in Paths /\ (unusual = {} => DirOf(p) \in Seq(Name))
  BY <1>3, NamesKnown, DirFacts DEF Known
<1>6. KeepsTemp(r)
  BY <1>3 DEF KeepsTemp
<1> HIDE DEF p
<1>7. CASE CanMkdirAll(DirOf(p)) /\ Ends(r) /\ tree' = MkdirAll(DirOf(p)) /\ UNCHANGED <<data, inPlace>>
  <2>1. IsTree(tree') /\ \A q \in Path' : Kept(q) \/ Made(q)
    BY <1>1, <1>4, <1>5, <1>7, MkdirMakes
  <2> QED BY <1>1, <1>6, <1>7, <2>1, EndsStep
<1>8. CASE Ends(r) /\ tree' = tree /\ UNCHANGED <<data, inPlace>>
  BY <1>1, <1>3, <1>8, EndsQuietly DEF Untouched
<1>9. CASE /\ CanMkdirAll(DirOf(p)) /\ ~IsDir(p) /\ (IsFile(p) \/ Free # {})
           /\ tree' = [q \in DOMAIN MkdirAll(DirOf(p)) \cup {p} |-> IF q = p THEN i ELSE MkdirAll(DirOf(p))[q]]
           /\ data' = [data EXCEPT ![i] = <<>>] /\ inPlace' = inPlace \cup {i} /\ Moves(r, new)
  <2>1. i \in 1 .. MaxInode /\ i # 0
    <3>1. CASE IsFile(p)
      BY <1>4, <3>1, FilesAssumption DEF IsFile, IsTree, Path, Dir
    <3>2. CASE ~IsFile(p)
      BY <1>9, <3>2, FreshFacts
    <3> QED BY <3>1, <3>2
  <2>2. tree' = Created(p, i)
    BY <1>9 DEF Created
  <2> HIDE DEF i
  <2>3. /\ IsTree(tree') /\ Path' = Path \cup PathsTo(DirOf(p)) \cup {p} /\ tree'[p] = i
        /\ \A q \in Path : q # p => tree'[q] = tree[q]
        /\ \A q \in PathsTo(DirOf(p)) : q # p => tree'[q] = Dir
    <3>1. /\ IsTree(Created(p, i)) /\ DOMAIN Created(p, i) = Path \cup PathsTo(DirOf(p)) \cup {p}
          /\ Created(p, i)[p] = i
          /\ \A q \in Path : q # p => Created(p, i)[q] = tree[q]
          /\ \A q \in PathsTo(DirOf(p)) : q # p => Created(p, i)[q] = Dir
      BY <1>4, <1>9, <2>1, CreatedTree
    <3> QED BY <2>2, <3>1 DEF Path
  <2>4. ASSUME NEW q \in PathsTo(DirOf(p)) PROVE q \in Known /\ (unusual = {} => q \in Seq(Name))
    <3>1. q \in Paths /\ Under(DirOf(p), q)
      BY <1>5, <2>4, PathsToMeans
    <3>2. q \in Known
      BY <1>5, <3>1, NamesKnown, Narrower DEF Known
    <3>3. DirOf(p) \in Seq(Name) => q \in Seq(Name)
      BY <3>1, NamesKnown, Narrower
    <3> QED BY <1>5, <3>2, <3>3
  <2>5. i \in 0 .. MaxInode /\ "pour" \in States
    BY <2>1 DEF States
  <2>6. /\ new \in Record /\ new.at = "pour" /\ new.out = i /\ new.in = req[r].in /\ new.kind = "copy"
        /\ new.to = req[r].to /\ new.todo = req[r].todo
    BY <1>3, <2>5 DEF Record
  <2> HIDE DEF new
  <2>7. Shape(new, Known)
    BY <1>3, <2>6 DEF Shape
  <2>8. Requests' /\ Known \subseteq Known' /\ OneMoved(r) /\ Same(req'[r], new)
    BY <1>3, <1>9, <2>6, <2>7, MovesKeeps DEF IInv
  <2>9. req'[r].at = "pour" /\ req'[r].out = i /\ req'[r].in = req[r].in /\ req'[r].todo = req[r].todo
    BY <2>6, <2>8 DEF Same
  <2>10. Rooted'
    BY <1>3, <2>3, <2>4, <2>8 DEF IInv, Rooted
  <2>11. Owned'
    <3>1. unusual' = {} => CopiesNames(r)'
      BY <1>1, <1>3, <2>9 DEF CopiesNames
    <3>2. unusual' = {} => \A q \in Path' : (q \in Path /\ tree'[q] = tree[q]) \/ q \in Seq(Name)
      BY <1>1, <1>3, <2>3, <2>4
    <3> QED BY <1>1, <1>3, <2>8, <3>1, <3>2, OwnedStep DEF IInv
  <2>12. Content'
    <3>1. /\ data' \in [1 .. MaxInode -> Seq(Chunk)] /\ \A k \in 1 .. MaxInode : k # i => data'[k] = data[k]
      BY <1>9, <2>1, EmptySeq DEF IInv, Content, Store
    <3>2. /\ inPlace' \subseteq 1 .. MaxInode /\ i \in inPlace'
          /\ \A k \in 1 .. MaxInode : k # i => (k \in inPlace' <=> k \in inPlace)
      BY <1>9, <2>1 DEF IInv, Content, Store
    <3>3. ASSUME NEW q \in Path', IsFile(q)' PROVE Kept(q) \/ tree'[q] = i
      <4>1. tree'[q] # Dir
        BY <3>3 DEF IsFile
      <4> QED BY <2>3, <4>1 DEF Kept
    <3>4. Copier(r)
      BY DEF IInv, Content
    <3>5. Copier(r)' /\ Reader(r)' /\ ~Writes(r)' /\ Writer(r)'
      BY <1>1, <2>9, <3>2, <3>4 DEF Copier, Reader, Writes, Writer
    <3> QED BY <2>1, <2>8, <3>1, <3>2, <3>3, <3>5, InodeStep
  <2>13. Searching'
    <3>1. Searches(req'[r]) /\ Found(req'[r])
      BY <2>9 DEF Searches, Found
    <3> QED BY <2>8, <3>1, SearchingStep DEF IInv
  <2> QED BY <2>8, <2>10, <2>11, <2>12, <2>13 DEF IInv
<1> QED BY <1>7, <1>8, <1>9 DEF CopyCreate, p

LEMMA CopyChunkKeeps == ASSUME IInv, NEW r \in Request, CopyChunk(r) PROVE IInv'
<1> DEFINE i == req[r].out
           s == data[req[r].in]
           n == req[r].done + 1
           new == [req[r] EXCEPT !.done = n]
<1>1. /\ req[r].at = "pour" /\ req[r].done < Len(s) /\ tree' = tree /\ inPlace' = inPlace
      /\ unusual' = unusual /\ data' = [data EXCEPT ![i] = PutAt(data[i], n, s[n])] /\ Moves(r, new)
  BY DEF CopyChunk, At
<1>2. Copies(r)
  BY <1>1 DEF Copies, CopyStates
<1>3. /\ req[r] \in Record /\ req[r].kind = "copy" /\ req[r].todo \in Seq(Items)
      /\ req[r].at \notin Temporary /\ r \notin Spent /\ req[r].todo # <<>>
      /\ \A k \in DOMAIN req[r].todo : req[r].todo[k].to \in Known /\ Under(req[r].todo[k].to, req[r].to)
      /\ unusual = {} => \A k \in DOMAIN req[r].todo : req[r].todo[k].to \in Seq(Name)
  BY <1>1, <1>2, CopyFacts
<1>4. i \in inPlace /\ i \in 1 .. MaxInode /\ req[r].in \in 1 .. MaxInode /\ req[r].in # 0
  <2>1. Copier(r) /\ Store
    BY DEF IInv, Content
  <2> QED BY <1>1, <1>3, <2>1, FilesAssumption DEF Copier, Store, Record
<1>5. s \in Seq(Chunk) /\ data[i] \in Seq(Chunk)
  BY <1>4 DEF IInv, Content, Store
<1>6. req[r].done \in Nat /\ n \in Nat
  BY <1>3 DEF Record
<1>7. s[n] \in Chunk
  <2> HIDE DEF s
  <2> QED BY <1>1, <1>5, <1>6, NextChunk
<1>8. PutAt(data[i], n, s[n]) \in Seq(Chunk)
  <2> HIDE DEF s, n
  <2> QED BY <1>5, <1>6, <1>7, PutAtTyped
<1>9. /\ new \in Record /\ new.at = "pour" /\ new.out = i /\ new.in = req[r].in /\ new.kind = "copy"
      /\ new.to = req[r].to /\ new.todo = req[r].todo
  BY <1>1, <1>3, <1>6 DEF Record
<1> HIDE DEF new
<1>10. Shape(new, Known)
  BY <1>3, <1>9 DEF Shape
<1>11. Requests' /\ Known \subseteq Known' /\ OneMoved(r) /\ Same(req'[r], new)
  BY <1>1, <1>3, <1>9, <1>10, MovesKeeps DEF IInv
<1>12. req'[r].at = "pour" /\ req'[r].out = i /\ req'[r].in = req[r].in /\ req'[r].todo = req[r].todo
  BY <1>9, <1>11 DEF Same
<1>13. Path' = Path /\ \A p \in Path' : Kept(p)
  BY <1>1 DEF Path, Kept
<1>14. Rooted'
  BY <1>1, <1>11, <1>13 DEF IInv, Rooted, IsTree
<1>15. Owned'
  <2>1. unusual' = {} => CopiesNames(r)'
    BY <1>1, <1>3, <1>12 DEF CopiesNames
  <2> QED BY <1>1, <1>3, <1>11, <1>13, <2>1, OwnedStep DEF IInv, Kept
<1>16. Content'
  <2>1. /\ data' \in [1 .. MaxInode -> Seq(Chunk)] /\ \A k \in 1 .. MaxInode : k # i => data'[k] = data[k]
    BY <1>1, <1>4, <1>8 DEF IInv, Content, Store
  <2>2. inPlace' \subseteq 1 .. MaxInode
    BY <1>1 DEF IInv, Content, Store
  <2>3. Copier(r)' /\ Reader(r)' /\ ~Writes(r)' /\ Writer(r)'
    BY <1>1, <1>4, <1>12 DEF Copier, Reader, Writes, Writer
  <2> QED BY <1>1, <1>4, <1>11, <1>13, <2>1, <2>2, <2>3, InodeStep
<1>17. Searching'
  <2>1. Searches(req'[r]) /\ Found(req'[r])
    BY <1>12 DEF Searches, Found
  <2> QED BY <1>11, <2>1, SearchingStep DEF IInv
<1> QED BY <1>11, <1>14, <1>15, <1>16, <1>17 DEF IInv

LEMMA CrashKeeps == ASSUME IInv, Crash PROVE IInv'
<1>1. /\ tree' = tree /\ data' = data /\ inPlace' = inPlace /\ unusual' # {}
      /\ req' = [q \in Request |-> IF At(q, "new") THEN Idle ELSE Ended]
  BY DEF Crash
<1>2. Idle.at = "new" /\ Ended.at = "ended" /\ Idle \in Record /\ Ended \in Record
  BY IdleTyped DEF Idle, Ended
<1>3. \A q \in Request : /\ req'[q] \in Record
                         /\ req'[q].at = IF req[q].at = "new" THEN "new" ELSE "ended"
  BY <1>1, <1>2 DEF At
<1>4. Spent \subseteq Spent'
  BY <1>3 DEF Spent, SpentStates
<1>5. Known \subseteq Known'
  BY <1>4, SeqMonotonic DEF Known
<1>6. Rooted'
  BY <1>1, <1>5 DEF IInv, Rooted, IsTree, Path
<1>7. Requests'
  <2>1. req' \in [Request -> Record]
    BY <1>1, <1>3
  <2>2. \A q \in Request : Shape(req'[q], Known')
    BY <1>3 DEF Shape, CopyStates
  <2> QED BY <2>1, <2>2 DEF Requests
<1>8. Owned'
  BY <1>1 DEF Owned
<1>9. Content'
  <2>1. Store' /\ NamedIsWhole'
    BY <1>1 DEF IInv, Content, Store, NamedIsWhole, IsFile, Path, Whole
  <2>2. \A q \in Request : Writer(q)' /\ Copier(q)' /\ Reader(q)'
    BY <1>3 DEF Writer, Writes, Copier, Reader
  <2> QED BY <2>1, <2>2 DEF Content
<1>10. Searching'
  BY <1>3 DEF Searching, Searches, Found
<1> QED BY <1>6, <1>7, <1>8, <1>9, <1>10 DEF IInv

-----------------------------------------------------------------------------
LEMMA StepKeepsInv == ASSUME IInv, [Next]_vars PROVE IInv'
<1>1. CASE UNCHANGED vars
  <2>1. tree' = tree /\ data' = data /\ req' = req /\ inPlace' = inPlace /\ unusual' = unusual
    BY <1>1 DEF vars
  <2>2. Rooted'
    BY <2>1 DEF IInv, Rooted, IsTree, Path, Known, Spent
  <2>3. Requests'
    BY <2>1 DEF IInv, Requests, Known, Spent
  <2>4. Owned'
    BY <2>1 DEF IInv, Owned, Path, Temp, IsFile, CopiesNames, Copies
  <2>5. Content'
    BY <2>1 DEF IInv, Content, Store, NamedIsWhole, Writer, Copier, Reader, Writes, IsFile, Path, Whole
  <2>6. Searching'
    BY <2>1 DEF IInv, Searching
  <2> QED BY <2>2, <2>3, <2>4, <2>5, <2>6 DEF IInv
<1>2. CASE Crash
  BY <1>2, CrashKeeps
<1>3. ASSUME NEW r \in Request, Begin(r) PROVE IInv'
  BY <1>3, BeginKeeps
<1>4. ASSUME NEW r \in Request, WriteStep(r) PROVE IInv'
  BY <1>4, ChecksKeep, CreateTempKeeps, FillTempKeeps, FillFailsKeeps, FillEndsKeeps, ReplaceKeeps,
     CleanKeeps DEF WriteStep
<1>5. ASSUME NEW r \in Request, ReadStep(r) PROVE IInv'
  BY <1>5, ChecksKeep, ReadOpenKeeps, ReadChunkKeeps, ReadEndKeeps, ListKeeps, SearchDirKeeps,
     SearchEndsKeeps DEF ReadStep
<1>6. ASSUME NEW r \in Request, ChangeStep(r) PROVE IInv'
  BY <1>6, ChecksKeep, MkdirKeeps, RenameKeeps, RemoveNameKeeps, RemoveEntryKeeps, RemoveTopKeeps
     DEF ChangeStep
<1>7. ASSUME NEW r \in Request, CopyStep(r) PROVE IInv'
  BY <1>7, CopyStatKeeps, CopyDirKeeps, CopyListKeeps, CopyOpenKeeps, CopyCreateKeeps, CopyChunkKeeps,
     CopyNextKeeps, CopyEndsKeeps DEF CopyStep
<1> QED BY <1>1, <1>2, <1>3, <1>4, <1>5, <1>6, <1>7 DEF Next, RequestStep

LEMMA Starts == ASSUME Init PROVE IInv
<1>1. /\ tree = Start /\ data = [i \in 1 .. MaxInode |-> IF i = 1 THEN Original ELSE <<>>]
      /\ req = [r \in Request |-> Idle] /\ inPlace = {} /\ unusual = {}
  BY DEF Init
<1>2. Idle \in Record /\ Idle.at = "new"
  BY IdleTyped DEF Idle
<1>3. \A r \in Request : req[r] \in Record /\ req[r].at = "new"
  BY <1>1, <1>2
<1>4. Path \subseteq Seq(Name)
  BY <1>1, FilesAssumption DEF Path
<1>5. Rooted
  <2>1. Path \subseteq Known /\ Path \subseteq Paths
    BY <1>4, NamesKnown
  <2>2. tree \in [Path -> 0 .. MaxInode] /\ IsFiniteSet(Path)
    <3>1. {Dir, 1} \subseteq 0 .. MaxInode
      BY FilesAssumption DEF Dir
    <3>2. tree \in [Path -> {Dir, 1}] /\ IsFiniteSet(Path)
      BY <1>1, FilesAssumption DEF Path
    <3> QED BY <3>1, <3>2
  <2>3. ASSUME NEW p \in Path, NEW q \in PathsTo(p), q # p PROVE q \in Path /\ tree[q] = Dir
    <3>1. p \in Seq(Name) /\ Len(p) \in Nat
      BY <1>4
    <3>2. PICK n \in 0 .. Len(p) : q = SubSeq(p, 1, n)
      BY DEF PathsTo
    <3>3. SubSeq(p, 1, Len(p)) = p
      BY <3>1, SubSeqFull
    <3>4. n # Len(p)
      BY <2>3, <3>2, <3>3
    <3>5. n \in 0 .. Len(p) - 1
      BY <3>1, <3>4
    <3> QED BY <1>1, <3>2, <3>5, FilesAssumption DEF Path
  <2> QED BY <2>1, <2>2, <2>3 DEF Rooted, IsTree, Path
<1>6. Requests
  <2>1. \A r \in Request : Shape(req[r], Known)
    BY <1>3 DEF Shape, CopyStates
  <2> QED BY <1>1, <1>2, <2>1 DEF Requests
<1>7. Owned
  BY <1>3, <1>4 DEF Owned, CopiesNames, Copies, CopyStates
<1>8. Content
  <2>1. Original \in Seq(Chunk)
    <3>1. \A n \in 1 .. Chunks : <<"original", n>> \in Chunk
      BY FilesAssumption DEF Chunk
    <3> QED BY <3>1, FilesAssumption DEF Original
  <2>2. data \in [1 .. MaxInode -> Seq(Chunk)]
    BY <1>1, <2>1, EmptySeq
  <2>3. ~IsFile(<<>>)
    BY <1>1, FilesAssumption DEF IsFile
  <2>4. \A p \in Path : IsFile(p) => tree[p] = 1
    BY <1>1, FilesAssumption DEF IsFile, Path
  <2>5. data[1] = Original
    BY <1>1, FilesAssumption
  <2>6. Store /\ NamedIsWhole
    BY <1>1, <2>2, <2>3, <2>4, <2>5 DEF Store, NamedIsWhole, Whole
  <2>7. \A r \in Request : Writer(r) /\ Copier(r) /\ Reader(r)
    BY <1>3 DEF Writer, Writes, Copier, Reader
  <2> QED BY <2>6, <2>7 DEF Content
<1>9. Searching
  BY <1>3 DEF Searching, Searches, Found
<1> QED BY <1>5, <1>6, <1>7, <1>8, <1>9 DEF IInv

(* The tree stays a tree, and every request is where its handler has come to. *)
LEMMA FilesInv == Spec => []IInv
<1>1. Init => IInv
  BY Starts
<1>2. IInv /\ [Next]_vars => IInv'
  BY StepKeepsInv
<1> QED BY <1>1, <1>2, PTL DEF Spec

(* A name that is not a temporary one stands for a whole upload, the content  *)
(* the file had, or a file that a copy has opened in place: writeAtomic       *)
(* (files.go:495) renames only what it has filled, and nobody else can name   *)
(* the temporary file.                                                        *)
THEOREM NamesShowWholeFiles == Spec => []VisibleIsWhole
<1>1. ASSUME IInv PROVE VisibleIsWhole
  <2> SUFFICES ASSUME NEW p \in Path, IsFile(p), Last(p) \in Name, tree[p] \notin inPlace
               PROVE  Whole(data[tree[p]])
    BY DEF VisibleIsWhole
  <2>1. p # <<>>
    BY <1>1 DEF IInv, Content, Store
  <2> QED BY <1>1, <2>1 DEF IInv, Content, NamedIsWhole
<1> QED BY <1>1, FilesInv, PTL

(* What a download answers is one version of the file: handleFsRead copies    *)
(* from the inode that Open opened (files.go:142), and no writer has it.      *)
THEOREM DownloadsAreOneVersion == Spec => []ReadsOneVersion
<1>1. ASSUME IInv PROVE ReadsOneVersion
  BY <1>1 DEF IInv, Content, Reader, ReadsOneVersion, At
<1> QED BY <1>1, FilesInv, PTL

(* A temporary file is one that an upload in progress has made and still will *)
(* rename or remove (files.go:495), unless the agent crashed or a directory   *)
(* was moved or copied with it.                                               *)
THEOREM TempsAreNotLeft == Spec => []TempsAreOwned
<1>1. ASSUME IInv PROVE TempsAreOwned
  <2> SUFFICES ASSUME NEW p \in Path, p # <<>>, Last(p) \in Request, unusual = {}
               PROVE  req[Last(p)].at \in {"fill", "replace", "clean"}
    BY DEF TempsAreOwned
  <2>1. p \notin Seq(Name)
    <3>1. Last(p) \notin Name
      BY FilesAssumption
    <3> QED BY <3>1, DirFacts
  <2>2. PICK r \in Request : req[r].at \in Temporary /\ p = Temp(r)
    BY <1>1, <2>1 DEF IInv, Owned
  <2>3. Last(p) = r
    BY <1>1, <2>2, TempFacts DEF IInv, Requests
  <2> QED BY <2>2, <2>3 DEF Temporary
<1> QED BY <1>1, FilesInv, PTL

(* Search (files.go:289) and List (files.go:80) return every name that was there *)
(* from their start to their end, whatever came, went or was renamed meanwhile. *)
THEOREM SearchesFindWhatStays == Spec => []SearchFindsWhatStays
<1>1. ASSUME IInv PROVE SearchFindsWhatStays
  <2> SUFFICES ASSUME NEW r \in Request, At(r, "answered"), req[r].kind \in {"search", "list"},
                      NEW p \in req[r].stays, p # <<>>, \A n \in DOMAIN p : p[n] \in Name \ Hidden,
                      req[r].kind = "search" \/ DirOf(p) = req[r].from
               PROVE  p \in {req[r].got[n] : n \in DOMAIN req[r].got}
    BY DEF SearchFindsWhatStays
  <2>1. p \in Paths
    BY <1>1 DEF IInv, Requests, Record
  <2>2. p \in Seq(Name \ Hidden)
    BY <2>1 DEF Paths
  <2>3. Finds(req[r], p)
    BY <1>1, <2>2 DEF IInv, Searching, Found, At
  <2> QED BY <2>3 DEF Finds
<1> QED BY <1>1, FilesInv, PTL

-----------------------------------------------------------------------------
(* What a step may touch.                                                     *)
LEMMA MovedChanges ==
  ASSUME IInv, NEW a \in Paths, NEW b \in Paths, CanMove(a, b), tree' = Moved(a, b),
         NEW p \in Path \cup Path', ~Kept(p)
  PROVE  Under(p, b) \/ (p \in Path /\ Under(p, a))
<1>1. IsTree(tree)
  BY DEF IInv, Rooted
<1>2. ASSUME NEW q \in Path'
      PROVE  \/ q \in Path /\ ~Under(q, b) /\ tree'[q] = tree[q]
             \/ \E t \in Paths : q = Cat(b, t)
  BY <1>1, MovedFacts DEF Path
<1>3. \A t \in Paths : Under(Cat(b, t), b)
  BY CatUnder
<1>4. \A q \in Path : ~Under(q, a) /\ q # b => q \in Path'
  BY <1>1, MovedFacts DEF Path
<1>5. Under(b, b)
  BY UnderItself
<1> QED BY <1>2, <1>3, <1>4, <1>5 DEF Kept

LEMMA MkdirChanges ==
  ASSUME IInv, NEW p \in Paths, CanMkdirAll(p), tree' = MkdirAll(p), NEW q \in Path \cup Path', ~Kept(q)
  PROVE  q \in Paths /\ Under(p, q)
<1>1. Path' = Path \cup PathsTo(p) /\ \A x \in Path : tree'[x] = tree[x]
  BY MkdirTree DEF IInv, Rooted, Path
<1>2. q \in PathsTo(p)
  BY <1>1 DEF Kept
<1> QED BY <1>2, PathsToMeans

LEMMA CopyOwns ==
  ASSUME IInv, NEW r \in Request, Copies(r), req[r].todo # <<>>, NEW p \in Paths, Under(NextItem(r).to, p)
  PROVE  Owns(r, p)
<1>1. req[r].kind = "copy" /\ NextItem(r).to \in Paths /\ Under(NextItem(r).to, req[r].to)
  BY CopyFacts, NamesKnown
<1>2. req[r].to \in Paths
  BY NamesKnown DEF IInv, Requests, Record
<1>3. Under(p, req[r].to) \/ Under(req[r].to, p)
  BY <1>1, <1>2, UnderOneAnother
<1> QED BY <1>1, <1>3 DEF Owns

LEMMA WriteChanges ==
  ASSUME IInv, NEW r \in Request, CreateTemp(r) \/ Replace(r) \/ Clean(r),
         NEW p \in Path \cup Path', ~Kept(p)
  PROVE  Owns(r, p)
<1>1. req[r].at \in {"create", "replace", "clean"}
  BY DEF CreateTemp, Replace, Clean, At
<1>2. req[r].kind = "write" /\ req[r].to \in Paths
  BY <1>1, NamesKnown DEF IInv, Requests, Shape, Record
<1>3. Temp(r) \in Paths
  BY TempFacts DEF IInv, Requests
<1>4. SUFFICES Under(p, req[r].to) \/ p = Temp(r)
  BY <1>2 DEF Owns
<1>5. tree' # tree
  BY DEF Kept, Path
<1>6. CASE tree' = With(Temp(r), Fresh)
  BY <1>6 DEF With, Kept, Path
<1>7. CASE tree' = Without({Temp(r)})
  BY <1>7 DEF Without, Kept, Path
<1>8. CASE IsFile(Temp(r)) /\ CanMove(Temp(r), req[r].to) /\ tree' = Moved(Temp(r), req[r].to)
  <2>1. Under(p, req[r].to) \/ (p \in Path /\ Under(p, Temp(r)))
    BY <1>2, <1>3, <1>8, MovedChanges
  <2>2. ~IsDir(Temp(r))
    BY <1>8 DEF IsFile, IsDir
  <2>3. p \in Path /\ Under(p, Temp(r)) => p = Temp(r)
    BY <1>3, <2>2, NothingBelow DEF IInv, Rooted
  <2> QED BY <2>1, <2>3
<1> QED BY <1>5, <1>6, <1>7, <1>8 DEF CreateTemp, Replace, Clean

LEMMA ChangeChanges ==
  ASSUME IInv, NEW r \in Request, ChangeStep(r), NEW p \in Path \cup Path', ~Kept(p)
  PROVE  Owns(r, p)
<1>1. req[r].to \in Paths /\ req[r].from \in Paths /\ Under(req[r].from, req[r].from)
  BY NamesKnown, UnderItself DEF IInv, Requests, Record
<1>2. tree' # tree
  BY DEF Kept, Path
<1>3. /\ req[r].at = "move" => req[r].kind = "rename"
      /\ req[r].at \in {"remove", "empty"} => req[r].kind \in {"delete", "deleteAll"}
  BY DEF IInv, Requests, Shape
<1>4. CASE Mkdir(r)
  <2>1. CanMkdirAll(req[r].to) /\ tree' = MkdirAll(req[r].to) /\ req[r].kind = "mkdir"
    BY <1>2, <1>4 DEF Mkdir, Is
  <2>2. Under(req[r].to, p)
    BY <1>1, <2>1, MkdirChanges
  <2> QED BY <2>1, <2>2 DEF Owns
<1>5. CASE Rename(r)
  <2>1. CanMove(req[r].from, req[r].to) /\ tree' = Moved(req[r].from, req[r].to) /\ req[r].kind = "rename"
    BY <1>2, <1>3, <1>5 DEF Rename, At
  <2>2. Under(p, req[r].to) \/ Under(p, req[r].from)
    BY <1>1, <2>1, MovedChanges
  <2> QED BY <2>1, <2>2 DEF Owns
<1>6. CASE RemoveName(r) \/ RemoveEntry(r) \/ RemoveTop(r)
  <2>1. req[r].kind \in {"delete", "deleteAll"}
    BY <1>3, <1>6 DEF RemoveName, RemoveEntry, RemoveTop, At
  <2>2. \E q \in Paths : Under(q, req[r].from) /\ tree' = Without({q})
    <3>1. Path \subseteq Paths
      BY DEF IInv, Rooted, IsTree, Path
    <3>2. CASE RemoveEntry(r)
      BY <3>1, <3>2 DEF RemoveEntry
    <3>3. CASE RemoveName(r) \/ RemoveTop(r)
      BY <1>1, <1>2, <3>3 DEF RemoveName, RemoveTop
    <3> QED BY <1>6, <3>2, <3>3
  <2>3. PICK q \in Paths : Under(q, req[r].from) /\ tree' = Without({q})
    BY <2>2
  <2>4. p = q
    <3>1. Path' = Path \ {q} /\ \A x \in Path' : Kept(x)
      BY <2>3, WithoutFacts
    <3> QED BY <3>1
  <2> QED BY <2>1, <2>3, <2>4 DEF Owns
<1>7. CASE RenameCheck(r) \/ DeleteCheck(r)
  BY <1>2, <1>7 DEF RenameCheck, DeleteCheck, Untouched
<1> QED BY <1>4, <1>5, <1>6, <1>7 DEF ChangeStep

LEMMA CopyChanges ==
  ASSUME IInv, NEW r \in Request, CopyDir(r) \/ CopyCreate(r), NEW p \in Path \cup Path', ~Kept(p)
  PROVE  Owns(r, p)
<1> DEFINE t == NextItem(r).to
<1>1. Copies(r)
  BY DEF CopyDir, CopyCreate, At, Copies, CopyStates
<1>2. req[r].todo # <<>>
  <2>1. CASE CopyDir(r)
    BY <2>1 DEF CopyDir
  <2>2. CASE CopyCreate(r)
    <3>1. req[r].at # "copying"
      BY <2>2 DEF CopyCreate, At
    <3> QED BY <1>1, <3>1, CopyFacts
  <2> QED BY <2>1, <2>2
<1>3. t \in Paths
  BY <1>1, <1>2, CopyFacts, NamesKnown
<1>4. tree' # tree
  BY DEF Kept, Path
<1>5. SUFFICES p \in Paths /\ Under(t, p)
  BY <1>1, <1>2, CopyOwns
<1>6. DirOf(t) \in Paths /\ Under(t, DirOf(t)) /\ Under(t, t)
  BY <1>3, DirAbove, UnderItself
<1> HIDE DEF t
<1>7. CASE CanMkdirAll(t) /\ tree' = MkdirAll(t)
  BY <1>3, <1>7, MkdirChanges
<1>8. CASE CanMkdirAll(DirOf(t)) /\ tree' = MkdirAll(DirOf(t))
  <2>1. p \in Paths /\ Under(DirOf(t), p)
    BY <1>6, <1>8, MkdirChanges
  <2> QED BY <1>3, <1>6, <2>1, UnderTransitive
<1>9. ASSUME NEW i, CanMkdirAll(DirOf(t)),
             tree' = [q \in DOMAIN MkdirAll(DirOf(t)) \cup {t} |-> IF q = t THEN i ELSE MkdirAll(DirOf(t))[q]]
      PROVE  p \in Paths /\ Under(t, p)
  <2> DEFINE m == MkdirAll(DirOf(t))
  <2>1. DOMAIN m = Path \cup PathsTo(DirOf(t)) /\ \A q \in Path : m[q] = tree[q]
    BY <1>6, <1>9, MkdirTree DEF IInv, Rooted
  <2>2. Path' = DOMAIN m \cup {t} /\ \A q \in DOMAIN m : q # t => tree'[q] = m[q]
    BY <1>9 DEF Path
  <2> HIDE DEF m
  <2>3. p = t \/ p \in PathsTo(DirOf(t))
    BY <2>1, <2>2 DEF Kept
  <2>4. p \in PathsTo(DirOf(t)) => p \in Paths /\ Under(DirOf(t), p)
    BY <1>6, PathsToMeans
  <2> QED BY <1>3, <1>6, <2>3, <2>4, UnderTransitive
<1>10. CASE CopyDir(r)
  BY <1>4, <1>7, <1>10 DEF CopyDir, t
<1>11. CASE CopyCreate(r)
  BY <1>4, <1>8, <1>9, <1>11 DEF CopyCreate, t
<1> QED BY <1>10, <1>11

LEMMA StepIsConfined ==
  ASSUME IInv, Next, NEW p \in Path \cup Path', ~Kept(p)
  PROVE  \E r \in Request : Owns(r, p)
<1>1. tree' # tree
  BY DEF Kept, Path
<1>2. PICK r \in Request : Begin(r) \/ RequestStep(r)
  BY <1>1 DEF Next, Crash
<1>3. CASE ChangeStep(r)
  BY <1>3, ChangeChanges
<1>4. CASE WriteStep(r)
  BY <1>1, <1>4, WriteChanges DEF WriteStep, WriteCheck, FillTemp, FillFails, FillEnds, Untouched
<1>5. CASE CopyStep(r)
  BY <1>1, <1>5, CopyChanges DEF CopyStep, CopyStat, CopyList, CopyOpen, CopyChunk, CopyNext, CopyEnds, Untouched
<1>6. CASE Begin(r) \/ ReadStep(r)
  BY <1>1, <1>6 DEF Begin, ReadStep, ReadStat, ReadOpen, ReadChunk, ReadEnd, List, SearchDir, SearchEnds, Untouched
<1> QED BY <1>2, <1>3, <1>4, <1>5, <1>6 DEF RequestStep

(* No request changes a path that is neither under the paths it was given,    *)
(* nor on the way to its target, nor its temporary file: files.go:196 to 267  *)
(* and 402, 495 work on what Resolve (files.go:71) returned for them.         *)
THEOREM RequestsAreConfined == Spec => Confined
<1>1. IInv /\ [Next]_vars =>
        [\A p \in Path \cup DOMAIN tree' :
           (p \in Path /\ p \in DOMAIN tree' /\ tree[p] = tree'[p]) \/ \E r \in Request : Owns(r, p)]_vars
  <2> SUFFICES ASSUME IInv, Next, NEW p \in Path \cup DOMAIN tree',
                      ~(p \in Path /\ p \in DOMAIN tree' /\ tree[p] = tree'[p])
               PROVE  \E r \in Request : Owns(r, p)
    OBVIOUS
  <2>1. Path' = DOMAIN tree'
    BY DEF Path
  <2>2. p \in Path \cup Path' /\ ~Kept(p)
    BY <2>1 DEF Kept
  <2> QED BY <2>2, StepIsConfined
<1> QED BY <1>1, FilesInv, PTL DEF Spec, Confined

-----------------------------------------------------------------------------
(* No file is longer than an upload.                                          *)
Sizes == /\ \A i \in 1 .. MaxInode : Len(data[i]) <= Chunks
         /\ unusual \subseteq {"crash", "dirMoved", "dirCopied"}

LEMMA PutAtLen ==
  ASSUME NEW s \in Seq(Chunk), NEW n \in 1 .. Chunks, NEW chunk \in Chunk, Len(s) <= Chunks
  PROVE  Len(PutAt(s, n, chunk)) <= Chunks
<1> DEFINE m == IF n > Len(s) THEN n ELSE Len(s)
<1>1. m \in Nat /\ m <= Chunks
  BY FilesAssumption
<1>2. DOMAIN PutAt(s, n, chunk) = 1 .. m
  BY DEF PutAt
<1>3. PutAt(s, n, chunk) \in Seq(Chunk)
  <2>1. n \in Nat
    BY FilesAssumption
  <2> QED BY <2>1, PutAtTyped
<1> HIDE DEF m
<1>4. Len(PutAt(s, n, chunk)) = m
  BY <1>1, <1>2, <1>3, LenProperties
<1> QED BY <1>1, <1>4

LEMMA FreshIsInode == ASSUME Free # {} PROVE Fresh \in 1 .. MaxInode
  BY DEF Fresh, Free

LEMMA RequestKeepsSizes == ASSUME IInv, Sizes, NEW r \in Request, RequestStep(r) PROVE Sizes'
<1>1. /\ data \in [1 .. MaxInode -> Seq(Chunk)] /\ req[r] \in Record
      /\ Chunks \in Nat /\ IsTree(tree)
  BY FilesAssumption DEF IInv, Content, Store, Requests, Rooted
<1>2. ASSUME NEW i \in 1 .. MaxInode, NEW s \in Seq(Chunk), Len(s) <= Chunks,
             data' = [data EXCEPT ![i] = s], unusual' = unusual
      PROVE  Sizes'
  BY <1>1, <1>2 DEF Sizes
<1>3. ASSUME data' = data, unusual' \subseteq unusual \cup {"dirMoved", "dirCopied"} PROVE Sizes'
  BY <1>3 DEF Sizes
<1>4. <<>> \in Seq(Chunk) /\ Len(<<>>) <= Chunks
  BY <1>1
<1>5. CASE CreateTemp(r)
  <2>1. unusual' = unusual /\ (data' = data \/ (Free # {} /\ data' = [data EXCEPT ![Fresh] = <<>>]))
    BY <1>5 DEF CreateTemp
  <2> QED BY <1>2, <1>3, <1>4, <2>1, FreshIsInode
<1>6. CASE FillTemp(r)
  <2> DEFINE i == req[r].out
             n == req[r].done + 1
  <2>1. /\ req[r].at = "fill" /\ req[r].done < Chunks /\ unusual' = unusual
        /\ data' = [data EXCEPT ![i] = PutAt(data[i], n, <<r, n>>)]
    BY <1>6 DEF FillTemp, At
  <2>2. i \in 1 .. MaxInode
    <3>1. i \in 0 .. MaxInode /\ i # 0
      BY <1>1, <2>1 DEF IInv, Content, Writer, Writes, Record
    <3> QED BY <3>1, FilesAssumption
  <2>3. n \in 1 .. Chunks /\ <<r, n>> \in Chunk
    BY <1>1, <2>1 DEF Record, Chunk
  <2>4. data[i] \in Seq(Chunk) /\ Len(data[i]) <= Chunks
    BY <1>1, <2>2 DEF Sizes
  <2> HIDE DEF i, n
  <2>5. n \in Nat
    BY <1>1, <2>3
  <2>6. PICK c \in Chunk : c = <<r, n>>
    BY <2>3
  <2>7. PutAt(data[i], n, c) \in Seq(Chunk) /\ Len(PutAt(data[i], n, c)) <= Chunks
    BY <2>3, <2>4, <2>5, PutAtTyped, PutAtLen
  <2> QED BY <1>2, <2>1, <2>2, <2>6, <2>7
<1>7. CASE CopyCreate(r)
  <2> DEFINE p == NextItem(r).to
             i == IF IsFile(p) THEN tree[p] ELSE Fresh
  <2>1. unusual' = unusual /\ (data' = data \/ ((IsFile(p) \/ Free # {}) /\ data' = [data EXCEPT ![i] = <<>>]))
    BY <1>7 DEF CopyCreate
  <2>2. IsFile(p) \/ Free # {} => i \in 1 .. MaxInode
    BY <1>1, FreshIsInode, FilesAssumption DEF IsFile, IsTree, Dir, Path
  <2> HIDE DEF i, p
  <2> QED BY <1>2, <1>3, <1>4, <2>1, <2>2
<1>8. CASE CopyChunk(r)
  <2> DEFINE i == req[r].out
             s == data[req[r].in]
             n == req[r].done + 1
  <2>1. /\ req[r].at = "pour" /\ req[r].done < Len(s) /\ unusual' = unusual
        /\ data' = [data EXCEPT ![i] = PutAt(data[i], n, s[n])]
    BY <1>8 DEF CopyChunk, At
  <2>2. i \in 1 .. MaxInode /\ req[r].in \in 1 .. MaxInode
    <3>1. Copier(r) /\ Store
      BY DEF IInv, Content
    <3> QED BY <1>1, <2>1, <3>1, FilesAssumption DEF Copier, Store, Record
  <2>3. s \in Seq(Chunk) /\ Len(s) <= Chunks /\ data[i] \in Seq(Chunk) /\ Len(data[i]) <= Chunks
    BY <1>1, <2>2 DEF Sizes
  <2>4. req[r].done \in Nat
    BY <1>1 DEF Record
  <2>5. n \in 1 .. Chunks /\ n \in Nat /\ s[n] \in Chunk
    <3> HIDE DEF s
    <3>1. s[n] \in Chunk
      BY <2>1, <2>3, <2>4, NextChunk
    <3> QED BY <1>1, <2>1, <2>3, <2>4, <3>1
  <2> HIDE DEF i, n, s
  <2>6. PutAt(data[i], n, s[n]) \in Seq(Chunk) /\ Len(PutAt(data[i], n, s[n])) <= Chunks
    BY <1>1, <2>3, <2>5, PutAtTyped, PutAtLen
  <2> QED BY <1>2, <2>1, <2>2, <2>6
<1>9. CASE \/ WriteCheck(r) \/ FillFails(r) \/ FillEnds(r) \/ Replace(r) \/ Clean(r) \/ ReadStep(r)
           \/ ChangeStep(r) \/ CopyStat(r) \/ CopyDir(r) \/ CopyList(r) \/ CopyOpen(r)
           \/ CopyNext(r) \/ CopyEnds(r)
  <2>1. data' = data /\ unusual' \subseteq unusual \cup {"dirMoved", "dirCopied"}
    BY <1>9 DEF WriteCheck, FillFails, FillEnds, Replace, Clean, ReadStep, ReadStat, ReadOpen, ReadChunk,
       ReadEnd, List, SearchDir, SearchEnds, ChangeStep, Mkdir, RenameCheck, Rename, DeleteCheck,
       RemoveName, RemoveEntry, RemoveTop, CopyStat, CopyDir, CopyList, CopyOpen, CopyNext, CopyEnds,
       Untouched
  <2> QED BY <1>3, <2>1
<1> QED BY <1>5, <1>6, <1>7, <1>8, <1>9 DEF RequestStep, WriteStep, CopyStep

LEMMA SizesAlways == Spec => []Sizes
<1>1. Init => Sizes
  <2> SUFFICES ASSUME Init, NEW i \in 1 .. MaxInode PROVE Len(data[i]) <= Chunks
    BY DEF Init, Sizes
  <2>1. data[i] = IF i = 1 THEN Original ELSE <<>>
    BY DEF Init
  <2>2. Len(Original) = Chunks
    BY FilesAssumption DEF Original
  <2> QED BY <2>1, <2>2, FilesAssumption
<1>2. ASSUME IInv, Sizes, [Next]_vars PROVE Sizes'
  <2>1. CASE UNCHANGED vars
    BY <1>2, <2>1 DEF vars, Sizes
  <2>2. CASE Crash
    BY <1>2, <2>2 DEF Crash, Sizes
  <2>3. CASE \E r \in Request : Begin(r)
    BY <1>2, <2>3 DEF Begin, Untouched, Sizes
  <2> QED BY <1>2, <2>1, <2>2, <2>3, RequestKeepsSizes DEF Next
<1> QED BY <1>1, <1>2, FilesInv, PTL DEF Spec

(* The tree is a tree of directories with files in them, of as many inodes as *)
(* the disk has, whatever requests do to it at once; and no copy that runs    *)
(* beside an upload or another copy makes a file longer than an upload.       *)
THEOREM FilesTypes == Spec => []TypeOK
<1>1. ASSUME IInv, Sizes PROVE TypeOK
  <2>1. IsTree(tree) /\ Store
    BY <1>1 DEF IInv, Rooted, Content
  <2>2. ASSUME NEW p \in Path PROVE tree[p] \in 0 .. MaxInode /\ (p # <<>> => IsDir(DirOf(p)))
    <3>1. tree[p] \in 0 .. MaxInode /\ p \in Paths
      BY <2>1 DEF IsTree, Path
    <3>2. ASSUME p # <<>> PROVE IsDir(DirOf(p))
      BY <2>1, <3>1, <3>2, DirAbove, AboveIsDir
    <3> QED BY <3>1, <3>2
  <2> QED BY <1>1, <2>1, <2>2 DEF TypeOK, Sizes, Store
<1> QED BY <1>1, FilesInv, SizesAlways, PTL
==============================================================================
