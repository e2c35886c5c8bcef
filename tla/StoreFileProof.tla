--------------------------- MODULE StoreFileProof ---------------------------
(* With one process, however many goroutines it has, the temporary file and   *)
(* the rename make Persist the atomic replacement AtomicFile asks for.  With  *)
(* a second process they do not (MCStoreFile has that instance), but the      *)
(* mutexes stay in order.                                                     *)
EXTENDS StoreFile, TLAPS

OneProcess == \A t, u \in Thread : ProcessOf[t] = ProcessOf[u]

\* What each stage of a Persist and of a load knows of its file.
Stage(t) ==
  /\ Persisting(t) => op[t].image \in Image
  /\ op[t].pc \in {"write", "rename"} => op[t].fd = tmp /\ tmp # None
  /\ op[t].pc = "write" => inode[tmp] = Empty
  /\ op[t].pc = "rename" => inode[tmp] = op[t].image
  /\ op[t].pc = "read" => /\ op[t].fd \in Inode /\ op[t].fd # tmp
                          /\ inode[op[t].fd] \in Image

(* PathWhole alone is not inductive: a rename installs path.tmp, so path.tmp  *)
(* must hold the image by then, and nobody else may have it open.             *)
IInv == /\ TypeOK
        /\ PathWhole
        /\ tmp # path
        /\ \A t \in Thread : Stage(t)

-----------------------------------------------------------------------------
(* The mutex leaves one thread inside Persist.                                *)
LEMMA OneWriter ==
  ASSUME OneProcess, TypeOK, NEW t \in Thread, NEW u \in Thread,
         Persisting(t), Persisting(u)
  PROVE  t = u
  BY DEF OneProcess, TypeOK, LockHeld

LEMMA GotoTyped ==
  ASSUME op \in [Thread -> Op], NEW t \in Thread, NEW v \in Image \cup {None},
         NEW i \in Inode \cup {None}, NEW pc \in {"idle", "open", "write", "rename", "read"},
         Goto(t, pc, v, i)
  PROVE  op' \in [Thread -> Op]
<1> DEFINE h == [pc |-> pc, image |-> v, fd |-> i]
<1>1. h \in Op BY DEF Op
<1>2. op' = [op EXCEPT ![t] = h] BY DEF Goto
<1> HIDE DEF h
<1> QED BY <1>1, <1>2, SMT

LEMMA IInvInit == Init => IInv
  BY StoreFileAssumption, SMT
  DEF Init, IInv, TypeOK, LockHeld, Persisting, PathWhole, Stage, Op, Idle, Content

(* A thread that leaves Persist releases the mutex, with the file untouched   *)
(* or replaced.                                                               *)
LEMMA LeaveLocked ==
  ASSUME OneProcess, TypeOK, NEW t \in Thread, Persisting(t),
         op' = [op EXCEPT ![t] = Idle], Unlock(t)
  PROVE  /\ lock' \in [Process -> Thread \cup {None}]
         /\ op' \in [Thread -> Op]
         /\ LockHeld'
         /\ \A u \in Thread : ~Persisting(u)'
<1>1. PICK p \in Process : /\ lock' = [lock EXCEPT ![p] = None]
                           /\ \A u \in Thread : ProcessOf[u] = p
  BY StoreFileAssumption DEF Unlock, OneProcess
<1>5. lock' \in [Process -> Thread \cup {None}] BY <1>1, SMT DEF TypeOK
<1>2. op' \in [Thread -> Op] BY SMT DEF TypeOK, Op, Idle
<1>3. \A u \in Thread : ~Persisting(u)'
  <2>1. \A u \in Thread \ {t} : ~Persisting(u) BY OneWriter
  <2> QED BY <2>1, SMT DEF TypeOK, Persisting, Idle
<1>4. \A u \in Thread : lock'[ProcessOf[u]] = None
  BY <1>1, SMT DEF TypeOK
<1> QED BY <1>5, <1>2, <1>3, <1>4, StoreFileAssumption DEF LockHeld

LEMMA StepKeepsType ==
  ASSUME OneProcess, IInv, [Next]_vars
  PROVE  TypeOK'
<1> USE StoreFileAssumption DEF IInv
<1>1. ASSUME NEW t \in Thread, NEW v \in Image, Lock(t, v) PROVE TypeOK'
  BY <1>1, SMT DEF Goto, Lock, TypeOK, LockHeld, Persisting, Op, OneProcess
<1>2. ASSUME NEW t \in Thread, Open(t) PROVE TypeOK'
  <2>1. PICK i \in Inode :
          /\ tmp' = i
          /\ inode' = [inode EXCEPT ![i] = Empty]
          /\ Goto(t, "write", op[t].image, i)
    BY <1>2 DEF Open
  <2>2. \A u \in Thread : Persisting(u)' <=> Persisting(u)
    BY <1>2, <2>1, SMT DEF Goto, Open, TypeOK, Persisting, Op
  <2>3. op' \in [Thread -> Op]
    <3>1. op[t].image \in Image \cup {None} BY SMT DEF TypeOK, Op
    <3> QED BY <2>1, <3>1, GotoTyped DEF TypeOK
  <2> QED BY <1>2, <2>1, <2>2, <2>3, SMT DEF Goto, Open, TypeOK, LockHeld, Content
<1>3. ASSUME NEW t \in Thread, Write(t) PROVE TypeOK'
  BY <1>3, SMT DEF Goto, Write, TypeOK, LockHeld, Persisting, Op, Content, Stage
<1>4. ASSUME NEW t \in Thread, OpenFails(t) \/ RenameFails(t) PROVE TypeOK'
  BY <1>4, LeaveLocked, SMT DEF OpenFails, RenameFails, TypeOK, Persisting
<1>5. ASSUME NEW t \in Thread, WriteFails(t) PROVE TypeOK'
  <2>1. Persisting(t) BY <1>5 DEF WriteFails, Persisting
  <2>2. inode' \in [Inode -> Content]
    <3>1. PICK i \in Inode : inode' = [inode EXCEPT ![i] = Torn]
      BY <1>5 DEF WriteFails, Stage, TypeOK
    <3> QED BY <3>1, SMT DEF TypeOK, Content
  <2> QED BY <1>5, <2>1, <2>2, LeaveLocked DEF WriteFails, TypeOK
<1>6. ASSUME NEW t \in Thread, Rename(t) PROVE TypeOK'
  <2>1. Persisting(t) BY <1>6 DEF Rename, Persisting
  <2> QED BY <1>6, <2>1, LeaveLocked DEF Rename, TypeOK
<1>7. ASSUME NEW t \in Thread, OpenToRead(t) \/ ReadAll(t) PROVE TypeOK'
  <2>1. PICK h \in Op : op' = [op EXCEPT ![t] = h] /\ h.pc \in {"idle", "read"}
    <3>1. Idle \in Op /\ Idle.pc = "idle" BY SMT DEF Idle, Op
    <3>2. /\ [pc |-> "read", image |-> None, fd |-> path] \in Op
          /\ [pc |-> "read", image |-> None, fd |-> path].pc = "read"
      BY SMT DEF Op, TypeOK
    <3> QED BY <1>7, <3>1, <3>2, Zenon DEF Goto, OpenToRead, ReadAll
  <2>2. ~Persisting(t) BY <1>7 DEF Goto, OpenToRead, ReadAll, Persisting
  <2>3. UNCHANGED <<path, tmp, inode, lock>> BY <1>7 DEF Goto, OpenToRead, ReadAll
  <2> QED BY <2>1, <2>2, <2>3, SMT DEF TypeOK, LockHeld, Persisting
<1>8. ASSUME NEW p \in Process, Kill(p) PROVE TypeOK'
  BY <1>8, SMT DEF Kill, TypeOK, LockHeld, Persisting, Op, Idle
<1>9. ASSUME UNCHANGED vars PROVE TypeOK'
  BY <1>9 DEF vars, TypeOK, LockHeld, Persisting
<1> QED BY <1>1, <1>2, <1>3, <1>4, <1>5, <1>6, <1>7, <1>8, <1>9 DEF Next, PersistStep

\* What the file system looks like to everyone, apart from the types.
Files == /\ PathWhole
         /\ tmp # path
         /\ \A t \in Thread : Stage(t)

LEMMA StepKeepsFiles ==
  ASSUME OneProcess, IInv, [Next]_vars
  PROVE  Files'
<1> USE StoreFileAssumption DEF IInv, Files
<1>1. ASSUME NEW t \in Thread, NEW v \in Image, Lock(t, v) PROVE Files'
  BY <1>1, SMT DEF Goto, Lock, TypeOK, Stage, Persisting, Op, PathWhole
<1>2. ASSUME NEW t \in Thread, Open(t) PROVE Files'
  <2>1. \A u \in Thread \ {t} : ~Persisting(u)
    BY <1>2, OneWriter DEF Goto, Open, Persisting
  <2>2. PICK i \in Inode :
          /\ IF tmp = None THEN i \notin InUse ELSE i = tmp
          /\ tmp' = i
          /\ inode' = [inode EXCEPT ![i] = Empty]
          /\ Goto(t, "write", op[t].image, i)
    BY <1>2 DEF Open
  <2>3. i # path /\ \A u \in Thread : op[u].pc = "read" => op[u].fd # i
    BY <2>2, SMT DEF InUse, Stage
  <2>4. op[t].pc = "open" /\ path' = path BY <1>2 DEF Open
  <2>5. (PathWhole /\ tmp # path)'
    BY <2>2, <2>3, <2>4, SMT DEF PathWhole, TypeOK
  <2>6. Stage(t)'
    BY <2>2, <2>4, SMT DEF Goto, Stage, Persisting, TypeOK, Op
  <2>7. ASSUME NEW u \in Thread \ {t} PROVE Stage(u)'
    BY <2>1, <2>2, <2>3, <2>7, SMT DEF Goto, Stage, Persisting, TypeOK, Op
  <2> QED BY <2>5, <2>6, <2>7
<1>3. ASSUME NEW t \in Thread, Write(t) PROVE Files'
  <2>1. \A u \in Thread \ {t} : ~Persisting(u)
    BY <1>3, OneWriter DEF Goto, Write, Persisting
  <2>2. /\ op[t].fd = tmp /\ tmp \in Inode /\ op[t].image \in Image
        /\ inode' = [inode EXCEPT ![tmp] = op[t].image]
        /\ Goto(t, "rename", op[t].image, tmp)
        /\ path' = path /\ tmp' = tmp
    <3>1. op[t].fd = tmp /\ inode[tmp] = Empty /\ op[t].image \in Image
      BY <1>3 DEF Write, Stage, Persisting
    <3>2. PICK c \in {op[t].image} : inode' = [inode EXCEPT ![op[t].fd] = c]
      BY <1>3, <3>1 DEF Write
    <3>3. tmp \in Inode BY <1>3 DEF Write, Stage, TypeOK
    <3> QED BY <1>3, <3>1, <3>2, <3>3 DEF Goto, Write
  <2>3. Stage(t)' BY <2>2, SMT DEF Goto, Stage, Persisting, TypeOK, Op
  <2>4. ASSUME NEW u \in Thread \ {t} PROVE Stage(u)'
    BY <2>1, <2>2, <2>4, SMT DEF Goto, Stage, Persisting, TypeOK, Op
  <2>5. (PathWhole /\ tmp # path)' BY <2>2, SMT DEF PathWhole, TypeOK
  <2> QED BY <2>3, <2>4, <2>5
<1>4. ASSUME NEW t \in Thread, OpenFails(t) \/ RenameFails(t) PROVE Files'
  BY <1>4, SMT DEF OpenFails, RenameFails, Stage, Persisting, TypeOK, Op, PathWhole, Idle
<1>5. ASSUME NEW t \in Thread, WriteFails(t) PROVE Files'
  <2>1. \A u \in Thread : ~Persisting(u)'
    BY <1>5, LeaveLocked DEF WriteFails, Persisting
  <2>2. /\ op[t].fd = tmp /\ inode' = [inode EXCEPT ![tmp] = Torn]
        /\ op' = [op EXCEPT ![t] = Idle] /\ path' = path /\ tmp' = tmp
    <3>1. op[t].fd = tmp BY <1>5 DEF WriteFails, Stage
    <3> QED BY <1>5, <3>1 DEF WriteFails
  <2> QED BY <2>1, <2>2, SMT DEF Stage, Persisting, TypeOK, Op, PathWhole, Idle
<1>6. ASSUME NEW t \in Thread, Rename(t) PROVE Files'
  <2>1. \A u \in Thread : ~Persisting(u)'
    BY <1>6, LeaveLocked DEF Rename, Persisting
  <2>2. inode[tmp] \in Image BY <1>6 DEF Rename, Stage, Persisting
  <2> QED BY <1>6, <2>1, <2>2, SMT DEF Rename, Stage, Persisting, TypeOK, Op, PathWhole, Idle
<1>7. ASSUME NEW t \in Thread, OpenToRead(t) \/ ReadAll(t) PROVE Files'
  BY <1>7, SMT DEF Goto, OpenToRead, ReadAll, Stage, Persisting, TypeOK, Op, PathWhole, Idle
<1>8. ASSUME NEW p \in Process, Kill(p) PROVE Files'
  BY <1>8, SMT DEF Kill, Stage, Persisting, TypeOK, Op, PathWhole, Idle
<1>9. ASSUME UNCHANGED vars PROVE Files'
  BY <1>9 DEF vars, Stage, Persisting, PathWhole
<1> QED BY <1>1, <1>2, <1>3, <1>4, <1>5, <1>6, <1>7, <1>8, <1>9 DEF Next, PersistStep

LEMMA Invariance == ASSUME OneProcess PROVE Spec => []IInv
<1>1. IInv /\ [Next]_vars => IInv'
  BY StepKeepsType, StepKeepsFiles DEF IInv, Files
<1> QED BY <1>1, IInvInit, PTL DEF Spec

-----------------------------------------------------------------------------
(* In one process the state file always holds one whole image, through        *)
(* failing writes and kills: Reload and NewStore never meet a torn file.      *)
THEOREM FileStaysWhole == ASSUME OneProcess PROVE Spec => []PathWhole
  BY Invariance, PTL DEF IInv

\* The state AtomicFile sees.
View(t) == IF Persisting(t) THEN [kind |-> "replace", image |-> op[t].image]
           ELSE IF op[t].pc = "read" THEN [kind |-> "see", image |-> inode[op[t].fd]]
           ELSE [kind |-> "idle", image |-> None]
Seen == [t \in Thread |-> View(t)]

LEMMA SeenMoves ==
  ASSUME NEW t \in Thread, NEW x, View(t)' = x,
         \A u \in Thread \ {t} : View(u)' = View(u)
  PROVE  Seen' = [Seen EXCEPT ![t] = x]
  BY Zenon DEF Seen

LEMMA StepReplaces ==
  ASSUME OneProcess, IInv, IInv', [Next]_vars
  PROVE  [File!Next]_<<inode[path], Seen>>
<1>1. ASSUME NEW t \in Thread, NEW v \in Image, Lock(t, v)
      PROVE  File!StartReplace(t, v)
  <2>1. View(t)' = File!Replacing(v)
    BY <1>1, SMT DEF Goto, Lock, IInv, TypeOK, View, Persisting, File!Replacing
  <2>2. \A u \in Thread \ {t} : View(u)' = View(u)
    BY <1>1, SMT DEF Goto, Lock, IInv, TypeOK, View, Persisting
  <2>3. Seen[t] = File!Idle
    BY <1>1, SMT DEF Lock, Seen, View, Persisting, File!Idle
  <2> QED BY <1>1, <2>1, <2>2, <2>3, SeenMoves, Zenon
        DEF Lock, Seen, View, File!StartReplace
<1>2. ASSUME NEW t \in Thread, Open(t) \/ Write(t)
      PROVE  UNCHANGED <<inode[path], Seen>>
  <2>1. /\ \A u \in Thread : op'[u].image = op[u].image /\ Persisting(u)' = Persisting(u)
        /\ \A u \in Thread : op[u].pc = "read" <=> op'[u].pc = "read"
        /\ \A u \in Thread : op[u].pc = "read" => op'[u].fd = op[u].fd
    BY <1>2, SMT DEF Goto, Open, Write, IInv, TypeOK, Persisting, Op
  <2>2. \A i \in Inode : inode'[i] = inode[i] \/ i = tmp'
    BY <1>2, SMT DEF Goto, Open, Write, IInv, TypeOK, Stage
  <2>3. inode'[path'] = inode[path]
    BY <1>2, <2>2, SMT DEF Goto, Open, Write, IInv, TypeOK
  <2>4. \A u \in Thread : op[u].pc = "read" => inode'[op'[u].fd] = inode[op[u].fd]
    BY <2>1, <2>2, SMT DEF IInv, Stage
  <2> QED BY <2>1, <2>3, <2>4 DEF Seen, View
<1>3. ASSUME NEW t \in Thread, OpenFails(t) \/ RenameFails(t) \/ WriteFails(t) \/ ReadAll(t)
      PROVE  File!End({t})
  <2>1. \A i \in Inode : inode'[i] = inode[i] \/ i = tmp
    BY <1>3, SMT DEF OpenFails, RenameFails, WriteFails, ReadAll, IInv, TypeOK, Stage
  <2>2. inode'[path'] = inode[path]
    BY <1>3, <2>1, SMT DEF OpenFails, RenameFails, WriteFails, ReadAll, IInv, TypeOK
  <2>3. op' = [op EXCEPT ![t] = Idle]
    BY <1>3 DEF OpenFails, RenameFails, WriteFails, ReadAll
  <2>4. \A u \in Thread : op[u].pc = "read" => inode'[op[u].fd] = inode[op[u].fd]
    BY <2>1, SMT DEF IInv, Stage
  <2> QED BY <2>2, <2>3, <2>4, SMT
        DEF IInv, TypeOK, Persisting, Op, Idle, File!End, File!Idle
<1>4. ASSUME NEW t \in Thread, Rename(t) PROVE File!Replace(t)
  <2>1. inode'[path'] = op[t].image BY <1>4 DEF Rename, IInv, Stage
  <2>2. View(t)' = File!Idle
    BY <1>4, SMT DEF Rename, IInv, TypeOK, View, Persisting, Idle, File!Idle
  <2>3. \A u \in Thread \ {t} : View(u)' = View(u)
    BY <1>4, SMT DEF Rename, IInv, TypeOK, View, Persisting
  <2>4. Seen[t] = [kind |-> "replace", image |-> op[t].image]
    BY <1>4, SMT DEF Rename, Seen, View, Persisting
  <2>5. Seen[t].kind = "replace" /\ Seen[t].image = op[t].image BY <2>4
  <2> QED BY <2>1, <2>2, <2>3, <2>5, SeenMoves, Zenon
        DEF Seen, View, File!Replace
<1>5. ASSUME NEW t \in Thread, OpenToRead(t) PROVE File!See(t)
  <2>1. View(t)' = File!Seeing(inode[path])
    BY <1>5, SMT DEF Goto, OpenToRead, IInv, TypeOK, View, Persisting, File!Seeing
  <2>2. \A u \in Thread \ {t} : View(u)' = View(u)
    BY <1>5, SMT DEF Goto, OpenToRead, IInv, TypeOK, View, Persisting
  <2>3. Seen[t] = File!Idle
    BY <1>5, SMT DEF OpenToRead, Seen, View, Persisting, File!Idle
  <2> QED BY <1>5, <2>1, <2>2, <2>3, SeenMoves, Zenon
        DEF OpenToRead, Seen, View, File!See
<1>6. ASSUME NEW p \in Process, Kill(p)
      PROVE  File!End({t \in Thread : ProcessOf[t] = p})
  BY <1>6, SMT DEF Kill, IInv, TypeOK, Persisting, Op, Idle, File!End, File!Idle
<1>7. ASSUME UNCHANGED vars PROVE UNCHANGED <<inode[path], Seen>>
  BY <1>7 DEF vars, Seen, View, Persisting
<1> QED
  BY <1>1, <1>2, <1>3, <1>4, <1>5, <1>6, <1>7, Zenon DEF Next, PersistStep, File!Next, Seen, View

(* In one process Persist replaces the file as a whole with the image it      *)
(* marshalled, or leaves it alone, and each load sees one whole image: the    *)
(* code implements AtomicFile.                                                *)
THEOREM PersistIsAtomic == ASSUME OneProcess PROVE Spec => ReplacedAtomically
<1>1. Init => File!Init
  BY SMT DEF Init, File!Init, File!Idle, Persisting, Idle
<1>2. IInv /\ IInv' /\ [Next]_vars => [File!Next]_<<inode[path], Seen>>
  BY StepReplaces
<1> QED BY <1>1, <1>2, Invariance, PTL DEF Spec, ReplacedAtomically, File!Spec, Seen, View

-----------------------------------------------------------------------------
(* With any number of processes the mutexes and the descriptors are in order, *)
(* though the contents of the file then need not be.                          *)
Descriptors == \A t \in Thread :
  /\ op[t].pc \in {"write", "rename", "read"} => op[t].fd \in Inode
  /\ Persisting(t) => op[t].image \in Image

LEMMA LeaveTyped ==
  ASSUME TypeOK, Descriptors, NEW t \in Thread, Persisting(t),
         op' = [op EXCEPT ![t] = Idle], Unlock(t)
  PROVE  /\ lock' \in [Process -> Thread \cup {None}] /\ op' \in [Thread -> Op]
         /\ LockHeld' /\ Descriptors'
<1> USE StoreFileAssumption
<1>1. PICK p \in Process : p = ProcessOf[t]
  OBVIOUS
<1>2. lock' = [lock EXCEPT ![p] = None] /\ lock[p] = t /\ lock \in [Process -> Thread \cup {None}]
  BY <1>1 DEF Unlock, TypeOK, LockHeld
<1>3. Idle \in Op /\ op \in [Thread -> Op]
  BY DEF Idle, Op, TypeOK
<1>4. \A u \in Thread : op'[u] = IF u = t THEN Idle ELSE op[u]
  BY <1>3
<1>5. \A u \in Thread : Persisting(u)' <=> Persisting(u) /\ u # t
  BY <1>4 DEF Persisting, Idle
<1>6. LockHeld'
  <2> SUFFICES ASSUME NEW u \in Thread PROVE Persisting(u)' <=> lock'[ProcessOf[u]] = u
    BY DEF LockHeld
  <2>1. Persisting(u) <=> lock[ProcessOf[u]] = u
    BY DEF TypeOK, LockHeld
  <2>2. lock'[ProcessOf[u]] = IF ProcessOf[u] = p THEN None ELSE lock[ProcessOf[u]]
    BY <1>2
  <2> QED BY <1>1, <1>2, <1>5, <2>1, <2>2
<1>7. Descriptors'
  BY <1>4, <1>5 DEF Descriptors, Idle
<1> QED BY <1>2, <1>3, <1>6, <1>7

LEMMA StepKeepsDescriptors ==
  ASSUME TypeOK, Descriptors, [Next]_vars PROVE TypeOK' /\ Descriptors'
<1> USE StoreFileAssumption
<1>0. ASSUME NEW t \in Thread, NEW h \in Op, op' = [op EXCEPT ![t] = h], lock' = lock,
             h.pc \in {"open", "write", "rename"} <=> Persisting(t),
             h.pc \in {"write", "rename", "read"} => h.fd \in Inode,
             h.pc \in {"open", "write", "rename"} => h.image \in Image
      PROVE  op' \in [Thread -> Op] /\ LockHeld' /\ Descriptors'
  <2>1. op \in [Thread -> Op]
    BY DEF TypeOK
  <2>2. \A u \in Thread : op'[u] = IF u = t THEN h ELSE op[u]
    BY <1>0, <2>1
  <2>3. \A u \in Thread : Persisting(u)' <=> Persisting(u)
    BY <1>0, <2>2 DEF Persisting
  <2> QED BY <1>0, <2>1, <2>2, <2>3 DEF TypeOK, LockHeld, Descriptors, Persisting
<1>1. ASSUME NEW t \in Thread, NEW v \in Image, Lock(t, v) PROVE TypeOK' /\ Descriptors'
  <2>1. PICK h \in Op : /\ h = [pc |-> "open", image |-> v, fd |-> None] /\ op' = [op EXCEPT ![t] = h]
    BY <1>1 DEF Lock, Goto, Op
  <2>2. PICK p \in Process : p = ProcessOf[t]
    OBVIOUS
  <2>3. /\ lock' = [lock EXCEPT ![p] = t] /\ lock[p] = None
        /\ lock \in [Process -> Thread \cup {None}] /\ op \in [Thread -> Op]
        /\ UNCHANGED <<path, tmp, inode>>
    BY <1>1, <2>2 DEF Lock, TypeOK
  <2>4. \A u \in Thread : op'[u] = IF u = t THEN h ELSE op[u]
    BY <2>1, <2>3
  <2>5. \A u \in Thread : Persisting(u)' <=> Persisting(u) \/ u = t
    BY <2>1, <2>4 DEF Persisting
  <2>6. LockHeld'
    <3> SUFFICES ASSUME NEW u \in Thread PROVE Persisting(u)' <=> lock'[ProcessOf[u]] = u
      BY DEF LockHeld
    <3>1. Persisting(u) <=> lock[ProcessOf[u]] = u
      BY DEF TypeOK, LockHeld
    <3>2. lock'[ProcessOf[u]] = IF ProcessOf[u] = p THEN t ELSE lock[ProcessOf[u]]
      BY <2>3
    <3> QED BY <2>2, <2>3, <2>5, <3>1, <3>2
  <2>7. Descriptors'
    BY <2>1, <2>4, <2>5 DEF Descriptors
  <2> QED BY <2>1, <2>3, <2>6, <2>7 DEF TypeOK
<1>2. ASSUME NEW t \in Thread, Open(t) PROVE TypeOK' /\ Descriptors'
  <2>1. op[t].image \in Image /\ Persisting(t)
    BY <1>2 DEF Open, Descriptors, Persisting
  <2>2. PICK i \in Inode : /\ tmp' = i /\ inode' = [inode EXCEPT ![i] = Empty]
                           /\ Goto(t, "write", op[t].image, i)
    BY <1>2 DEF Open
  <2>3. PICK h \in Op : h = [pc |-> "write", image |-> op[t].image, fd |-> i]
    BY <2>1 DEF Op
  <2>4. op' = [op EXCEPT ![t] = h] /\ lock' = lock /\ path' = path
    BY <1>2, <2>2, <2>3 DEF Open, Goto
  <2>5. op' \in [Thread -> Op] /\ LockHeld' /\ Descriptors'
    BY <1>0, <2>1, <2>3, <2>4
  <2> QED BY <2>2, <2>4, <2>5 DEF TypeOK, Content
<1>3. ASSUME NEW t \in Thread, Write(t) PROVE TypeOK' /\ Descriptors'
  <2>1. op[t].image \in Image /\ Persisting(t) /\ op[t].fd \in Inode
    BY <1>3 DEF Write, Descriptors, Persisting
  <2>2. PICK c \in Content : inode' = [inode EXCEPT ![op[t].fd] = c]
    BY <1>3, <2>1 DEF Write, Content
  <2>3. PICK h \in Op : h = [pc |-> "rename", image |-> op[t].image, fd |-> op[t].fd]
    BY <2>1 DEF Op
  <2>4. op' = [op EXCEPT ![t] = h] /\ lock' = lock /\ path' = path /\ tmp' = tmp
    BY <1>3, <2>3 DEF Write, Goto
  <2>5. op' \in [Thread -> Op] /\ LockHeld' /\ Descriptors'
    BY <1>0, <2>1, <2>3, <2>4
  <2> QED BY <2>2, <2>4, <2>5 DEF TypeOK
<1>4. ASSUME NEW t \in Thread, OpenFails(t) \/ RenameFails(t) \/ WriteFails(t) \/ Rename(t)
      PROVE  TypeOK' /\ Descriptors'
  <2>1. Persisting(t) /\ op' = [op EXCEPT ![t] = Idle] /\ Unlock(t)
    BY <1>4 DEF OpenFails, RenameFails, WriteFails, Rename, Persisting
  <2>2. path' \in Inode /\ tmp' \in Inode \cup {None}
    BY <1>4 DEF OpenFails, RenameFails, WriteFails, Rename, TypeOK
  <2>3. inode' \in [Inode -> Content]
    BY <1>4 DEF OpenFails, RenameFails, WriteFails, Rename, TypeOK, Content
  <2> QED BY <2>1, <2>2, <2>3, LeaveTyped DEF TypeOK
<1>5. ASSUME NEW t \in Thread, OpenToRead(t) \/ ReadAll(t) PROVE TypeOK' /\ Descriptors'
  <2>1. PICK h \in Op : /\ op' = [op EXCEPT ![t] = h] /\ h.pc \in {"idle", "read"}
                        /\ h.pc = "read" => h.fd \in Inode
    <3>1. Idle \in Op /\ Idle.pc = "idle"
      BY DEF Idle, Op
    <3>2. PICK g : g = [pc |-> "read", image |-> None, fd |-> path]
      OBVIOUS
    <3>3. g \in Op /\ g.pc = "read" /\ g.fd \in Inode
      BY <3>2 DEF Op, TypeOK
    <3>4. CASE OpenToRead(t)
      BY <3>2, <3>3, <3>4, Zenon DEF Goto, OpenToRead
    <3>5. CASE ReadAll(t)
      <4>1. op' = [op EXCEPT ![t] = Idle] /\ Idle.pc # "read"
        BY <3>1, <3>5 DEF ReadAll
      <4> QED BY <3>1, <4>1, Zenon
    <3> QED BY <1>5, <3>4, <3>5
  <2>2. ~Persisting(t) /\ UNCHANGED <<path, tmp, inode, lock>>
    BY <1>5 DEF OpenToRead, ReadAll, Persisting
  <2>3. op' \in [Thread -> Op] /\ LockHeld' /\ Descriptors'
    BY <1>0, <2>1, <2>2
  <2> QED BY <2>2, <2>3 DEF TypeOK
<1>6. ASSUME NEW p \in Process, Kill(p) PROVE TypeOK' /\ Descriptors'
  <2>1. /\ lock' = [lock EXCEPT ![p] = None] /\ lock \in [Process -> Thread \cup {None}]
        /\ op \in [Thread -> Op] /\ Idle \in Op /\ UNCHANGED <<path, tmp, inode>>
        /\ \A u \in Thread : op'[u] = IF ProcessOf[u] = p THEN Idle ELSE op[u]
        /\ op' \in [Thread -> Op]
    BY <1>6 DEF Kill, TypeOK, Idle, Op
  <2>2. \A u \in Thread : Persisting(u)' <=> Persisting(u) /\ ProcessOf[u] # p
    BY <2>1 DEF Persisting, Idle
  <2>3. LockHeld'
    <3> SUFFICES ASSUME NEW u \in Thread PROVE Persisting(u)' <=> lock'[ProcessOf[u]] = u
      BY DEF LockHeld
    <3>1. Persisting(u) <=> lock[ProcessOf[u]] = u
      BY DEF TypeOK, LockHeld
    <3>2. lock'[ProcessOf[u]] = IF ProcessOf[u] = p THEN None ELSE lock[ProcessOf[u]]
      BY <2>1
    <3> QED BY <2>2, <3>1, <3>2
  <2>4. Descriptors'
    BY <2>1, <2>2 DEF Descriptors, Idle
  <2> QED BY <2>1, <2>3, <2>4 DEF TypeOK
<1>7. ASSUME UNCHANGED vars PROVE TypeOK' /\ Descriptors'
  BY <1>7 DEF vars, TypeOK, LockHeld, Persisting, Descriptors
<1> QED BY <1>1, <1>2, <1>3, <1>4, <1>5, <1>6, <1>7 DEF Next, PersistStep

(* Every way out of persistLocked gives the mutex back, and only the thread   *)
(* inside it has it, in each of any number of processes (store.go:148-170).   *)
THEOREM MutexIsReturned == Spec => []TypeOK
<1>1. Init => TypeOK /\ Descriptors
  BY StoreFileAssumption, SMT
  DEF Init, TypeOK, LockHeld, Persisting, Descriptors, Op, Idle, Content
<1> QED BY <1>1, StepKeepsDescriptors, PTL DEF Spec
==============================================================================
