------------------------------ MODULE StoreFile ------------------------------
(* The state file under agent/internal/auth/store.go: persistLocked writes    *)
(* path.tmp and renames it over path, NewStore and Reload read path.  The     *)
(* server's goroutines share one Store and its mutex; `qwe1-agent --enroll`   *)
(* is a process of its own with another Store on the same two names.          *)
CONSTANTS Thread,      \* goroutines that persist or load
          Process,     \* the agents running: the server, the enroll command
          ProcessOf,   \* the process of each thread
          Image,       \* the states a Store marshals
          Inode,       \* the files of the file system
          None, Empty, Torn

ASSUME StoreFileAssumption ==
  /\ ProcessOf \in [Thread -> Process]
  /\ None \notin Image \cup Inode \cup Thread
  /\ {Empty, Torn} \cap Image = {}

VARIABLES
  path,    \* the inode the state file's name leads to
  tmp,     \* the inode of path.tmp, None when there is no such file
  inode,   \* what each inode holds: one image, nothing, or a mixture
  lock,    \* Store.mu of each process: the thread that writes, or None
  op       \* what each thread is doing

vars == <<path, tmp, inode, lock, op>>

Content == Image \cup {Empty, Torn}
Idle    == [pc |-> "idle", image |-> None, fd |-> None]
Op == [pc : {"idle", "open", "write", "rename", "read"},
       image : Image \cup {None}, fd : Inode \cup {None}]

Persisting(t) == op[t].pc \in {"open", "write", "rename"}
InUse == {path, tmp} \cup {op[t].fd : t \in Thread}

Init == /\ path \in Inode
        /\ tmp = None
        /\ \E v \in Image : inode = [i \in Inode |-> IF i = path THEN v ELSE Empty]
        /\ lock = [p \in Process |-> None]
        /\ op = [t \in Thread |-> Idle]

Goto(t, pc, v, i) == op' = [op EXCEPT ![t] = [pc |-> pc, image |-> v, fd |-> i]]

(* Persist (store.go:148): take the mutex, marshal the memory.                *)
Lock(t, v) == /\ op[t].pc = "idle" /\ lock[ProcessOf[t]] = None
              /\ lock' = [lock EXCEPT ![ProcessOf[t]] = t]
              /\ Goto(t, "open", v, None)
              /\ UNCHANGED <<path, tmp, inode>>

(* os.WriteFile opens path.tmp with O_CREATE and O_TRUNC (store.go:164).      *)
Open_OnThePath(t) == /\ op[t].pc = "open"
                     /\ inode' = [inode EXCEPT ![path] = Empty]
                     /\ Goto(t, "write", op[t].image, path)
                     /\ UNCHANGED <<path, tmp, lock>>

Open(t) == /\ op[t].pc = "open"
           /\ \E i \in Inode :
                /\ IF tmp = None THEN i \notin InUse ELSE i = tmp
                /\ tmp' = i
                /\ inode' = [inode EXCEPT ![i] = Empty]
                /\ Goto(t, "write", op[t].image, i)
           /\ UNCHANGED <<path, lock>>

(* It writes from the start of the file: over what another process has        *)
(* written since the truncation, the tail of a longer text stays.             *)
Write(t) == /\ op[t].pc = "write"
            /\ \E c \in (IF inode[op[t].fd] = Empty THEN {op[t].image} ELSE {op[t].image, Torn}) :
                 inode' = [inode EXCEPT ![op[t].fd] = c]
            /\ Goto(t, "rename", op[t].image, op[t].fd)
            /\ UNCHANGED <<path, tmp, lock>>

(* A full disk: WriteFile or the open fails, path.tmp stays as it is.         *)
Unlock(t) == lock' = [lock EXCEPT ![ProcessOf[t]] = None]

OpenFails(t) == /\ op[t].pc = "open"
                /\ op' = [op EXCEPT ![t] = Idle]
                /\ Unlock(t)
                /\ UNCHANGED <<path, tmp, inode>>

WriteFails(t) == /\ op[t].pc = "write"
                 /\ inode' = [inode EXCEPT ![op[t].fd] = Torn]
                 /\ op' = [op EXCEPT ![t] = Idle]
                 /\ Unlock(t)
                 /\ UNCHANGED <<path, tmp>>

(* os.Rename (store.go:168) moves the name path.tmp, whatever inode it leads  *)
(* to by now, and fails when another process has moved it already.            *)
Rename(t) == /\ op[t].pc = "rename" /\ tmp # None
             /\ path' = tmp /\ tmp' = None
             /\ op' = [op EXCEPT ![t] = Idle]
             /\ Unlock(t)
             /\ UNCHANGED inode

RenameFails(t) == /\ op[t].pc = "rename"
                  /\ op' = [op EXCEPT ![t] = Idle]
                  /\ Unlock(t)
                  /\ UNCHANGED <<path, tmp, inode>>

(* os.ReadFile in NewStore and Reload (store.go:120): no lock is held.        *)
OpenToRead(t) == /\ op[t].pc = "idle"
                 /\ Goto(t, "read", None, path)
                 /\ UNCHANGED <<path, tmp, inode, lock>>

ReadAll(t) == /\ op[t].pc = "read"
              /\ op' = [op EXCEPT ![t] = Idle]
              /\ UNCHANGED <<path, tmp, inode, lock>>

(* A process is killed: its threads and its mutex go, the files stay.         *)
Kill(p) == /\ op' = [t \in Thread |-> IF ProcessOf[t] = p THEN Idle ELSE op[t]]
           /\ lock' = [lock EXCEPT ![p] = None]
           /\ UNCHANGED <<path, tmp, inode>>

PersistStep(t) == \/ \E v \in Image : Lock(t, v)
                  \/ Open(t) \/ OpenFails(t) \/ Write(t) \/ WriteFails(t)
                  \/ Rename(t) \/ RenameFails(t)

Next == \/ \E t \in Thread : PersistStep(t) \/ OpenToRead(t) \/ ReadAll(t)
        \/ \E p \in Process : Kill(p)

Spec == Init /\ [][Next]_vars

-----------------------------------------------------------------------------
(* The mutex of a process is held exactly by its thread inside Persist, on    *)
(* every path out of persistLocked.                                           *)
LockHeld == \A t \in Thread : Persisting(t) <=> lock[ProcessOf[t]] = t

TypeOK == /\ path \in Inode /\ tmp \in Inode \cup {None}
          /\ inode \in [Inode -> Content]
          /\ lock \in [Process -> Thread \cup {None}]
          /\ op \in [Thread -> Op]
          /\ LockHeld

(* Whoever reads the state file reads one image (Reload and NewStore          *)
(* unmarshal it, and NewStore's error keeps the agent from starting).         *)
PathWhole == inode[path] \in Image

(* The promise of AtomicFile.  Persist is a Replace that happens at the       *)
(* rename; a load sees what its inode holds, from the open to the end.        *)
File == INSTANCE AtomicFile WITH
  file <- inode[path],
  op   <- [t \in Thread |->
             IF Persisting(t) THEN [kind |-> "replace", image |-> op[t].image]
             ELSE IF op[t].pc = "read" THEN [kind |-> "see", image |-> inode[op[t].fd]]
             ELSE [kind |-> "idle", image |-> None]]

(* A Persist replaces the file as a whole with the image it marshalled and a  *)
(* load sees one whole image, through failing writes and kills.               *)
ReplacedAtomically == File!Spec
=============================================================================
