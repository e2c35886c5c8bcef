-------------------------------- MODULE Files ---------------------------------
(* The file manager of agent/internal/files/files.go under the /fs handlers:  *)
(* several requests at a time on one tree, nothing locked, each a sequence of *)
(* system calls by path. A file holds chunks; a reader or writer keeps the    *)
(* inode it opened, wherever the name goes.                                   *)
EXTENDS Integers, Sequences, FiniteSets, SequencesExt

CONSTANTS
  Name,      \* names of files and directories
  Hidden,    \* those that begin with a dot
  Request,   \* the requests; also the name of the temporary file each creates
  Operation, \* [kind, from, to] they may ask for
  Depth,     \* the longest path the file system takes
  Chunks,    \* chunks in an upload
  MaxInode,  \* inodes of the disk
  Start      \* the tree at the start; inode 1 is the one file in it

Dir == 0
NoPath == <<"">>
Outside == <<"..">>

ASSUME FilesAssumption ==
  /\ Hidden \subseteq Name /\ Name \cap Request = {}
  /\ Depth \in Nat /\ Chunks \in Nat \ {0} /\ MaxInode \in Nat \ {0}
  /\ \A op \in Operation : {op.from, op.to} \subseteq Seq(Name) \cup {NoPath, Outside}
  /\ IsFiniteSet(DOMAIN Start) /\ Start \in [DOMAIN Start -> {Dir, 1}]
  /\ <<>> \in DOMAIN Start /\ Start[<<>>] = Dir
  /\ \A p \in DOMAIN Start :
       /\ p \in Seq(Name)
       /\ \A n \in 0 .. Len(p) - 1 : SubSeq(p, 1, n) \in DOMAIN Start /\ Start[SubSeq(p, 1, n)] = Dir

VARIABLES
  tree,     \* what is at each path: 0 for a directory, or an inode
  data,     \* the chunks of each inode
  req,      \* the requests
  inPlace,  \* inodes that a copy opened for writing
  unusual   \* what happened so far: "crash", "dirMoved", "dirCopied"

vars == <<tree, data, req, inPlace, unusual>>

Path == DOMAIN tree
Under(p, top) == IsPrefix(top, p)
IsDir(p) == p \in Path /\ tree[p] = Dir
IsFile(p) == p \in Path /\ tree[p] # Dir
DirOf(p) == IF p = <<>> THEN <<>> ELSE Front(p)
Children(p) == {q \in Path : q # <<>> /\ DirOf(q) = p}
Without(gone) == [p \in Path \ gone |-> tree[p]]
With(p, node) == [q \in Path \cup {p} |-> IF q = p THEN node ELSE tree[q]]

Opened == UNION {{req[r].in, req[r].out} : r \in Request}
Free == (1 .. MaxInode) \ (Opened \cup {tree[p] : p \in Path})
Fresh == CHOOSE i \in Free : TRUE

Idle == [at |-> "new", kind |-> "none", from |-> <<>>, to |-> <<>>, in |-> 0, out |-> 0,
         done |-> 0, got |-> <<>>, todo |-> <<>>, stays |-> {}, moved |-> FALSE]
Original == [n \in 1 .. Chunks |-> <<"original", n>>]
Upload(r) == [n \in 1 .. Chunks |-> <<r, n>>]

Init == /\ tree = Start /\ data = [i \in 1 .. MaxInode |-> IF i = 1 THEN Original ELSE <<>>]
        /\ req = [r \in Request |-> Idle] /\ inPlace = {} /\ unusual = {}

(* Every step also keeps, of a search, the paths that were there at each one. *)
Moves(r, new) ==
  req' = [q \in Request |-> LET now == IF q = r THEN new ELSE req[q]
                            IN [now EXCEPT !.stays = @ \cap Path]]
At(r, at) == req[r].at = at
GoesTo(r, at) == Moves(r, [req[r] EXCEPT !.at = at])
Ended == [Idle EXCEPT !.at = "ended"]
Ends(r) == Moves(r, Ended)
Untouched == UNCHANGED <<tree, data, inPlace, unusual>>

(* Resolve: no path is the first root, and a path outside the roots or with a *)
(* dot file at its end is refused.                                            *)
Resolvable(p) == p # Outside /\ (p = <<>> \/ Last(p) \notin Hidden)
Resolve(p) == IF p = NoPath THEN <<>> ELSE p

Begin(r) ==
  /\ At(r, "new")
  /\ \E op \in Operation :
       IF Resolvable(op.from) /\ Resolvable(op.to)
       THEN Moves(r, [Idle EXCEPT !.at = "begun", !.kind = op.kind, !.from = Resolve(op.from),
                        !.to = Resolve(op.to), !.stays = Path, !.todo = << <<>> >>])
       ELSE Ends(r)
  /\ Untouched

Is(r, kind) == At(r, "begun") /\ req[r].kind = kind

-----------------------------------------------------------------------------
(* Write: checkNotDir, then writeAtomic: a temporary file beside the target,  *)
(* its chunks, a rename, and at last the deferred removal of its name.        *)
Temp(r) == Append(DirOf(req[r].to), r)

WriteCheck(r) == /\ Is(r, "write")
                 /\ IF IsDir(req[r].to) THEN Ends(r) ELSE GoesTo(r, "create")
                 /\ Untouched

(* The write that Write does not do: into the file that is there.             *)
CreateTemp_InPlace(r) ==
  /\ At(r, "create") /\ IsDir(DirOf(req[r].to))
  /\ LET i == IF IsFile(req[r].to) THEN tree[req[r].to] ELSE Fresh IN
     /\ tree' = With(req[r].to, i)
     /\ data' = [data EXCEPT ![i] = <<>>]
     /\ inPlace' = inPlace \ {i}
     /\ Moves(r, [req[r] EXCEPT !.at = "fill", !.out = i])
  /\ UNCHANGED unusual

CreateTemp(r) ==
  /\ At(r, "create")
  /\ IF IsDir(DirOf(req[r].to)) /\ Free # {}
     THEN /\ tree' = With(Temp(r), Fresh)
          /\ data' = [data EXCEPT ![Fresh] = <<>>]
          /\ inPlace' = inPlace \ {Fresh}
          /\ Moves(r, [req[r] EXCEPT !.at = "fill", !.out = Fresh])
     ELSE /\ Ends(r) /\ UNCHANGED <<tree, data, inPlace>>
  /\ UNCHANGED unusual

(* io.Copy writes at its own offset; what another truncation left is a hole.  *)
PutAt(s, n, chunk) == [k \in 1 .. (IF n > Len(s) THEN n ELSE Len(s)) |->
                         IF k = n THEN chunk ELSE IF k \in DOMAIN s THEN s[k] ELSE <<"hole", k>>]

FillTemp(r) ==
  /\ At(r, "fill") /\ req[r].done < Chunks
  /\ LET n == req[r].done + 1 IN data' = [data EXCEPT ![req[r].out] = PutAt(@, n, <<r, n>>)]
  /\ Moves(r, [req[r] EXCEPT !.done = @ + 1])
  /\ UNCHANGED <<tree, inPlace, unusual>>

(* The body breaks off, is too large, or the disk is full.                    *)
FillFails_Renames(r) == At(r, "fill") /\ GoesTo(r, "replace") /\ Untouched
FillFails(r) == At(r, "fill") /\ GoesTo(r, "clean") /\ Untouched

FillEnds(r) == At(r, "fill") /\ req[r].done = Chunks /\ GoesTo(r, "replace") /\ Untouched

(* os.Rename of a file or a whole directory.                                  *)
CanMove(a, b) == /\ a \in Path /\ IsDir(DirOf(b)) /\ ~IsDir(b) /\ b # <<>>
                 /\ IsDir(a) => b \notin Path /\ ~Under(b, a)
Moved(a, b) ==
  LET rest(p) == SubSeq(p, Len(a) + 1, Len(p))
      came(q) == b \o rest(q)
      target(q) == IF Under(q, a) THEN came(q) ELSE q
  IN [p \in {target(q) : q \in Path \ {b}} \cup {b} |->
        IF Under(p, b) THEN tree[a \o SubSeq(p, Len(b) + 1, Len(p))] ELSE tree[p]]

Replace(r) ==
  /\ At(r, "replace")
  /\ tree' = IF IsFile(Temp(r)) /\ CanMove(Temp(r), req[r].to)
             THEN Moved(Temp(r), req[r].to) ELSE tree
  /\ GoesTo(r, "clean")
  /\ UNCHANGED <<data, inPlace, unusual>>

Clean_Skipped(r) == At(r, "clean") /\ Ends(r) /\ Untouched
Clean(r) == /\ At(r, "clean")
            /\ tree' = IF IsFile(Temp(r)) THEN Without({Temp(r)}) ELSE tree
            /\ Ends(r)
            /\ UNCHANGED <<data, inPlace, unusual>>

-----------------------------------------------------------------------------
(* handleFsRead: Open looks at the path (and refuses a large file), opens it, *)
(* and the answer is the chunks of the inode that it opened.                  *)
ReadStat(r) == /\ Is(r, "read")
               /\ (IsFile(req[r].from) /\ GoesTo(r, "open")) \/ Ends(r)
               /\ Untouched

ReadOpen(r) == /\ At(r, "open")
               /\ IF IsFile(req[r].from)
                  THEN Moves(r, [req[r] EXCEPT !.at = "reading", !.in = tree[req[r].from]])
                  ELSE Ends(r)
               /\ Untouched

ReadChunk(r) == /\ At(r, "reading") /\ req[r].done < Len(data[req[r].in])
                /\ Moves(r, [req[r] EXCEPT !.done = @ + 1,
                                           !.got = Append(@, data[req[r].in][req[r].done + 1])])
                /\ Untouched

ReadEnd(r) == /\ At(r, "reading") /\ req[r].done >= Len(data[req[r].in])
              /\ GoesTo(r, "answered")
              /\ Untouched

-----------------------------------------------------------------------------
(* MkdirAll makes what is missing of a path, unless a file is in the way.     *)
PathsTo(p) == {SubSeq(p, 1, n) : n \in 0 .. Len(p)}
CanMkdirAll(p) == Len(p) <= Depth /\ \A q \in PathsTo(p) : ~IsFile(q)
MkdirAll(p) == [q \in Path \cup PathsTo(p) |-> IF q \in Path THEN tree[q] ELSE Dir]

Mkdir(r) == /\ Is(r, "mkdir")
            /\ tree' = IF CanMkdirAll(req[r].to) THEN MkdirAll(req[r].to) ELSE tree
            /\ Ends(r)
            /\ UNCHANGED <<data, inPlace, unusual>>

RenameCheck(r) == /\ Is(r, "rename")
                  /\ IF IsDir(req[r].to) THEN Ends(r) ELSE GoesTo(r, "move")
                  /\ Untouched

(* A directory that is being emptied takes the removal along.                *)
Follows(old, a, b) ==
  IF old.at = "empty" /\ Under(old.from, a)
  THEN [old EXCEPT !.from = b \o SubSeq(@, Len(a) + 1, Len(@)), !.moved = @ \/ old.from = a]
  ELSE old

Rename(r) ==
  /\ At(r, "move")
  /\ LET a == req[r].from
         b == req[r].to
     IN IF CanMove(a, b)
        THEN /\ tree' = Moved(a, b)
             /\ unusual' = IF IsDir(a) THEN unusual \cup {"dirMoved"} ELSE unusual
             /\ req' = [q \in Request |-> IF q = r THEN Ended
                          ELSE [Follows(req[q], a, b) EXCEPT !.stays = @ \cap Path]]
        ELSE Ends(r) /\ UNCHANGED <<tree, unusual>>
  /\ UNCHANGED <<data, inPlace>>

(* Delete: Lstat, and a directory only if the request is recursive. Then the  *)
(* name goes, or RemoveAll opens the directory and empties it by relative     *)
(* names: wherever it is moved meanwhile, and then under a name it keeps.     *)
DeleteCheck(r) ==
  /\ req[r].kind \in {"delete", "deleteAll"} /\ At(r, "begun")
  /\ IF req[r].from \in Path /\ (IsDir(req[r].from) => req[r].kind = "deleteAll")
     THEN GoesTo(r, "remove") ELSE Ends(r)
  /\ Untouched

RemoveName(r) ==
  /\ At(r, "remove")
  /\ LET p == req[r].from IN
     IF Children(p) # {} /\ req[r].kind = "deleteAll"
     THEN GoesTo(r, "empty") /\ UNCHANGED tree
     ELSE /\ tree' = IF Children(p) = {} THEN Without({p}) ELSE tree
          /\ Ends(r)
  /\ UNCHANGED <<data, inPlace, unusual>>

RemoveEntry_Loose(r) ==
  /\ At(r, "empty")
  /\ \E p \in Path : /\ Under(p, DirOf(req[r].from)) /\ p # req[r].from /\ Children(p) = {}
                     /\ tree' = Without({p})
  /\ GoesTo(r, "empty")
  /\ UNCHANGED <<data, inPlace, unusual>>

RemoveEntry(r) ==
  /\ At(r, "empty")
  /\ \E p \in Path : /\ Under(p, req[r].from) /\ p # req[r].from /\ Children(p) = {}
                     /\ tree' = Without({p})
  /\ GoesTo(r, "empty")
  /\ UNCHANGED <<data, inPlace, unusual>>

(* At last the name in its parent, if the directory is still empty and there. *)
RemoveTop(r) ==
  /\ At(r, "empty")
  /\ tree' = IF IsDir(req[r].from) /\ Children(req[r].from) = {} /\ ~req[r].moved
             THEN Without({req[r].from}) ELSE tree
  /\ Ends(r)
  /\ UNCHANGED <<data, inPlace, unusual>>

-----------------------------------------------------------------------------
(* Copy: a list of what is left to copy, taken from the front; a directory    *)
(* puts its entries there as ReadDir finds them.                              *)
Item(a, b) == [from |-> a, to |-> b, dir |-> IsDir(a)]
CopyStat(r) == /\ Is(r, "copy")
               /\ IF req[r].from \in Path
                  THEN Moves(r, [req[r] EXCEPT !.at = "copying",
                                               !.todo = <<Item(req[r].from, req[r].to)>>])
                  ELSE Ends(r)
               /\ Untouched

NextItem(r) == Head(req[r].todo)

CopyDir(r) ==
  /\ At(r, "copying") /\ req[r].todo # <<>> /\ NextItem(r).dir
  /\ IF IsDir(NextItem(r).from) /\ CanMkdirAll(NextItem(r).to)
     THEN /\ tree' = MkdirAll(NextItem(r).to)
          /\ GoesTo(r, "listing") /\ unusual' = unusual \cup {"dirCopied"}
     ELSE Ends(r) /\ UNCHANGED <<tree, unusual>>
  /\ UNCHANGED <<data, inPlace>>

CopyList_Again(r) ==
  /\ At(r, "listing")
  /\ LET i == NextItem(r)
         entries == SetToSeq({Item(p, Append(i.to, Last(p))) : p \in Children(i.from)})
     IN IF IsDir(i.from)
        THEN Moves(r, [req[r] EXCEPT !.at = "copying", !.todo = entries \o @])
        ELSE Ends(r)
  /\ Untouched

CopyList(r) ==
  /\ At(r, "listing")
  /\ LET i == NextItem(r)
         entries == SetToSeq({Item(p, Append(i.to, Last(p))) : p \in Children(i.from)})
     IN IF IsDir(i.from)
        THEN Moves(r, [req[r] EXCEPT !.at = "copying", !.todo = entries \o Tail(@)])
        ELSE Ends(r)
  /\ Untouched

(* copyFile: the source is opened before the target is created or emptied.    *)
CopyOpen(r) ==
  /\ At(r, "copying") /\ req[r].todo # <<>> /\ ~NextItem(r).dir
  /\ IF IsFile(NextItem(r).from) /\ ~IsDir(NextItem(r).to)
     THEN Moves(r, [req[r] EXCEPT !.at = "target", !.in = tree[NextItem(r).from], !.done = 0])
     ELSE Ends(r)
  /\ Untouched

CopyCreate(r) ==
  /\ At(r, "target")
  /\ LET p == NextItem(r).to
         i == IF IsFile(p) THEN tree[p] ELSE Fresh
         parents == IF CanMkdirAll(DirOf(p)) THEN MkdirAll(DirOf(p)) ELSE tree
     IN IF CanMkdirAll(DirOf(p)) /\ ~IsDir(p) /\ Len(p) <= Depth /\ (IsFile(p) \/ Free # {})
        THEN /\ tree' = [q \in DOMAIN parents \cup {p} |-> IF q = p THEN i ELSE parents[q]]
             /\ data' = [data EXCEPT ![i] = <<>>]
             /\ inPlace' = inPlace \cup {i}
             /\ Moves(r, [req[r] EXCEPT !.at = "pour", !.out = i])
        ELSE Ends(r) /\ tree' = parents /\ UNCHANGED <<data, inPlace>>
  /\ UNCHANGED unusual

CopyChunk(r) ==
  /\ At(r, "pour") /\ req[r].done < Len(data[req[r].in])
  /\ LET n == req[r].done + 1
     IN data' = [data EXCEPT ![req[r].out] = PutAt(@, n, data[req[r].in][n])]
  /\ Moves(r, [req[r] EXCEPT !.done = @ + 1])
  /\ UNCHANGED <<tree, inPlace, unusual>>

CopyNext(r) ==
  /\ At(r, "pour") /\ req[r].done >= Len(data[req[r].in])
  /\ Moves(r, [req[r] EXCEPT !.at = "copying", !.todo = Tail(@), !.in = 0, !.out = 0])
  /\ Untouched

CopyEnds(r) == At(r, "copying") /\ req[r].todo = <<>> /\ Ends(r) /\ Untouched

-----------------------------------------------------------------------------
(* List reads one directory. Search reads one after the other: one that is    *)
(* gone is skipped, one that has become a file fails it.                      *)
Shown(d) == {p \in Children(d) : Last(p) \in Name \ Hidden}

List(r) == /\ Is(r, "list")
           /\ IF IsDir(req[r].from)
              THEN Moves(r, [req[r] EXCEPT !.at = "answered", !.got = SetToSeq(Shown(req[r].from))])
              ELSE Ends(r)
           /\ Untouched

Enter_Skipped(d) == {}
Enter(d) == {p \in Shown(d) : IsDir(p)}
SearchDir(r) ==
  /\ Is(r, "search") /\ req[r].todo # <<>>
  /\ LET d == Head(req[r].todo) IN
       IF IsFile(d) THEN Ends(r)
       ELSE Moves(r, [req[r] EXCEPT !.got = @ \o SetToSeq(Shown(d)),
                                    !.todo = SetToSeq(Enter(d)) \o Tail(@)])
  /\ Untouched

SearchEnds(r) == /\ Is(r, "search") /\ req[r].todo = <<>>
                 /\ GoesTo(r, "answered") /\ Untouched

-----------------------------------------------------------------------------
(* The agent is killed, and starts again with no request.                     *)
Crash == /\ \E r \in Request : req[r].at \notin {"new", "ended", "answered"}
         /\ req' = [r \in Request |-> IF At(r, "new") THEN Idle ELSE Ended]
         /\ unusual' = unusual \cup {"crash"}
         /\ UNCHANGED <<tree, data, inPlace>>

WriteStep(r)  == \/ WriteCheck(r) \/ CreateTemp(r) \/ FillTemp(r) \/ FillFails(r) \/ FillEnds(r)
                 \/ Replace(r) \/ Clean(r)
ReadStep(r)   == ReadStat(r) \/ ReadOpen(r) \/ ReadChunk(r) \/ ReadEnd(r) \/ List(r) \/ SearchDir(r) \/ SearchEnds(r)
ChangeStep(r) == Mkdir(r) \/ RenameCheck(r) \/ Rename(r) \/ DeleteCheck(r) \/ RemoveName(r)
                 \/ RemoveEntry(r) \/ RemoveTop(r)
CopyStep(r)   == \/ CopyStat(r) \/ CopyDir(r) \/ CopyList(r) \/ CopyOpen(r) \/ CopyCreate(r)
                 \/ CopyChunk(r) \/ CopyNext(r) \/ CopyEnds(r)
RequestStep(r) == WriteStep(r) \/ ReadStep(r) \/ ChangeStep(r) \/ CopyStep(r)

Next == Crash \/ \E r \in Request : Begin(r) \/ RequestStep(r)
Spec == Init /\ [][Next]_vars
FairSpec == Spec /\ \A r \in Request : WF_vars(RequestStep(r))

-----------------------------------------------------------------------------
TypeOK == /\ \A p \in Path : tree[p] \in 0 .. MaxInode /\ (p # <<>> => IsDir(DirOf(p)))
          /\ \A i \in 1 .. MaxInode : Len(data[i]) <= Chunks
          /\ inPlace \subseteq 1 .. MaxInode
          /\ unusual \subseteq {"crash", "dirMoved", "dirCopied"}

Whole(chunks) == chunks \in {Original} \cup {Upload(r) : r \in Request}

(* "writeAtomic": under a name that is not a temporary one there is a whole   *)
(* upload or none of it, at every moment and after every crash, unless a copy *)
(* has opened the file: copies write in place.                                *)
VisibleIsWhole == \A p \in Path :
  (IsFile(p) /\ Last(p) \in Name /\ tree[p] \notin inPlace) => Whole(data[tree[p]])

(* A download is one version of the file from its first chunk to its last,    *)
(* while uploads, renames and deletions replace it.                           *)
ReadsOneVersion == \A r \in Request :
  (At(r, "answered") /\ req[r].kind = "read" /\ req[r].in \notin inPlace) => Whole(req[r].got)

(* A temporary file is that of an upload in progress, but for crashes, and    *)
(* for directories moved or copied with the temporary file in them.           *)
TempsAreOwned == \A p \in Path : (p # <<>> /\ Last(p) \in Request) =>
  req[Last(p)].at \in {"fill", "replace", "clean"} \/ unusual # {}

(* What a search or a listing misses was not there, or not all the time.      *)
SearchFindsWhatStays == \A r \in Request :
  (At(r, "answered") /\ req[r].kind \in {"search", "list"}) =>
    \A p \in req[r].stays : (/\ p # <<>> /\ \A n \in DOMAIN p : p[n] \in Name \ Hidden
                             /\ req[r].kind = "search" \/ DirOf(p) = req[r].from)
                              => p \in {req[r].got[n] : n \in DOMAIN req[r].got}

(* No request touches a path that it was not given: what changes is under the *)
(* paths of a request in progress (a deletion is of the directory it opened), *)
(* above its target, or its temporary file.                                   *)
Owns(r, p) == \/ req[r].kind \in {"delete", "deleteAll", "rename"} /\ Under(p, req[r].from)
              \/ req[r].kind \in {"write", "mkdir", "rename", "copy"} /\ (Under(p, req[r].to) \/ Under(req[r].to, p))
              \/ req[r].kind = "write" /\ p = Temp(r)
Confined == [][\A p \in Path \cup DOMAIN tree' :
  (p \in Path /\ p \in DOMAIN tree' /\ tree[p] = tree'[p]) \/ \E r \in Request : Owns(r, p)]_vars

(* Every request is answered, a deletion in a directory that others write to  *)
(* and a copy of a directory into itself included.                            *)
RequestsEnd == \A r \in Request : At(r, "begun") ~> req[r].at \in {"ended", "answered"}
=============================================================================
