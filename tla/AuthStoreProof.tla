--------------------------- MODULE AuthStoreProof ---------------------------
(***************************************************************************)
(* What holds of the auth store for any number of devices, tokens,          *)
(* requests, enroll commands and crashes. Under every race: the types, and  *)
(* that no image of the store - memory, file, a Reload's copy, an enroll     *)
(* command's copy - has two live tokens of a device or a device revoked by  *)
(* halves; if the file is there at the first start, that tokens survive     *)
(* restarts. If pairing overlaps nothing: that what was answered is in the  *)
(* file, a token is spent once, a revocation is final, and the file is a    *)
(* session ledger.                                                           *)
(***************************************************************************)
EXTENDS AuthStore, TLAPS

\* One image by itself.
Sound(img) ==
  \A x, y \in img.refresh :
    /\ Live(x) /\ Live(y) /\ x.dev = y.dev => x = y
    /\ x.dev = y.dev => x.revoked = y.revoked

\* The devices an image has records of.
Owns(img, d) == \E x \in img.refresh : x.dev = d

\* An enrollment between AddDevice and AddRefresh: its device is new, and
\* nobody knows a token of it.
Pairing(r) == req[r].pc \in {"enroll_mark", "enroll_add"}

\* The strengthening: why AddRefresh adds the first record of its device,
\* whichever image a Reload has put in the memory meanwhile.
NewDevices ==
  /\ \A img \in Images : \A d \in Device : Owns(img, d) => d \in minted
  /\ \A r \in Request : Pairing(r) =>
       /\ req[r].dev \in Device \cap minted
       /\ \A img \in Images : ~Owns(img, req[r].dev)
       /\ \A q \in Request : Pairing(q) /\ req[q].dev = req[r].dev => q = r

IInv == TypeOK /\ (\A img \in Images : Sound(img)) /\ NewDevices

------------------------------------------------------------------------------
(* The methods of Store, on one image.                                      *)

\* Rotating a live token keeps an image sound, and its owners
\* (store.go:216-239).
LEMMA RotateKeepsSound ==
  ASSUME NEW img \in Image, NEW old \in img.refresh, NEW h \in Token,
         Live(old), Sound(img)
  PROVE  /\ RotateRefreshAtomic(img, old, h) \in Image
         /\ Sound(RotateRefreshAtomic(img, old, h))
         /\ \A d : Owns(RotateRefreshAtomic(img, old, h), d) => Owns(img, d)
<1> DEFINE used == [old EXCEPT !.used = TRUE]
           next == NewRecord(h, old.dev)
           new  == (img.refresh \ {old}) \cup {used, next}
<1>1. /\ old \in Refresh /\ used \in Refresh /\ next \in Refresh
      /\ used.dev = old.dev /\ next.dev = old.dev /\ used.used = TRUE
      /\ used.revoked = old.revoked /\ old.revoked = FALSE
      /\ next.revoked = FALSE
  BY DEF Image, Refresh, NewRecord, Live
<1>2. /\ RotateRefreshAtomic(img, old, h) \in Image
      /\ RotateRefreshAtomic(img, old, h).refresh = new
  BY <1>1 DEF RotateRefreshAtomic, Image
<1> HIDE DEF used, next
<1>3. ASSUME NEW x \in new, x.dev = old.dev
      PROVE  x.revoked = FALSE /\ (Live(x) => x = next)
  <2>1. CASE x \in img.refresh /\ x # old
    <3>1. x.revoked = FALSE
      BY <1>1, <1>3, <2>1 DEF Sound
    <3>2. ~Live(x)
      BY <1>3, <2>1 DEF Sound
    <3> QED BY <3>1, <3>2
  <2>2. CASE x = used
    BY <1>1, <2>2 DEF Live
  <2>3. CASE x = next
    BY <1>1, <2>3
  <2> QED BY <2>1, <2>2, <2>3
<1>4. ASSUME NEW x \in new, x.dev # old.dev
      PROVE  x \in img.refresh
  BY <1>1, <1>4
<1>5. ASSUME NEW x \in new PROVE \E y \in img.refresh : y.dev = x.dev
  BY <1>1
<1> HIDE DEF new
<1>6. ASSUME NEW x \in new, NEW y \in new, x.dev = y.dev
      PROVE  x.revoked = y.revoked /\ (Live(x) /\ Live(y) => x = y)
  <2>1. CASE x.dev = old.dev
    BY <1>3, <1>6, <2>1
  <2>2. CASE x.dev # old.dev
    <3>1. x \in img.refresh /\ y \in img.refresh
      BY <1>4, <1>6, <2>2
    <3> QED BY <1>6, <3>1 DEF Sound
  <2> QED BY <2>1, <2>2
<1> QED BY <1>2, <1>5, <1>6 DEF Sound, Owns

\* Revoking a device keeps an image sound, and its owners (store.go:321-337).
LEMMA RevokeKeepsSound ==
  ASSUME NEW img \in Image, NEW d, Sound(img)
  PROVE  /\ RevokeDevice(img, d) \in Image
         /\ Sound(RevokeDevice(img, d))
         /\ \A o : Owns(RevokeDevice(img, d), o) => Owns(img, o)
<1> DEFINE new == {RevokedRecord(x, d) : x \in img.refresh}
<1>1. \A x \in img.refresh :
        /\ RevokedRecord(x, d) \in Refresh
        /\ RevokedRecord(x, d).dev = x.dev
        /\ x.dev = d => /\ RevokedRecord(x, d).revoked
                        /\ ~Live(RevokedRecord(x, d))
                        /\ RevokedRecord(x, d).revoked = TRUE
        /\ x.dev # d => RevokedRecord(x, d) = x
  BY DEF Image, Refresh, RevokedRecord, Live
<1>2. /\ RevokeDevice(img, d) \in Image
      /\ RevokeDevice(img, d).refresh = new
  <2>1. new \subseteq Refresh
    BY <1>1
  <2>2. img.devices \ {d} \subseteq Device
    BY DEF Image
  <2> QED BY <2>1, <2>2 DEF RevokeDevice, Image
<1> HIDE DEF new
<1>a. ASSUME NEW x \in new
      PROVE  \/ x.dev = d /\ x.revoked = TRUE /\ ~Live(x)
             \/ x.dev # d /\ x \in img.refresh
  BY <1>1 DEF new
<1>3. \A x, y \in new : x.dev = y.dev => x.revoked = y.revoked
  BY <1>a DEF Sound
<1>4. \A x, y \in new : Live(x) /\ Live(y) /\ x.dev = y.dev => x = y
  BY <1>a DEF Sound
<1>5. \A o : (\E x \in new : x.dev = o) => \E x \in img.refresh : x.dev = o
  BY <1>1 DEF new
<1> QED BY <1>2, <1>3, <1>4, <1>5 DEF Sound, Owns

\* The first record of a device keeps an image sound (store.go:269-274).
LEMMA AddRefreshKeepsSound ==
  ASSUME NEW img \in Image, NEW h \in Token, NEW d \in Device,
         ~Owns(img, d), Sound(img)
  PROVE  /\ AddRefresh(img, h, d) \in Image
         /\ Sound(AddRefresh(img, h, d))
         /\ \A o : Owns(AddRefresh(img, h, d), o) => Owns(img, o) \/ o = d
<1> DEFINE next == NewRecord(h, d)
<1>1. next \in Refresh /\ next.dev = d
  BY DEF NewRecord, Refresh
<1>2. /\ AddRefresh(img, h, d) \in Image
      /\ AddRefresh(img, h, d).refresh = img.refresh \cup {next}
  BY <1>1 DEF AddRefresh, Image
<1> QED BY <1>1, <1>2 DEF Sound, Owns

------------------------------------------------------------------------------
(* Types.                                                                   *)

LEMMA TypeInit == Init => TypeOK
<1> SUFFICES ASSUME Init PROVE TypeOK
  OBVIOUS
<1>1. IdleHandler \in Handler /\ IdleCommand \in Command
  BY DEF IdleHandler, IdleCommand, Handler, Command, PC
<1>2. /\ mem = None /\ signer = None /\ expired = {} /\ crashes = 0
      /\ cli = [c \in Cli |-> IdleCommand]
  BY DEF Init
<1>3. crashes \in 0..MaxCrashes
  BY <1>2, Switches
<1>4. CASE /\ disk = None /\ minted = {}
           /\ req = [r \in Request |-> IdleHandler]
  BY <1>1, <1>2, <1>3, <1>4 DEF TypeOK
<1>5. CASE ~FirstBoot
  <2> DEFINE paired(d, t, e, s) ==
               [IdleHandler EXCEPT !.pc = "done", !.kind = "enroll", !.tok = e,
                  !.dev = d, !.new = t, !.sig = s, !.out = "ok"]
  <2>1. PICK d \in Unused(Device, {}), t \in Unused(Token, {}),
             e \in Unused(EToken, {}), s \in Unused(Secret, {}), q \in Request :
          /\ disk = [refresh |-> {NewRecord(t, d)},
                     enroll  |-> {[hash |-> e, used |-> TRUE]},
                     devices |-> {d}, secret |-> s]
          /\ req = [r \in Request |->
                      IF r = q THEN paired(d, t, e, s) ELSE IdleHandler]
          /\ minted = {d, t, e, s}
    BY <1>5 DEF Init
  <2>2. d \in Device /\ t \in Token /\ e \in EToken /\ s \in Secret
    BY DEF Unused
  <2>3. disk \in Image
    BY <2>1, <2>2 DEF Image, Refresh, Enroll, NewRecord
  <2>4. paired(d, t, e, s) \in Handler
    BY <2>2 DEF Handler, IdleHandler, PC
  <2> HIDE DEF paired
  <2>5. req \in [Request -> Handler]
    BY <1>1, <2>1, <2>4
  <2>6. minted \subseteq Device \cup Token \cup EToken \cup Secret
    BY <2>1, <2>2
  <2> QED BY <1>1, <1>2, <1>3, <2>3, <2>5, <2>6 DEF TypeOK
<1> QED BY <1>4, <1>5 DEF Init

\* A value Fresh offers is new and of its kind.
LEMMA FreshIsNew ==
  \A S, x : x \in Fresh(S) => x \in S /\ x \notin minted
BY DEF Fresh, Unused

LEMMA NewStoreTyped ==
  TypeOK => \A img \in NewStore : img \in Image
BY FreshIsNew DEF TypeOK, NewStore, EmptyImage, Image

\* What the mark of an enrollment and the registry do to an image's type.
LEMMA ImageMethodsTyped ==
  ASSUME NEW img \in Image
  PROVE  /\ \A e \in EToken : AddEnrollment(img, e) \in Image
         /\ \A e : MarkEnrollmentUsed(img, e) \in Image
         /\ \A d \in Device : AddDevice(img, d) \in Image
         /\ \A h \in Token, d \in Device : AddRefresh(img, h, d) \in Image
         /\ \A h \in Token, old \in img.refresh :
              RotateRefreshAtomic(img, old, h) \in Image
         /\ \A d : RevokeDevice(img, d) \in Image
<1>1. ASSUME NEW e \in EToken PROVE AddEnrollment(img, e) \in Image
  <2>1. [hash |-> e, used |-> FALSE] \in Enroll
    BY DEF Enroll
  <2> QED BY <2>1 DEF AddEnrollment, Image
<1>2. ASSUME NEW e PROVE MarkEnrollmentUsed(img, e) \in Image
  <2>1. {IF x.hash = e THEN [x EXCEPT !.used = TRUE] ELSE x : x \in img.enroll}
          \subseteq Enroll
    BY DEF Image, Enroll
  <2> QED BY <2>1 DEF MarkEnrollmentUsed, Image
<1>3. ASSUME NEW d \in Device PROVE AddDevice(img, d) \in Image
  BY DEF AddDevice, Image
<1>4. ASSUME NEW h \in Token, NEW d \in Device PROVE AddRefresh(img, h, d) \in Image
  <2>1. NewRecord(h, d) \in Refresh
    BY DEF NewRecord, Refresh
  <2> QED BY <2>1 DEF AddRefresh, Image
<1>5. ASSUME NEW h \in Token, NEW old \in img.refresh
      PROVE  RotateRefreshAtomic(img, old, h) \in Image
  <2>1. /\ [old EXCEPT !.used = TRUE] \in Refresh
        /\ NewRecord(h, old.dev) \in Refresh
    BY DEF NewRecord, Image, Refresh
  <2> QED BY <2>1 DEF RotateRefreshAtomic, Image
<1>6. ASSUME NEW d PROVE RevokeDevice(img, d) \in Image
  <2>1. {RevokedRecord(x, d) : x \in img.refresh} \subseteq Refresh
    BY DEF RevokedRecord, Image, Refresh
  <2> QED BY <2>1 DEF RevokeDevice, Image
<1> QED BY <1>1, <1>2, <1>3, <1>4, <1>5, <1>6

\* The forms a handler's local state takes next are typed.
LEMMA HandlerMovesTyped ==
  ASSUME TypeOK, NEW r \in Request
  PROVE  /\ \A h \in Handler : [req EXCEPT ![r] = h] \in [Request -> Handler]
         /\ \A pc \in PC : Goto(r, pc) => req' \in [Request -> Handler]
         /\ \A out \in {"ok", "denied", "error"} :
              Reply(r, out) => req' \in [Request -> Handler]
         /\ \A pc \in PC, i \in Image \cup {None} :
              [req[r] EXCEPT !.pc = pc, !.snap = i] \in Handler
         /\ \A pc \in PC, d \in Device :
              [req[r] EXCEPT !.pc = pc, !.dev = d] \in Handler
         /\ [req[r] EXCEPT !.pc = "reuse_lookup", !.kind = "reuse"] \in Handler
         /\ \A t \in Token :
              [req[r] EXCEPT !.pc = "persist", !.new = t, !.sig = signer] \in Handler
         /\ \A t \in Token, d \in Device :
              [req[r] EXCEPT !.pc = "persist", !.dev = d, !.new = t,
                             !.sig = signer] \in Handler
<1>1. /\ req \in [Request -> Handler] /\ req[r] \in Handler
      /\ signer \in Secret \cup {None}
  BY DEF TypeOK
<1>a. "done" \in PC /\ "reuse_lookup" \in PC /\ "persist" \in PC
  BY DEF PC
<1>2. \A h \in Handler : [req EXCEPT ![r] = h] \in [Request -> Handler]
  BY <1>1
<1>3. \A pc \in PC : [req[r] EXCEPT !.pc = pc] \in Handler
  BY <1>1 DEF Handler
<1>4. \A out \in {"ok", "denied", "error"} :
        [req[r] EXCEPT !.pc = "done", !.snap = None, !.out = out] \in Handler
  BY <1>1, <1>a DEF Handler
<1>5. \A pc \in PC, i \in Image \cup {None} :
        [req[r] EXCEPT !.pc = pc, !.snap = i] \in Handler
  BY <1>1 DEF Handler
<1>6. \A pc \in PC, d \in Device : [req[r] EXCEPT !.pc = pc, !.dev = d] \in Handler
  BY <1>1 DEF Handler
<1>7. [req[r] EXCEPT !.pc = "reuse_lookup", !.kind = "reuse"] \in Handler
  BY <1>1, <1>a DEF Handler
<1>8. \A t \in Token :
        [req[r] EXCEPT !.pc = "persist", !.new = t, !.sig = signer] \in Handler
  BY <1>1, <1>a DEF Handler
<1>9. \A t \in Token, d \in Device :
        [req[r] EXCEPT !.pc = "persist", !.dev = d, !.new = t, !.sig = signer] \in Handler
  BY <1>1, <1>a DEF Handler
<1> QED BY <1>2, <1>3, <1>4, <1>5, <1>6, <1>7, <1>8, <1>9 DEF Goto, Reply

\* Each step keeps the types; AddRefresh does because its device is one.
LEMMA TypeStep == IInv /\ [Next]_vars => TypeOK'
<1> SUFFICES ASSUME IInv, [Next]_vars PROVE TypeOK'
  OBVIOUS
<1> USE NoneIsNoValue
<1>0. TypeOK
  BY DEF IInv
<1>1. CASE Boot
  <2>1. PICK img \in NewStore : /\ mem' = img /\ signer' = img.secret
                                /\ minted' = minted \cup {img.secret}
    BY <1>1 DEF Boot
  <2>2. img \in Image /\ img.secret \in Secret
    BY <1>0, NewStoreTyped DEF Image
  <2> QED BY <1>0, <1>1, <2>1, <2>2 DEF Boot, TypeOK
<1>2. CASE Crash
  <2>1. ASSUME NEW r \in Request
        PROVE  [req[r] EXCEPT !.pc = "done", !.snap = None, !.out = "lost"] \in Handler
    <3>1. req[r] \in Handler /\ "done" \in PC
      BY <1>0 DEF TypeOK, PC
    <3> QED BY <3>1 DEF Handler
  <2>2. req' \in [Request -> Handler]
    BY <1>0, <1>2, <2>1 DEF Crash, TypeOK
  <2>3. crashes \in 0..MaxCrashes /\ crashes < MaxCrashes /\ crashes' = crashes + 1
    BY <1>0, <1>2 DEF Crash, TypeOK
  <2>4. crashes' \in 0..MaxCrashes
    BY <2>3, Switches
  <2> QED BY <1>0, <1>2, <2>2, <2>4 DEF Crash, TypeOK
<1>3. CASE \E h \in Token \cup EToken : Expire(h)
  BY <1>0, <1>3 DEF Expire, TypeOK
<1>4. ASSUME NEW r \in Request, EnrollStep(r) PROVE TypeOK'
  <2>0. \A h \in Handler : [req EXCEPT ![r] = h] \in [Request -> Handler]
    BY <1>0, HandlerMovesTyped
  <2>1. CASE ArriveEnroll(r)
    <3>1. PICK e \in EToken :
            Arrive(r, [IdleHandler EXCEPT !.pc = "enroll_read", !.kind = "enroll", !.tok = e])
      BY <2>1 DEF ArriveEnroll
    <3>2. [IdleHandler EXCEPT !.pc = "enroll_read", !.kind = "enroll", !.tok = e] \in Handler
      BY DEF IdleHandler, Handler, PC
    <3> QED BY <1>0, <2>0, <3>1, <3>2 DEF Arrive, TypeOK
  <2>2. CASE EnrollRead(r)
    <3>0. "enroll_assign" \in PC /\ "enroll_lookup" \in PC /\ disk \in Image \cup {None}
      BY <1>0 DEF PC, TypeOK
    <3>a. [req[r] EXCEPT !.pc = "enroll_assign", !.snap = disk] \in Handler
      BY <1>0, <3>0, HandlerMovesTyped
    <3>b. Goto(r, "enroll_lookup") => req' \in [Request -> Handler]
      BY <1>0, <3>0, HandlerMovesTyped
    <3>1. req' \in [Request -> Handler]
      BY <2>0, <2>2, <3>a, <3>b DEF EnrollRead
    <3> QED BY <1>0, <2>2, <3>1 DEF EnrollRead, TypeOK
  <2>3. CASE EnrollAssign(r)
    <3>0. mem' \in Image \cup {None}
      BY <1>0, <2>3 DEF EnrollAssign, TypeOK, Handler
    <3>1. "enroll_lookup" \in PC
      BY DEF PC
    <3>2. req' \in [Request -> Handler]
      BY <1>0, <3>1, HandlerMovesTyped, <2>3 DEF EnrollAssign
    <3> QED BY <1>0, <2>3, <3>0, <3>2 DEF EnrollAssign, TypeOK
  <2>4. CASE EnrollLookup(r)
    <3>1. req' \in [Request -> Handler]
      BY <1>0, HandlerMovesTyped, <2>4 DEF EnrollLookup, TypeOK, PC
    <3> QED BY <1>0, <2>4, <3>1 DEF EnrollLookup, TypeOK
  <2>5. CASE EnrollDevice(r)
    <3>1. PICK d \in Fresh(Device) :
            /\ mem' = AddDevice(mem, d) /\ minted' = minted \cup {d}
            /\ req' = [req EXCEPT ![r] = [@ EXCEPT !.pc = "enroll_mark", !.dev = d]]
      BY <2>5 DEF EnrollDevice
    <3>2. d \in Device /\ mem \in Image
      BY <1>0, <2>5, FreshIsNew DEF EnrollDevice, At, Up, TypeOK
    <3>3. req' \in [Request -> Handler]
      BY <1>0, HandlerMovesTyped, <3>1, <3>2 DEF TypeOK, PC
    <3> QED BY <1>0, <2>5, <3>1, <3>2, <3>3, ImageMethodsTyped DEF EnrollDevice, TypeOK
  <2>6. CASE EnrollMark(r)
    <3>1. req' \in [Request -> Handler]
      BY <1>0, HandlerMovesTyped, <2>6 DEF EnrollMark, TypeOK, PC
    <3>2. mem' \in Image
      BY <1>0, <2>6, ImageMethodsTyped DEF EnrollMark, At, Up, TypeOK
    <3> QED BY <1>0, <2>6, <3>1, <3>2 DEF EnrollMark, TypeOK
  <2>7. CASE EnrollAdd(r)
    <3>1. PICK t \in Fresh(Token) :
            /\ mem' = AddRefresh(mem, t, req[r].dev) /\ minted' = minted \cup {t}
            /\ req' = [req EXCEPT ![r] = [@ EXCEPT !.pc = "persist", !.new = t, !.sig = signer]]
      BY <2>7 DEF EnrollAdd
    <3>2. t \in Token /\ mem \in Image /\ req[r].dev \in Device
      BY <1>0, <2>7, FreshIsNew DEF EnrollAdd, At, Up, TypeOK, IInv, NewDevices, Pairing
    <3>3. req' \in [Request -> Handler]
      BY <1>0, HandlerMovesTyped, <3>1, <3>2 DEF TypeOK, PC
    <3> QED BY <1>0, <2>7, <3>1, <3>2, <3>3, ImageMethodsTyped DEF EnrollAdd, TypeOK
  <2> QED BY <1>4, <2>1, <2>2, <2>3, <2>4, <2>5, <2>6, <2>7 DEF EnrollStep
<1>5. ASSUME NEW r \in Request, RefreshStep(r) PROVE TypeOK'
  <2>0. \A h \in Handler : [req EXCEPT ![r] = h] \in [Request -> Handler]
    BY <1>0, HandlerMovesTyped
  <2>1. CASE ArriveRefresh(r)
    <3>1. PICK t \in Token :
            Arrive(r, [IdleHandler EXCEPT !.pc = "rotate", !.kind = "refresh", !.tok = t])
      BY <2>1 DEF ArriveRefresh
    <3>2. [IdleHandler EXCEPT !.pc = "rotate", !.kind = "refresh", !.tok = t] \in Handler
      BY DEF IdleHandler, Handler, PC
    <3> QED BY <1>0, <2>0, <3>1, <3>2 DEF Arrive, TypeOK
  <2>2. CASE Rotate(r)
    <3>1. PICK old \in mem.refresh, t \in Fresh(Token) :
            /\ mem' = RotateRefreshAtomic(mem, old, t) /\ minted' = minted \cup {t}
            /\ req' = [req EXCEPT ![r] = [@ EXCEPT !.pc = "persist", !.dev = old.dev,
                                                   !.new = t, !.sig = signer]]
      BY <2>2 DEF Rotate
    <3>2. t \in Token /\ mem \in Image
      BY <1>0, <2>2, FreshIsNew DEF Rotate, At, Up, TypeOK
    <3>3. old.dev \in Device
      BY <3>2 DEF Image, Refresh
    <3>4. req' \in [Request -> Handler]
      BY <1>0, HandlerMovesTyped, <3>1, <3>2, <3>3 DEF TypeOK, PC
    <3> QED BY <1>0, <2>2, <3>1, <3>2, <3>4, ImageMethodsTyped DEF Rotate, TypeOK
  <2>3. CASE RotateRefused(r)
    <3>1. req' \in [Request -> Handler]
      BY <1>0, HandlerMovesTyped, <2>3 DEF RotateRefused, TypeOK, PC
    <3> QED BY <1>0, <2>3, <3>1 DEF RotateRefused, TypeOK
  <2>4. CASE ReuseLookup(r)
    <3>1. mem \in Image
      BY <1>0, <2>4 DEF ReuseLookup, At, Up, TypeOK
    <3>2. \A x \in mem.refresh : x.dev \in Device
      BY <3>1 DEF Image, Refresh
    <3>3. "reuse_revoke" \in PC /\ "persist" \in PC
      BY DEF PC
    <3>4. Goto(r, "persist") => req' \in [Request -> Handler]
      BY <1>0, <3>3, HandlerMovesTyped
    <3>5. ASSUME NEW x \in mem.refresh,
                 req' = [req EXCEPT ![r] = [@ EXCEPT !.pc = "reuse_revoke", !.dev = x.dev]]
          PROVE  req' \in [Request -> Handler]
      BY <1>0, <3>2, <3>3, <3>5, HandlerMovesTyped
    <3>6. req' \in [Request -> Handler]
      BY <2>4, <3>4, <3>5 DEF ReuseLookup
    <3> QED BY <1>0, <2>4, <3>6 DEF ReuseLookup, TypeOK
  <2>5. CASE ReuseRevoke(r)
    <3>1. req' \in [Request -> Handler]
      BY <1>0, HandlerMovesTyped, <2>5 DEF ReuseRevoke, TypeOK, PC
    <3>2. mem' \in Image
      BY <1>0, <2>5, ImageMethodsTyped DEF ReuseRevoke, At, Up, TypeOK
    <3> QED BY <1>0, <2>5, <3>1, <3>2 DEF ReuseRevoke, TypeOK
  <2> QED BY <1>5, <2>1, <2>2, <2>3, <2>4, <2>5 DEF RefreshStep
<1>6. ASSUME NEW r \in Request, RevokeStep(r) PROVE TypeOK'
  <2>0. \A h \in Handler : [req EXCEPT ![r] = h] \in [Request -> Handler]
    BY <1>0, HandlerMovesTyped
  <2>1. CASE ArriveRevoke(r)
    <3>1. PICK a \in Request :
            Arrive(r, [IdleHandler EXCEPT !.pc = "authorize", !.kind = "revoke",
                                          !.dev = req[a].dev, !.sig = req[a].sig])
      BY <2>1 DEF ArriveRevoke
    <3>2. [IdleHandler EXCEPT !.pc = "authorize", !.kind = "revoke",
             !.dev = req[a].dev, !.sig = req[a].sig] \in Handler
      BY <1>0 DEF IdleHandler, Handler, PC, TypeOK
    <3> QED BY <1>0, <2>0, <3>1, <3>2 DEF Arrive, TypeOK
  <2>2. CASE Authorize(r)
    <3>1. req' \in [Request -> Handler]
      BY <1>0, HandlerMovesTyped, <2>2 DEF Authorize, TypeOK, PC
    <3> QED BY <1>0, <2>2, <3>1 DEF Authorize, TypeOK
  <2>3. CASE Revoke(r)
    <3>1. req' \in [Request -> Handler]
      BY <1>0, HandlerMovesTyped, <2>3 DEF Revoke, TypeOK, PC
    <3>2. mem' \in Image
      BY <1>0, <2>3, ImageMethodsTyped DEF Revoke, At, Up, TypeOK
    <3> QED BY <1>0, <2>3, <3>1, <3>2 DEF Revoke, TypeOK
  <2> QED BY <1>6, <2>1, <2>2, <2>3 DEF RevokeStep
<1>7. ASSUME NEW r \in Request, Persist(r) PROVE TypeOK'
  <2>1. req' \in [Request -> Handler]
    BY <1>0, HandlerMovesTyped, <1>7 DEF Persist
  <2> QED BY <1>0, <1>7, <2>1 DEF Persist, TypeOK
<1>8. ASSUME NEW r \in Request, PersistFails(r) PROVE TypeOK'
  <2>1. req' \in [Request -> Handler]
    BY <1>0, HandlerMovesTyped, <1>8 DEF PersistFails
  <2> QED BY <1>0, <1>8, <2>1 DEF PersistFails, TypeOK
<1>9. ASSUME NEW c \in Cli, CliStep(c) PROVE TypeOK'
  <2>1. CASE CliLoad(c)
    <3>1. PICK img \in NewStore, e \in Fresh(EToken) :
            /\ cli' = [cli EXCEPT ![c] = [pc |-> "loaded", tok |-> e,
                                          img |-> AddEnrollment(img, e)]]
            /\ minted' = minted \cup {img.secret, e}
      BY <2>1 DEF CliLoad
    <3>2. img \in Image /\ e \in EToken
      BY <1>0, NewStoreTyped, FreshIsNew
    <3>3. img.secret \in Secret /\ AddEnrollment(img, e) \in Image
      BY <3>2, ImageMethodsTyped DEF Image
    <3>4. cli' \in [Cli -> Command]
      BY <1>0, <3>1, <3>2, <3>3 DEF TypeOK, Command
    <3> QED BY <1>0, <2>1, <3>1, <3>2, <3>3, <3>4 DEF CliLoad, TypeOK
  <2>2. CASE CliPersist(c) \/ CliPersistFails(c)
    <3>0. cli[c] \in Command
      BY <1>0 DEF TypeOK
    <3>1. \A pc \in {"done", "failed"} : [cli[c] EXCEPT !.pc = pc, !.img = None] \in Command
      BY <3>0 DEF Command
    <3>2. cli[c].img \in Image \cup {None}
      BY <3>0 DEF Command
    <3>3. cli' \in [Cli -> Command] /\ disk' \in Image \cup {None}
      BY <1>0, <2>2, <3>1, <3>2 DEF CliPersist, CliPersistFails, TypeOK
    <3> QED BY <1>0, <2>2, <3>3 DEF CliPersist, CliPersistFails, TypeOK
  <2> QED BY <1>9, <2>1, <2>2 DEF CliStep
<1>10. CASE Listening \/ UNCHANGED vars
  BY <1>0, <1>10 DEF Listening, vars, TypeOK
<1> QED
  BY <1>1, <1>2, <1>3, <1>4, <1>5, <1>6, <1>7, <1>8, <1>9, <1>10
  DEF Next, HandlerStep

------------------------------------------------------------------------------
(* Soundness of every image.                                                *)

\* What most steps of a handler leave alone: the copies of the file other than
\* by taking or dropping one, and the pairings other than by ending one.
KeepsPairings ==
  /\ \A q \in Request : req'[q].snap \in {req[q].snap, disk, None}
  /\ \A q \in Request : Pairing(q)' => Pairing(q) /\ req'[q].dev = req[q].dev

\* A step that invents no owner and starts no pairing keeps the invariant.
LEMMA NoNewOwner ==
  ASSUME IInv, TypeOK', minted \subseteq minted',
         \A img \in Images' :
           /\ Sound(img)
           /\ \A d \in Device : Owns(img, d) => \E old \in Images : Owns(old, d),
         \A r \in Request :
           Pairing(r)' => Pairing(r) /\ req'[r].dev = req[r].dev
  PROVE  IInv'
<1>1. \A img \in Images' : \A d \in Device : Owns(img, d) => d \in minted'
  BY DEF IInv, NewDevices
<1>2. ASSUME NEW r \in Request, Pairing(r)'
      PROVE  /\ req'[r].dev \in Device \cap minted'
             /\ \A img \in Images' : ~Owns(img, req'[r].dev)
             /\ \A q \in Request : Pairing(q)' /\ req'[q].dev = req'[r].dev => q = r
  BY <1>2 DEF IInv, NewDevices
<1> QED BY <1>1, <1>2 DEF IInv, NewDevices, Sound, Owns

\* The images after a step of a handler: those before it, and its memory.
LEMMA ServerImages ==
  ASSUME TypeOK, cli' = cli, disk' \in {disk, mem},
         \A q \in Request : req'[q].snap \in {req[q].snap, disk, None}
  PROVE  Images' \subseteq Images \cup ({mem'} \ {None})
BY DEF Images

\* A step of the server that leaves a sound memory with known owners.
LEMMA ServerStep ==
  ASSUME IInv, TypeOK', cli' = cli, disk' \in {disk, mem}, minted \subseteq minted',
         KeepsPairings,
         mem' # None =>
           /\ Sound(mem')
           /\ \A d \in Device : Owns(mem', d) => \E old \in Images : Owns(old, d)
  PROVE  IInv'
<1>1. Images' \subseteq Images \cup ({mem'} \ {None})
  BY ServerImages DEF IInv, KeepsPairings
<1>2. \A img \in Images : Sound(img)
  BY DEF IInv
<1>3. \A img \in Images' :
        /\ Sound(img)
        /\ \A d \in Device : Owns(img, d) => \E old \in Images : Owns(old, d)
  BY <1>1, <1>2
<1> QED BY <1>3, NoNewOwner DEF KeepsPairings

\* Every image is a typed one.
LEMMA ImagesTyped == TypeOK => Images \subseteq Image
BY DEF TypeOK, Images, Handler, Command

\* A handler that moves on to a place where it is not pairing, or still is.
LEMMA MoveKeeps ==
  ASSUME TypeOK, NEW r \in Request, NEW h,
         req' = [req EXCEPT ![r] = h],
         h.snap \in {req[r].snap, disk, None},
         h.pc \notin {"enroll_mark", "enroll_add"}
           \/ (Pairing(r) /\ h.dev = req[r].dev)
  PROVE  KeepsPairings
<1>1. /\ req'[r] = h
      /\ \A q \in Request : q # r => req'[q] = req[q]
  BY DEF TypeOK
<1> QED BY <1>1 DEF Pairing, KeepsPairings

LEMMA GotoKeeps ==
  ASSUME TypeOK, NEW r \in Request, NEW pc, Goto(r, pc),
         pc \notin {"enroll_mark", "enroll_add"} \/ Pairing(r)
  PROVE  KeepsPairings
<1> DEFINE h == [req[r] EXCEPT !.pc = pc]
<1>1. req[r] \in Handler /\ req' = [req EXCEPT ![r] = h]
  BY DEF TypeOK, Goto
<1>2. h.pc = pc /\ h.snap = req[r].snap /\ h.dev = req[r].dev
  BY <1>1 DEF Handler
<1> QED BY <1>1, <1>2, MoveKeeps

LEMMA ReplyKeeps ==
  ASSUME TypeOK, NEW r \in Request, NEW out, Reply(r, out)
  PROVE  KeepsPairings
<1> DEFINE h == [req[r] EXCEPT !.pc = "done", !.snap = None, !.out = out]
<1>1. req[r] \in Handler /\ req' = [req EXCEPT ![r] = h]
  BY DEF TypeOK, Reply
<1>2. h.pc = "done" /\ h.snap = None
  BY <1>1 DEF Handler
<1> QED BY <1>1, <1>2, MoveKeeps

LEMMA InvInit == Init => IInv
<1> SUFFICES ASSUME Init PROVE IInv
  OBVIOUS
<1>1. TypeOK
  BY TypeInit
<1>b. IdleHandler.snap = None /\ IdleHandler.pc = "idle" /\ IdleCommand.img = None
  BY DEF IdleHandler, IdleCommand
<1>2. /\ mem = None
      /\ \A r \in Request : req[r].snap = None /\ req[r].pc \in {"idle", "done"}
      /\ \A c \in Cli : cli[c].img = None
  <2>1. mem = None /\ \A c \in Cli : cli[c].img = None
    BY <1>b DEF Init
  <2>2. \A r \in Request : req[r].snap = None /\ req[r].pc \in {"idle", "done"}
    <3>1. CASE req = [r \in Request |-> IdleHandler]
      BY <1>b, <3>1
    <3>2. CASE ~FirstBoot
      <4> DEFINE paired(d, t, e, s) ==
                   [IdleHandler EXCEPT !.pc = "done", !.kind = "enroll", !.tok = e,
                      !.dev = d, !.new = t, !.sig = s, !.out = "ok"]
      <4>1. PICK d \in Unused(Device, {}), t \in Unused(Token, {}),
                 e \in Unused(EToken, {}), s \in Unused(Secret, {}), q \in Request :
              /\ disk = [refresh |-> {NewRecord(t, d)},
                         enroll  |-> {[hash |-> e, used |-> TRUE]},
                         devices |-> {d}, secret |-> s]
              /\ req = [r \in Request |->
                          IF r = q THEN paired(d, t, e, s) ELSE IdleHandler]
              /\ minted = {d, t, e, s}
        BY <3>2 DEF Init
      <4>2. paired(d, t, e, s).snap = None /\ paired(d, t, e, s).pc = "done"
        BY DEF IdleHandler
      <4> HIDE DEF paired
      <4> QED BY <1>b, <4>1, <4>2
    <3> QED BY <3>1, <3>2 DEF Init
  <2> QED BY <2>1, <2>2
<1>3. Images \subseteq {disk} \ {None}
  BY <1>2 DEF Images
<1>4. disk = None \/ \E t \in Token, d \in Device \cap minted :
                       disk.refresh = {NewRecord(t, d)}
  <2>1. CASE FirstBoot
    BY <2>1 DEF Init
  <2>2. CASE ~FirstBoot
    <3>1. PICK d \in Unused(Device, {}), t \in Unused(Token, {}),
               e \in Unused(EToken, {}), s \in Unused(Secret, {}) :
            /\ disk = [refresh |-> {NewRecord(t, d)},
                       enroll  |-> {[hash |-> e, used |-> TRUE]},
                       devices |-> {d}, secret |-> s]
            /\ minted = {d, t, e, s}
      BY <2>2 DEF Init
    <3>2. d \in Device \cap minted /\ t \in Token
      BY <3>1 DEF Unused
    <3> QED BY <3>1, <3>2
  <2> QED BY <2>1, <2>2 DEF Init
<1>5. ASSUME NEW img \in Images
      PROVE  Sound(img) /\ \A d \in Device : Owns(img, d) => d \in minted
  <2>1. PICK t \in Token, d \in Device \cap minted : img.refresh = {NewRecord(t, d)}
    BY <1>3, <1>4
  <2>2. NewRecord(t, d).dev = d
    BY DEF NewRecord
  <2> QED BY <2>1, <2>2 DEF Sound, Owns
<1>6. \A r \in Request : ~Pairing(r)
  BY <1>2 DEF Pairing
<1> QED BY <1>1, <1>5, <1>6 DEF IInv, NewDevices

\* Each step keeps every image sound.
LEMMA InvStep == IInv /\ [Next]_vars => IInv'
<1> SUFFICES ASSUME IInv, [Next]_vars PROVE IInv'
  OBVIOUS
<1> USE NoneIsNoValue
<1>0. TypeOK /\ TypeOK' /\ Images \subseteq Image
  BY TypeStep, ImagesTyped DEF IInv
<1>a. mem # None => mem \in Images /\ Sound(mem) /\ mem \in Image
  BY <1>0 DEF Images, IInv
<1>b. disk # None => disk \in Images /\ Sound(disk) /\ disk \in Image
  BY <1>0 DEF Images, IInv
<1>c. \A r \in Request : req[r].snap # None => req[r].snap \in Images /\ Sound(req[r].snap)
  BY DEF Images, IInv
<1>d. ASSUME NEW img \in NewStore
      PROVE  Sound(img) /\ \A d \in Device : Owns(img, d) => \E old \in Images : Owns(old, d)
  BY <1>b DEF NewStore, EmptyImage, Sound, Owns
<1>1. CASE Boot
  <2>1. PICK img \in NewStore : mem' = img /\ minted' = minted \cup {img.secret}
    BY <1>1 DEF Boot
  <2>2. req' = req /\ cli' = cli /\ disk' = disk
    BY <1>1 DEF Boot
  <2>3. KeepsPairings
    BY <2>2 DEF Pairing, KeepsPairings
  <2> QED BY <1>0, <1>d, <2>1, <2>2, <2>3, ServerStep
<1>2. CASE Crash
  <2>1. mem' = None /\ cli' = cli /\ disk' = disk /\ minted' = minted
    BY <1>2 DEF Crash
  <2>2. \A q \in Request : \/ req'[q] = req[q] /\ ~InFlight(q)
                           \/ req'[q] = [req[q] EXCEPT !.pc = "done", !.snap = None,
                                                       !.out = "lost"]
    BY <1>2 DEF Crash
  <2>3. \A q \in Request : req[q] \in Handler
    BY <1>0 DEF TypeOK
  <2>a. \A h \in Handler :
          LET lost == [h EXCEPT !.pc = "done", !.snap = None, !.out = "lost"]
          IN lost.pc = "done" /\ lost.snap = None
    BY DEF Handler
  <2>4. \A q \in Request : req'[q].snap \in {req[q].snap, disk, None} /\ ~Pairing(q)'
    BY <2>2, <2>3, <2>a DEF Pairing, InFlight
  <2>5. KeepsPairings
    BY <2>4 DEF KeepsPairings
  <2> QED BY <1>0, <2>1, <2>5, ServerStep
<1>3. CASE \E h \in Token \cup EToken : Expire(h)
  <2>1. UNCHANGED <<mem, disk, req, cli, minted>>
    BY <1>3 DEF Expire
  <2> QED BY <1>0, <1>a, <2>1, ServerStep DEF Pairing, KeepsPairings
<1>4. ASSUME NEW r \in Request, NEW h, Arrive(r, h),
             h.pc \in {"enroll_read", "rotate", "authorize"}, h.snap = None
      PROVE  IInv'
  <2>1. UNCHANGED <<mem, disk, cli, minted>> /\ req' = [req EXCEPT ![r] = h]
    BY <1>4 DEF Arrive
  <2>2. KeepsPairings
    BY <1>0, <1>4, <2>1, MoveKeeps
  <2> QED BY <1>0, <1>a, <2>1, <2>2, ServerStep
<1>5. ASSUME NEW r \in Request, EnrollStep(r) PROVE IInv'
  <2>0. req[r] \in Handler
    BY <1>0 DEF TypeOK
  <2>1. CASE ArriveEnroll(r)
    BY <1>4, <2>1 DEF ArriveEnroll, IdleHandler
  <2>2. CASE EnrollRead(r) \/ EnrollLookup(r)
    <3>1. UNCHANGED <<mem, disk, cli, minted>>
      BY <2>2 DEF EnrollRead, EnrollLookup
    <3> DEFINE h == [req[r] EXCEPT !.pc = "enroll_assign", !.snap = disk]
    <3>2. h.pc = "enroll_assign" /\ h.snap = disk
      BY <2>0 DEF Handler
    <3>3. \/ req' = [req EXCEPT ![r] = h]
          \/ \E pc \in {"enroll_lookup", "enroll_device"} : Goto(r, pc)
          \/ Reply(r, "denied")
      BY <2>2 DEF EnrollRead, EnrollLookup
    <3>4. KeepsPairings
      BY <1>0, <3>2, <3>3, MoveKeeps, GotoKeeps, ReplyKeeps
    <3> QED BY <1>0, <1>a, <3>1, <3>4, ServerStep
  <2>3. CASE EnrollAssign(r)
    <3>1. UNCHANGED <<disk, cli, minted>> /\ mem' = req[r].snap
      BY <2>3 DEF EnrollAssign
    <3> DEFINE h == [req[r] EXCEPT !.pc = "enroll_lookup", !.snap = None]
    <3>2. req' = [req EXCEPT ![r] = h] /\ h.pc = "enroll_lookup" /\ h.snap = None
      BY <2>0, <2>3 DEF EnrollAssign, Handler
    <3>3. KeepsPairings
      BY <1>0, <3>2, MoveKeeps
    <3> QED BY <1>0, <1>c, <3>1, <3>3, ServerStep
  <2>4. CASE EnrollDevice(r)
    <3>1. PICK d \in Fresh(Device) :
            /\ mem' = AddDevice(mem, d) /\ minted' = minted \cup {d}
            /\ req' = [req EXCEPT ![r] = [@ EXCEPT !.pc = "enroll_mark", !.dev = d]]
      BY <2>4 DEF EnrollDevice
    <3>2. d \in Device /\ d \notin minted /\ mem # None /\ disk' = disk /\ cli' = cli
      BY <2>4, FreshIsNew DEF EnrollDevice, At, Up
    <3>3. mem'.refresh = mem.refresh
      BY <1>a, <3>1, <3>2 DEF AddDevice, Image
    <3>4. /\ req'[r].dev = d /\ req'[r].snap = req[r].snap
          /\ \A q \in Request : q # r => req'[q] = req[q]
      BY <1>0, <2>0, <3>1 DEF TypeOK, Handler
    <3>5. Images' \subseteq Images \cup ({mem'} \ {None})
      BY <1>0, <3>2, <3>4, ServerImages
    <3>6. \A img \in Images' : Sound(img) /\ \A o \in Device :
                                  Owns(img, o) => \E old \in Images : Owns(old, o)
      BY <1>a, <3>2, <3>3, <3>5 DEF Sound, Owns, IInv
    <3>7. \A img \in Images' : \A o \in Device : Owns(img, o) => o \in minted
      BY <3>6 DEF IInv, NewDevices
    <3>8. \A q \in Request : q # r /\ Pairing(q)' =>
             Pairing(q) /\ req'[q].dev = req[q].dev /\ req'[q].dev # d
      BY <3>2, <3>4 DEF Pairing, IInv, NewDevices
    <3>9. ASSUME NEW q \in Request, Pairing(q)'
          PROVE  /\ req'[q].dev \in Device \cap minted'
                 /\ \A img \in Images' : ~Owns(img, req'[q].dev)
                 /\ \A p \in Request : Pairing(p)' /\ req'[p].dev = req'[q].dev => p = q
      <4>1. CASE q = r
        BY <3>1, <3>2, <3>4, <3>7, <3>8, <4>1
      <4>2. CASE q # r
        BY <3>1, <3>4, <3>6, <3>8, <3>9, <4>2 DEF IInv, NewDevices
      <4> QED BY <4>1, <4>2
    <3>10. NewDevices'
      BY <3>1, <3>7, <3>9 DEF NewDevices, Owns
    <3>11. (\A img \in Images : Sound(img))'
      BY <3>6 DEF Sound
    <3> QED BY <1>0, <3>10, <3>11 DEF IInv
  <2>5. CASE EnrollMark(r)
    <3>1. UNCHANGED <<disk, cli, minted>> /\ mem' = MarkEnrollmentUsed(mem, req[r].tok)
      BY <2>5 DEF EnrollMark
    <3>2. mem # None /\ mem'.refresh = mem.refresh
      BY <1>a, <2>5, <3>1 DEF EnrollMark, At, Up, MarkEnrollmentUsed, Image
    <3>3. KeepsPairings
      BY <1>0, <2>5, GotoKeeps DEF EnrollMark, At, Pairing
    <3>4. Sound(mem') /\ \A d \in Device : Owns(mem', d) => Owns(mem, d)
      BY <1>a, <3>2 DEF Sound, Owns
    <3> QED BY <1>0, <1>a, <3>1, <3>2, <3>3, <3>4, ServerStep
  <2>6. CASE EnrollAdd(r)
    <3>1. PICK t \in Fresh(Token) :
            /\ mem' = AddRefresh(mem, t, req[r].dev) /\ minted' = minted \cup {t}
            /\ req' = [req EXCEPT ![r] = [@ EXCEPT !.pc = "persist", !.new = t, !.sig = signer]]
      BY <2>6 DEF EnrollAdd
    <3>2. /\ t \in Token /\ mem # None /\ disk' = disk /\ cli' = cli /\ Pairing(r)
      BY <2>6, FreshIsNew DEF EnrollAdd, At, Up, Pairing
    <3>3. /\ req[r].dev \in Device \cap minted
          /\ \A img \in Images : ~Owns(img, req[r].dev)
          /\ \A q \in Request : Pairing(q) /\ req[q].dev = req[r].dev => q = r
      BY <3>2 DEF IInv, NewDevices
    <3>4. Sound(mem') /\ \A o : Owns(mem', o) => Owns(mem, o) \/ o = req[r].dev
      BY <1>a, <3>1, <3>2, <3>3, AddRefreshKeepsSound
    <3>5. /\ req'[r].pc = "persist" /\ req'[r].snap = req[r].snap
          /\ \A q \in Request : q # r => req'[q] = req[q]
      BY <1>0, <2>0, <3>1 DEF TypeOK, Handler
    <3>6. Images' \subseteq Images \cup ({mem'} \ {None})
      BY <1>0, <3>2, <3>5, ServerImages
    <3>7. \A img \in Images' : Sound(img) /\ \A o \in Device :
             Owns(img, o) => (\E old \in Images : Owns(old, o)) \/ o = req[r].dev
      BY <1>a, <3>2, <3>4, <3>6 DEF IInv
    <3>8. \A q \in Request : Pairing(q)' =>
             q # r /\ Pairing(q) /\ req'[q].dev = req[q].dev /\ req[q].dev # req[r].dev
      BY <3>3, <3>5 DEF Pairing
    <3>9. ASSUME NEW q \in Request, Pairing(q)'
          PROVE  /\ req'[q].dev \in Device \cap minted'
                 /\ \A img \in Images' : ~Owns(img, req'[q].dev)
                 /\ \A p \in Request : Pairing(p)' /\ req'[p].dev = req'[q].dev => p = q
      BY <3>1, <3>7, <3>8, <3>9 DEF IInv, NewDevices
    <3>10. \A img \in Images' : \A o \in Device : Owns(img, o) => o \in minted'
      BY <3>1, <3>3, <3>7 DEF IInv, NewDevices
    <3>11. NewDevices'
      BY <3>9, <3>10 DEF NewDevices, Owns
    <3>12. (\A img \in Images : Sound(img))'
      BY <3>7 DEF Sound
    <3> QED BY <1>0, <3>11, <3>12 DEF IInv
  <2> QED BY <1>5, <2>1, <2>2, <2>3, <2>4, <2>5, <2>6 DEF EnrollStep
<1>6. ASSUME NEW r \in Request, RefreshStep(r) PROVE IInv'
  <2>0. req[r] \in Handler
    BY <1>0 DEF TypeOK
  <2>1. CASE ArriveRefresh(r)
    BY <1>4, <2>1 DEF ArriveRefresh, IdleHandler
  <2>2. CASE Rotate(r)
    <3>1. PICK old \in mem.refresh, t \in Fresh(Token) :
            /\ Rotatable(mem, req[r].tok, old)
            /\ mem' = RotateRefreshAtomic(mem, old, t) /\ minted' = minted \cup {t}
            /\ req' = [req EXCEPT ![r] = [@ EXCEPT !.pc = "persist", !.dev = old.dev,
                                                   !.new = t, !.sig = signer]]
      BY <2>2 DEF Rotate
    <3>2. mem # None /\ t \in Token /\ Live(old) /\ disk' = disk /\ cli' = cli
      BY <2>2, <3>1, FreshIsNew DEF Rotate, At, Up, Rotatable
    <3>3. Sound(mem') /\ \A d : Owns(mem', d) => Owns(mem, d)
      BY <1>a, <3>1, <3>2, RotateKeepsSound
    <3> DEFINE h == [req[r] EXCEPT !.pc = "persist", !.dev = old.dev,
                                   !.new = t, !.sig = signer]
    <3>4. h.snap = req[r].snap /\ h.pc = "persist"
      BY <2>0 DEF Handler
    <3>5. KeepsPairings
      BY <1>0, <3>1, <3>4, MoveKeeps
    <3> QED BY <1>0, <1>a, <3>1, <3>2, <3>3, <3>5, ServerStep
  <2>3. CASE RotateRefused(r) \/ ReuseLookup(r)
    <3>1. UNCHANGED <<mem, disk, cli, minted>>
      BY <2>3 DEF RotateRefused, ReuseLookup
    <3> DEFINE h == [req[r] EXCEPT !.pc = "reuse_lookup", !.kind = "reuse"]
               g(d) == [req[r] EXCEPT !.pc = "reuse_revoke", !.dev = d]
    <3>2. h.pc = "reuse_lookup" /\ h.snap = req[r].snap
      BY <2>0 DEF Handler
    <3>3. \A d : g(d).pc = "reuse_revoke" /\ g(d).snap = req[r].snap
      BY <2>0 DEF Handler
    <3>4. \/ req' = [req EXCEPT ![r] = h]
          \/ \E d : req' = [req EXCEPT ![r] = g(d)]
          \/ Goto(r, "persist")
      BY <2>3 DEF RotateRefused, ReuseLookup
    <3> HIDE DEF h, g
    <3>5. KeepsPairings
      BY <1>0, <3>2, <3>3, <3>4, MoveKeeps, GotoKeeps
    <3> QED BY <1>0, <1>a, <3>1, <3>5, ServerStep
  <2>4. CASE ReuseRevoke(r)
    <3>1. mem # None /\ mem' = RevokeDevice(mem, req[r].dev) /\ UNCHANGED <<disk, cli, minted>>
      BY <2>4 DEF ReuseRevoke, At, Up
    <3>2. Sound(mem') /\ \A d : Owns(mem', d) => Owns(mem, d)
      BY <1>a, <3>1, RevokeKeepsSound
    <3>3. KeepsPairings
      BY <1>0, <2>4, GotoKeeps DEF ReuseRevoke
    <3> QED BY <1>0, <1>a, <3>1, <3>2, <3>3, ServerStep
  <2> QED BY <1>6, <2>1, <2>2, <2>3, <2>4 DEF RefreshStep
<1>7. ASSUME NEW r \in Request, RevokeStep(r) PROVE IInv'
  <2>1. CASE ArriveRevoke(r)
    BY <1>4, <2>1 DEF ArriveRevoke, IdleHandler
  <2>2. CASE Authorize(r)
    <3>1. UNCHANGED <<mem, disk, cli, minted>>
      BY <2>2 DEF Authorize
    <3>2. KeepsPairings
      BY <1>0, <2>2, GotoKeeps, ReplyKeeps DEF Authorize
    <3> QED BY <1>0, <1>a, <3>1, <3>2, ServerStep
  <2>3. CASE Revoke(r)
    <3>1. mem # None /\ mem' = RevokeDevice(mem, req[r].dev) /\ UNCHANGED <<disk, cli, minted>>
      BY <2>3 DEF Revoke, At, Up
    <3>2. Sound(mem') /\ \A d : Owns(mem', d) => Owns(mem, d)
      BY <1>a, <3>1, RevokeKeepsSound
    <3>3. KeepsPairings
      BY <1>0, <2>3, GotoKeeps DEF Revoke
    <3> QED BY <1>0, <1>a, <3>1, <3>2, <3>3, ServerStep
  <2> QED BY <1>7, <2>1, <2>2, <2>3 DEF RevokeStep
<1>8. ASSUME NEW r \in Request, Persist(r) \/ PersistFails(r) PROVE IInv'
  <2>1. UNCHANGED <<mem, cli, minted>> /\ disk' \in {disk, mem}
    BY <1>8 DEF Persist, PersistFails
  <2>2. KeepsPairings
    BY <1>0, <1>8, ReplyKeeps DEF Persist, PersistFails
  <2> QED BY <1>0, <1>a, <2>1, <2>2, ServerStep
<1>9. ASSUME NEW c \in Cli, CliStep(c) PROVE IInv'
  <2>0. cli[c] \in Command /\ \A r \in Request : Pairing(r)' <=> Pairing(r)
    BY <1>0, <1>9 DEF TypeOK, CliStep, CliLoad, CliPersist, CliPersistFails, Pairing
  <2>1. CASE CliLoad(c)
    <3>1. PICK img \in NewStore, e \in Fresh(EToken) :
            /\ cli' = [cli EXCEPT ![c] = [pc |-> "loaded", tok |-> e,
                                          img |-> AddEnrollment(img, e)]]
            /\ minted' = minted \cup {img.secret, e}
      BY <2>1 DEF CliLoad
    <3>2. UNCHANGED <<mem, disk, req>>
      BY <2>1 DEF CliLoad
    <3>3. Images' \subseteq Images \cup {AddEnrollment(img, e)}
      BY <1>0, <3>1, <3>2 DEF Images, TypeOK
    <3>4. AddEnrollment(img, e).refresh = img.refresh
      BY <1>0, NewStoreTyped DEF AddEnrollment, Image
    <3>5. /\ Sound(AddEnrollment(img, e))
          /\ \A d \in Device : Owns(AddEnrollment(img, e), d) =>
               \E old \in Images : Owns(old, d)
      BY <1>d, <3>4 DEF Sound, Owns
    <3>6. \A i \in Images : Sound(i)
      BY DEF IInv
    <3> QED BY <1>0, <2>0, <3>1, <3>2, <3>3, <3>5, <3>6, NoNewOwner
  <2>2. CASE CliPersist(c) \/ CliPersistFails(c)
    <3>1. UNCHANGED <<mem, req, minted>> /\ disk' \in {disk, cli[c].img}
      BY <2>2 DEF CliPersist, CliPersistFails
    <3>a. \A pc : [cli[c] EXCEPT !.pc = pc, !.img = None].img = None
      BY <2>0 DEF Command
    <3>2. \A b \in Cli : cli'[b].img \in {cli[b].img, None}
      BY <1>0, <2>2, <3>a DEF CliPersist, CliPersistFails, TypeOK
    <3>3. Images' \subseteq Images
      BY <3>1, <3>2 DEF Images
    <3>4. \A i \in Images : Sound(i)
      BY DEF IInv
    <3> QED BY <1>0, <2>0, <3>1, <3>3, <3>4, NoNewOwner
  <2> QED BY <1>9, <2>1, <2>2 DEF CliStep
<1>10. CASE Listening \/ UNCHANGED vars
  <2>1. UNCHANGED vars
    BY <1>10 DEF Listening
  <2> QED BY <1>0, <1>a, <2>1, ServerStep DEF vars, Pairing, KeepsPairings
<1> QED
  BY <1>1, <1>2, <1>3, <1>5, <1>6, <1>7, <1>8, <1>9, <1>10
  DEF Next, HandlerStep

------------------------------------------------------------------------------
(* The theorems.                                                            *)

LEMMA Invariance == Spec => []IInv
<1>1. Init => IInv
  BY InvInit
<1>2. IInv /\ [Next]_vars => IInv'
  BY InvStep
<1> QED BY <1>1, <1>2, PTL DEF Spec

(***************************************************************************)
(* The store's state keeps its types, whatever handlers, enroll commands    *)
(* and crashes do (store.go:34-63).                                          *)
(***************************************************************************)
THEOREM TypeCorrect == Spec => []TypeOK
<1>1. IInv => TypeOK
  BY DEF IInv
<1> QED BY <1>1, Invariance, PTL

(***************************************************************************)
(* No image of the store ever holds two live refresh tokens of one device:  *)
(* rotation hands the device on (RotateRefreshAtomic, store.go:216-239),    *)
(* and an enrollment's AddRefresh is the first record of its device.         *)
(***************************************************************************)
THEOREM AtMostOneLiveToken == Spec => []OneLivePerDevice
<1>1. IInv => OneLivePerDevice
  BY DEF IInv, Sound, OneLivePerDevice
<1> QED BY <1>1, Invariance, PTL

(***************************************************************************)
(* No image of the store ever holds a device revoked by halves, so the      *)
(* "ALL refresh records" of IsDeviceRevoked (store.go:361-375) is as good   *)
(* as "any".                                                                 *)
(***************************************************************************)
THEOREM RevocationIsWhole == Spec => []RevokedAsAWhole
<1>1. IInv => RevokedAsAWhole
  BY DEF IInv, Sound, RevokedAsAWhole
<1> QED BY <1>1, Invariance, PTL

------------------------------------------------------------------------------
(* What handlers look like, whatever overlaps.                              *)

EnrollPlaces == {"enroll_read", "enroll_assign", "enroll_lookup",
                 "enroll_device", "enroll_mark", "enroll_add"}

\* The kind of request a place in the code belongs to.
Shaped(h) ==
  /\ h.pc \in EnrollPlaces => h.kind = "enroll"
  /\ h.pc = "rotate" => h.kind = "refresh"
  /\ h.pc \in {"reuse_lookup", "reuse_revoke"} => h.kind = "reuse"
  /\ h.pc \in {"authorize", "revoke"} => h.kind = "revoke"
  /\ h.pc # "done" => h.out = "none"
  /\ h.pc = "enroll_assign" => h.snap # None

Shape == /\ \A r \in Request : Shaped(req[r]) /\ (InFlight(r) => Up)
         /\ \A c \in Cli : cli[c].pc = "loaded" => cli[c].img # None

\* The request has its tokens.
Signed(h) == /\ h.kind \in {"enroll", "refresh"}
             /\ h.pc = "persist" \/ h.out = "ok"

\* The first pairing wrote the secret: from then on there is only one.
OneSecret ==
  /\ disk # None
  /\ \A img \in Images : img.secret = disk.secret
  /\ Up => signer = disk.secret
  /\ \A r \in Request : Signed(req[r]) => req[r].sig = disk.secret

------------------------------------------------------------------------------
(* The file, the memory and the requests when pairing is alone.             *)

Filed == IF disk = None THEN {} ELSE disk.refresh
Held  == IF mem = None THEN {} ELSE mem.refresh

\* T knows all that S knows.
Extends(S, T) == \A x \in S : \E y \in T : Ledger!Later(x, y)
Distinct(S) == \A x, y \in S : x.hash = y.hash => x = y

\* What the records say of a request that has done its work.
Recorded(S, h) ==
  /\ h.kind \in {"enroll", "refresh"} => \E x \in S : x.hash = h.new /\ x.dev = h.dev
  /\ h.kind = "refresh" => \E x \in S : x.hash = h.tok /\ x.used
  /\ h.kind = "revoke" => \E x \in S : x.dev = h.dev /\ x.revoked

\* The request has taken its token for another.
Spent(h) == h.kind = "refresh" /\ (h.pc = "persist" \/ h.out = "ok")

\* A pairing is alone: so what a Reload or an enroll command has read of the
\* file is what the file still holds when it is used.
Exclusive ==
  /\ \A c \in Cli : cli[c].pc = "loaded" =>
       /\ \A r \in Request : ~InFlight(r)
       /\ \A b \in Cli : cli[b].pc = "loaded" => b = c
       /\ cli[c].img.refresh = Filed
  /\ \A r \in Request : InFlight(r) /\ req[r].kind = "enroll" =>
       \A q \in Request : InFlight(q) => q = r
  /\ \A r \in Request : req[r].pc = "enroll_assign" => disk # None /\ req[r].snap = disk

\* The memory is ahead of the file, never behind.
Ahead ==
  /\ Up => Extends(Filed, Held)
  /\ Distinct(Filed) /\ Distinct(Held)
  /\ \A x \in Filed \cup Held : x.hash \in minted

\* What was done is in the memory, what was answered is in the file, and no two
\* requests spent one token.
Requests ==
  /\ \A r \in Request : req[r].pc = "persist" => Recorded(Held, req[r])
  /\ \A r \in Request : Answered(r) => Recorded(Filed, req[r])
  /\ \A r \in Request : req[r].kind = "revoke" => \E x \in Filed : x.dev = req[r].dev
  /\ \A q, r \in Request :
       Spent(req[q]) /\ Spent(req[r]) /\ req[q].tok = req[r].tok => q = r

Settled == Exclusive /\ Ahead /\ Requests

LEMMA ExtendsFacts ==
  /\ \A S : Extends(S, S)
  /\ \A S, T, U : Extends(S, T) /\ Extends(T, U) => Extends(S, U)
  /\ \A S, T, h : Extends(S, T) /\ Recorded(S, h) => Recorded(T, h)
  /\ \A S, T, d : Extends(S, T) /\ (\E x \in S : x.dev = d) => \E x \in T : x.dev = d
<1>1. \A S : Extends(S, S)
  BY DEF Extends, Ledger!Later
<1>2. ASSUME NEW S, NEW T, NEW U, Extends(S, T), Extends(T, U) PROVE Extends(S, U)
  <2>1. SUFFICES ASSUME NEW x \in S PROVE \E y \in U : Ledger!Later(x, y)
    BY DEF Extends
  <2>2. PICK y \in T : Ledger!Later(x, y)
    BY <1>2 DEF Extends
  <2>3. PICK z \in U : Ledger!Later(y, z)
    BY <1>2 DEF Extends
  <2> QED BY <2>2, <2>3 DEF Ledger!Later
<1>3. ASSUME NEW S, NEW T, NEW h, Extends(S, T), Recorded(S, h) PROVE Recorded(T, h)
  BY <1>3 DEF Extends, Recorded, Ledger!Later
<1>4. ASSUME NEW S, NEW T, NEW d, Extends(S, T), \E x \in S : x.dev = d
      PROVE  \E x \in T : x.dev = d
  BY <1>4 DEF Extends, Ledger!Later
<1> QED BY <1>1, <1>2, <1>3, <1>4

\* A step of the handler of r that leaves the pairings alone: what it must do.
LEMMA TurnSettles ==
  ASSUME TypeOK, Shape, Settled, NEW r \in Request, NEW h,
         req' = [req EXCEPT ![r] = h], cli' = cli, minted \subseteq minted',
         InFlight(r), Up',
         \/ Held' = Held
         \/ /\ Extends(Held, Held') /\ Distinct(Held')
            /\ \A x \in Held' : x.hash \in minted'
         \/ Held' = Filed /\ req[r].pc = "enroll_assign" /\ h.pc = "enroll_lookup",
         Filed' = Filed \/ (Filed' = Held /\ Held' = Held),
         h.kind = "enroll" => req[r].kind = "enroll",
         h.pc = "enroll_assign" => disk' # None /\ h.snap = disk',
         h.pc = "persist" => Recorded(Held', h),
         h.out = "ok" => Recorded(Filed', h),
         h.kind = "revoke" => req[r].kind = "revoke" /\ h.dev = req[r].dev,
         Spent(h) => \/ Spent(req[r]) /\ h.tok = req[r].tok
                     \/ \A q \in Request : Spent(req[q]) => req[q].tok # h.tok
  PROVE  Settled'
<1>0. /\ req'[r] = h /\ Up
      /\ \A q \in Request : q # r => req'[q] = req[q]
      /\ \A q \in Request : q # r => (InFlight(q)' <=> InFlight(q)) /\ (Answered(q)' <=> Answered(q))
      /\ \A c \in Cli : cli[c].pc # "loaded"
  BY DEF TypeOK, InFlight, Answered, Shape, Settled, Exclusive
<1>1. Exclusive'
  <2>1. ASSUME NEW q \in Request, InFlight(q)', req'[q].kind = "enroll",
               NEW p \in Request, InFlight(p)'
        PROVE  p = q
    <3>1. InFlight(q) /\ req[q].kind = "enroll"
      BY <1>0, <2>1
    <3>2. InFlight(p)
      BY <1>0, <2>1
    <3> QED BY <3>1, <3>2 DEF Settled, Exclusive
  <2>2. ASSUME NEW q \in Request, req'[q].pc = "enroll_assign"
        PROVE  disk' # None /\ req'[q].snap = disk'
    <3>1. CASE q = r
      BY <1>0, <2>2, <3>1
    <3>2. CASE q # r
      <4>1. InFlight(q) /\ req[q].kind = "enroll"
        BY <1>0, <2>2, <3>2 DEF InFlight, Shape, Shaped, EnrollPlaces
      <4>2. q = r
        BY <4>1 DEF Settled, Exclusive
      <4> QED BY <3>2, <4>2
    <3> QED BY <3>1, <3>2
  <2> QED BY <1>0, <2>1, <2>2 DEF Exclusive
<1>2. Extends(Filed, Filed')
  BY <1>0, ExtendsFacts DEF Settled, Ahead
<1>3. Ahead'
  <2>1. Extends(Filed', Held')
    <3>1. CASE Held' = Held
      BY <1>0, <3>1, ExtendsFacts DEF Settled, Ahead
    <3>2. CASE Extends(Held, Held') /\ Filed' = Filed
      BY <1>0, <3>2, ExtendsFacts DEF Settled, Ahead
    <3>3. CASE Held' = Filed /\ Filed' = Filed
      BY <3>3, ExtendsFacts
    <3> QED BY <3>1, <3>2, <3>3
  <2>2. Distinct(Filed') /\ Distinct(Held')
    BY DEF Settled, Ahead
  <2>3. \A x \in Filed' \cup Held' : x.hash \in minted'
    BY DEF Settled, Ahead
  <2> QED BY <2>1, <2>2, <2>3 DEF Ahead, Distinct
<1>4. Requests'
  <2>1. ASSUME NEW q \in Request, req'[q].pc = "persist" PROVE Recorded(Held', req'[q])
    <3>1. CASE q = r
      BY <1>0, <2>1, <3>1
    <3>2. CASE q # r
      <4>1. InFlight(q) /\ Recorded(Held, req[q])
        BY <1>0, <2>1, <3>2 DEF InFlight, Settled, Requests
      <4>2. req[r].pc # "enroll_assign"
        BY <3>2, <4>1 DEF Settled, Exclusive, Shape, Shaped, EnrollPlaces
      <4>3. Extends(Held, Held')
        BY <4>2, ExtendsFacts
      <4> QED BY <1>0, <3>2, <4>1, <4>3, ExtendsFacts
    <3> QED BY <3>1, <3>2
  <2>2. ASSUME NEW q \in Request, req'[q].out = "ok" PROVE Recorded(Filed', req'[q])
    <3>1. CASE q = r
      BY <1>0, <2>2, <3>1
    <3>2. CASE q # r
      BY <1>0, <1>2, <2>2, <3>2, ExtendsFacts DEF Answered, Settled, Requests
    <3> QED BY <3>1, <3>2
  <2>3. ASSUME NEW q \in Request, req'[q].kind = "revoke"
        PROVE  \E x \in Filed' : x.dev = req'[q].dev
    <3>1. req[q].kind = "revoke" /\ req'[q].dev = req[q].dev
      BY <1>0, <2>3
    <3>2. PICK x \in Filed : x.dev = req[q].dev
      BY <3>1 DEF Settled, Requests
    <3>3. PICK y \in Filed' : Ledger!Later(x, y)
      BY <1>2 DEF Extends
    <3> QED BY <3>1, <3>2, <3>3 DEF Ledger!Later
  <2>4. ASSUME NEW q \in Request, NEW p \in Request, Spent(req'[q]), Spent(req'[p]),
               req'[q].tok = req'[p].tok
        PROVE  q = p
    <3>1. CASE q # r /\ p # r
      BY <1>0, <2>4, <3>1 DEF Settled, Requests
    <3>2. CASE q = r /\ p # r
      BY <1>0, <2>4, <3>2 DEF Settled, Requests
    <3>3. CASE q # r /\ p = r
      BY <1>0, <2>4, <3>3 DEF Settled, Requests
    <3> QED BY <3>1, <3>2, <3>3
  <2> QED BY <2>1, <2>2, <2>3, <2>4 DEF Requests, Answered
<1> QED BY <1>1, <1>3, <1>4 DEF Settled

\* The methods of Store only add to what the records say (store.go:216-239,
\* 269-274, 321-337).
LEMMA MethodsExtend ==
  ASSUME NEW img \in Image
  PROVE  /\ \A old \in img.refresh, t \in Token :
              Extends(img.refresh, RotateRefreshAtomic(img, old, t).refresh)
         /\ \A d : Extends(img.refresh, RevokeDevice(img, d).refresh)
         /\ \A t, d : Extends(img.refresh, AddRefresh(img, t, d).refresh)
<1>1. ASSUME NEW old \in img.refresh, NEW t \in Token
      PROVE  Extends(img.refresh, RotateRefreshAtomic(img, old, t).refresh)
  <2> DEFINE used == [old EXCEPT !.used = TRUE]
  <2>1. old \in Refresh /\ Ledger!Later(old, used)
    BY DEF Image, Refresh, Ledger!Later
  <2>2. RotateRefreshAtomic(img, old, t).refresh =
          (img.refresh \ {old}) \cup {used, NewRecord(t, old.dev)}
    BY DEF RotateRefreshAtomic, Image
  <2> HIDE DEF used
  <2> QED BY <2>1, <2>2 DEF Extends, Ledger!Later
<1>2. ASSUME NEW d PROVE Extends(img.refresh, RevokeDevice(img, d).refresh)
  <2>1. \A x \in img.refresh : Ledger!Later(x, RevokedRecord(x, d))
    BY DEF Image, Refresh, RevokedRecord, Ledger!Later
  <2>2. RevokeDevice(img, d).refresh = {RevokedRecord(x, d) : x \in img.refresh}
    BY DEF RevokeDevice, Image
  <2> QED BY <2>1, <2>2 DEF Extends
<1>3. ASSUME NEW t, NEW d PROVE Extends(img.refresh, AddRefresh(img, t, d).refresh)
  <2>1. AddRefresh(img, t, d).refresh = img.refresh \cup {NewRecord(t, d)}
    BY DEF AddRefresh, Image
  <2> QED BY <2>1 DEF Extends, Ledger!Later
<1> QED BY <1>1, <1>2, <1>3

\* They keep the hashes apart, as a new record has a new one, and make up none.
LEMMA MethodsKeepDistinct ==
  ASSUME NEW img \in Image, Distinct(img.refresh), NEW M, \A x \in img.refresh : x.hash \in M
  PROVE  /\ \A old \in img.refresh, t \in Token \ M :
              LET new == RotateRefreshAtomic(img, old, t).refresh
              IN Distinct(new) /\ \A x \in new : x.hash \in M \cup {t}
         /\ \A d : LET new == RevokeDevice(img, d).refresh
                   IN Distinct(new) /\ \A x \in new : x.hash \in M
         /\ \A t, d : t \notin M =>
              LET new == AddRefresh(img, t, d).refresh
              IN Distinct(new) /\ \A x \in new : x.hash \in M \cup {t}
<1>1. ASSUME NEW old \in img.refresh, NEW t \in Token \ M
      PROVE  LET new == RotateRefreshAtomic(img, old, t).refresh
             IN Distinct(new) /\ \A x \in new : x.hash \in M \cup {t}
  <2> DEFINE used == [old EXCEPT !.used = TRUE]
             next == NewRecord(t, old.dev)
             new  == (img.refresh \ {old}) \cup {used, next}
  <2>1. used.hash = old.hash /\ next.hash = t
    BY DEF Image, Refresh, NewRecord
  <2>2. RotateRefreshAtomic(img, old, t).refresh = new
    BY DEF RotateRefreshAtomic, Image
  <2> HIDE DEF used, next
  <2>3. ASSUME NEW x \in new, x.hash = t PROVE x = next
    BY <2>1, <2>3
  <2>4. ASSUME NEW x \in new, x.hash = old.hash, x.hash # t PROVE x = used
    BY <2>1, <2>4 DEF Distinct
  <2>5. ASSUME NEW x \in new, x.hash # t, x.hash # old.hash PROVE x \in img.refresh
    BY <2>1, <2>5
  <2>6. \A x \in new : x.hash \in M \cup {t}
    BY <2>1
  <2> HIDE DEF new
  <2>7. Distinct(new)
    <3> SUFFICES ASSUME NEW x \in new, NEW y \in new, x.hash = y.hash PROVE x = y
      BY DEF Distinct
    <3>1. CASE x.hash = t
      BY <2>3, <3>1
    <3>2. CASE x.hash # t /\ x.hash = old.hash
      BY <2>4, <3>2
    <3>3. CASE x.hash # t /\ x.hash # old.hash
      BY <2>5, <3>3 DEF Distinct
    <3> QED BY <3>1, <3>2, <3>3
  <2> QED BY <2>2, <2>6, <2>7
<1>2. ASSUME NEW d
      PROVE  LET new == RevokeDevice(img, d).refresh
             IN Distinct(new) /\ \A x \in new : x.hash \in M
  <2>1. \A x \in img.refresh : RevokedRecord(x, d).hash = x.hash
    BY DEF Image, Refresh, RevokedRecord
  <2>2. RevokeDevice(img, d).refresh = {RevokedRecord(x, d) : x \in img.refresh}
    BY DEF RevokeDevice, Image
  <2> QED BY <2>1, <2>2 DEF Distinct
<1>3. ASSUME NEW t, NEW d, t \notin M
      PROVE  LET new == AddRefresh(img, t, d).refresh
             IN Distinct(new) /\ \A x \in new : x.hash \in M \cup {t}
  <2>1. AddRefresh(img, t, d).refresh = img.refresh \cup {NewRecord(t, d)}
    BY DEF AddRefresh, Image
  <2>2. NewRecord(t, d).hash = t
    BY DEF NewRecord
  <2> QED BY <1>3, <2>1, <2>2 DEF Distinct
<1> QED BY <1>1, <1>2, <1>3

------------------------------------------------------------------------------
(* One step.                                                                *)

JInv == Shape /\ (~FirstBoot => OneSecret) /\ (PairingAlone => Settled)

\* What every step of the handler of r does, whatever else it does.
Turn(r, h) ==
  /\ req' = [req EXCEPT ![r] = h] /\ InFlight(r) /\ Up /\ Up'
  /\ cli' = cli /\ signer' = signer /\ minted \subseteq minted' /\ disk' \in {disk, mem}
  /\ mem' \in Images \/ mem'.secret = mem.secret
  /\ Shaped(h) /\ h.snap \in {req[r].snap, disk, None}
  /\ h.kind = "enroll" => req[r].kind = "enroll"
  /\ h.kind = "revoke" => req[r].kind = "revoke" /\ h.dev = req[r].dev
  /\ h.pc = "enroll_assign" => disk' # None /\ h.snap = disk'
  /\ Signed(h) => h.sig = signer \/ (Signed(req[r]) /\ h.sig = req[r].sig)

LEMMA TurnKeepsShape ==
  ASSUME TypeOK, Shape, NEW r \in Request, NEW h, Turn(r, h) PROVE Shape'
<1>1. req'[r] = h /\ \A q \in Request : q # r => req'[q] = req[q]
  BY DEF TypeOK, Turn
<1> QED BY <1>1 DEF Turn, Shape

LEMMA TurnKeepsSecret ==
  ASSUME TypeOK, OneSecret, NEW r \in Request, NEW h, Turn(r, h) PROVE OneSecret'
<1>1. req'[r] = h /\ \A q \in Request : q # r => req'[q] = req[q]
  BY DEF TypeOK, Turn
<1>2. Images' \subseteq Images \cup ({mem'} \ {None})
  BY <1>1, ServerImages DEF Turn
<1>3. mem \in Images /\ disk \in Images
  BY DEF Images, Turn, Up, OneSecret
<1>4. disk' # None /\ disk'.secret = disk.secret
  BY <1>3 DEF Turn, Up, OneSecret
<1>5. mem'.secret = disk.secret
  BY <1>3 DEF Turn, OneSecret
<1>6. \A img \in Images' : img.secret = disk.secret
  BY <1>2, <1>5 DEF OneSecret
<1>7. \A q \in Request : Signed(req'[q]) => req'[q].sig = disk.secret
  BY <1>1 DEF Turn, OneSecret
<1> QED BY <1>4, <1>6, <1>7 DEF Turn, OneSecret

\* A step that leaves the file alone and answers no success.
LEMMA MemoryTurn ==
  ASSUME TypeOK, JInv, NEW r \in Request, NEW h, Turn(r, h), disk' = disk, h.out # "ok",
         PairingAlone =>
           \/ Held' = Held
           \/ /\ Extends(Held, Held') /\ Distinct(Held')
              /\ \A x \in Held' : x.hash \in minted'
           \/ Held' = Filed /\ req[r].pc = "enroll_assign" /\ h.pc = "enroll_lookup",
         PairingAlone /\ h.pc = "persist" => Recorded(Held', h),
         PairingAlone /\ Spent(h) => \A q \in Request : Spent(req[q]) => req[q].tok # h.tok
  PROVE  JInv'
<1>1. Shape' /\ (~FirstBoot => OneSecret')
  BY TurnKeepsShape, TurnKeepsSecret DEF JInv
<1>2. ASSUME PairingAlone PROVE Settled'
  <2>1. Filed' = Filed
    BY DEF Filed
  <2> QED BY <1>2, <2>1, TurnSettles DEF JInv, Turn
<1> QED BY <1>1, <1>2 DEF JInv

\* A step that leaves the memory alone too, and has nothing to write out.
LEMMA QuietTurn ==
  ASSUME TypeOK, JInv, NEW r \in Request, NEW h, Turn(r, h), mem' = mem, disk' = disk,
         h.out # "ok", h.pc = "persist" => h.kind = "reuse"
  PROVE  JInv'
<1>1. Held' = Held /\ ~Spent(h)
  BY DEF Held, Spent
<1>2. Recorded(Held', h) \/ h.pc # "persist"
  BY DEF Recorded
<1> QED BY <1>1, <1>2, MemoryTurn

\* What the handler's locals are after Goto and Reply.
Same(g, h) == /\ h.kind = g.kind /\ h.tok = g.tok /\ h.dev = g.dev
              /\ h.new = g.new /\ h.sig = g.sig

LEMMA LocalsAfter ==
  ASSUME TypeOK, NEW r \in Request
  PROVE  /\ \A pc : Goto(r, pc) =>
              \E h : /\ req' = [req EXCEPT ![r] = h] /\ Same(req[r], h)
                     /\ h.pc = pc /\ h.snap = req[r].snap /\ h.out = req[r].out
         /\ \A out : Reply(r, out) =>
              \E h : /\ req' = [req EXCEPT ![r] = h] /\ Same(req[r], h)
                     /\ h.pc = "done" /\ h.snap = None /\ h.out = out
<1>0. req[r] \in Handler
  BY DEF TypeOK
<1>1. ASSUME NEW pc, Goto(r, pc)
      PROVE  \E h : /\ req' = [req EXCEPT ![r] = h] /\ Same(req[r], h)
                    /\ h.pc = pc /\ h.snap = req[r].snap /\ h.out = req[r].out
  <2> DEFINE h == [req[r] EXCEPT !.pc = pc]
  <2>1. req' = [req EXCEPT ![r] = h]
    BY <1>1 DEF Goto
  <2>2. Same(req[r], h) /\ h.pc = pc /\ h.snap = req[r].snap /\ h.out = req[r].out
    BY <1>0 DEF Handler, Same
  <2> HIDE DEF h
  <2> QED BY <2>1, <2>2
<1>2. ASSUME NEW out, Reply(r, out)
      PROVE  \E h : /\ req' = [req EXCEPT ![r] = h] /\ Same(req[r], h)
                    /\ h.pc = "done" /\ h.snap = None /\ h.out = out
  <2> DEFINE h == [req[r] EXCEPT !.pc = "done", !.snap = None, !.out = out]
  <2>1. req' = [req EXCEPT ![r] = h]
    BY <1>2 DEF Reply
  <2>2. Same(req[r], h) /\ h.pc = "done" /\ h.snap = None /\ h.out = out
    BY <1>0 DEF Handler, Same
  <2> HIDE DEF h
  <2> QED BY <2>1, <2>2
<1> QED BY <1>1, <1>2

\* RevokeDevice on the memory, by either of the two handlers that call it.
LEMMA RevokeTurn ==
  ASSUME IInv, JInv, NEW r \in Request, InFlight(r), Up, Goto(r, "persist"),
         mem' = RevokeDevice(mem, req[r].dev), UNCHANGED <<disk, signer, cli, minted>>,
         req[r].kind \in {"reuse", "revoke"}, req[r].out = "none"
  PROVE  JInv'
<1> DEFINE d == req[r].dev
<1>0. TypeOK /\ mem \in Image
  BY DEF IInv, TypeOK, Up
<1>1. PICK h : /\ req' = [req EXCEPT ![r] = h] /\ Same(req[r], h)
               /\ h.pc = "persist" /\ h.snap = req[r].snap /\ h.out = "none"
  BY <1>0, LocalsAfter
<1>2. /\ mem'.refresh = {RevokedRecord(x, d) : x \in mem.refresh}
      /\ mem'.secret = mem.secret
  BY <1>0 DEF RevokeDevice, Image
<1>3. mem' # None
  BY <1>0, ImageMethodsTyped, NoneIsNoValue
<1>4. Turn(r, h)
  BY <1>1, <1>2, <1>3 DEF Turn, Same, Shaped, EnrollPlaces, Signed, Up
<1>5. Held = mem.refresh /\ Held' = RevokeDevice(mem, d).refresh
  BY <1>3 DEF Held, Up
<1>6. Extends(Held, Held')
  BY <1>0, <1>5, MethodsExtend
<1>7. ASSUME PairingAlone PROVE Distinct(Held') /\ \A x \in Held' : x.hash \in minted'
  <2>1. Distinct(mem.refresh) /\ \A x \in mem.refresh : x.hash \in minted
    BY <1>5, <1>7 DEF JInv, Settled, Ahead
  <2> QED BY <1>0, <1>5, <2>1, MethodsKeepDistinct
<1>8. ASSUME PairingAlone PROVE Recorded(Held', h)
  <2>1. CASE h.kind = "reuse"
    BY <2>1 DEF Recorded
  <2>2. CASE h.kind = "revoke"
    <3>1. PICK y \in Filed : y.dev = d
      BY <1>1, <1>8, <2>2 DEF JInv, Settled, Requests, Same
    <3>2. PICK x \in Held : Ledger!Later(y, x)
      BY <1>8 DEF JInv, Settled, Ahead, Extends
    <3>3. x.dev = d /\ x \in Refresh
      BY <1>0, <1>5, <3>1, <3>2 DEF Ledger!Later, Image
    <3>4. RevokedRecord(x, d).dev = d /\ RevokedRecord(x, d).revoked
      BY <3>3 DEF RevokedRecord, Refresh
    <3>5. RevokedRecord(x, d) \in Held'
      BY <1>2, <1>5
    <3> QED BY <1>1, <2>2, <3>4, <3>5 DEF Recorded, Same
  <2> QED BY <1>1, <2>1, <2>2 DEF Same
<1> QED BY <1>0, <1>1, <1>4, <1>6, <1>7, <1>8, MemoryTurn DEF Spent, Same

LEMMA EnrollKeeps ==
  ASSUME IInv, JInv, NEW r \in Request, EnrollStep(r), ~ArriveEnroll(r)
  PROVE  JInv'
<1> DEFINE g == req[r]
<1>0. TypeOK /\ g \in Handler /\ Shaped(g)
  BY DEF IInv, TypeOK, JInv, Shape
<1>1. CASE EnrollRead(r)
  <2>1. /\ g.pc = "enroll_read" /\ g.kind = "enroll" /\ g.out = "none" /\ InFlight(r) /\ Up
        /\ UNCHANGED <<mem, disk, signer, cli, minted>>
    BY <1>0, <1>1 DEF EnrollRead, At, InFlight, Shaped, EnrollPlaces
  <2>2. PICK h : /\ req' = [req EXCEPT ![r] = h] /\ Same(g, h) /\ h.out = "none"
                 /\ \/ disk # None /\ h.pc = "enroll_assign" /\ h.snap = disk
                    \/ h.pc = "enroll_lookup" /\ h.snap = g.snap
    <3> DEFINE f == [g EXCEPT !.pc = "enroll_assign", !.snap = disk]
    <3>1. Same(g, f) /\ f.pc = "enroll_assign" /\ f.snap = disk /\ f.out = g.out
      BY <1>0 DEF Handler, Same
    <3>2. (disk # None /\ req' = [req EXCEPT ![r] = f]) \/ Goto(r, "enroll_lookup")
      BY <1>1 DEF EnrollRead
    <3> HIDE DEF f
    <3> QED BY <1>0, <2>1, <3>1, <3>2, LocalsAfter
  <2>3. Turn(r, h)
    BY <2>1, <2>2 DEF Turn, Same, Shaped, EnrollPlaces, Signed, Up, Images
  <2> QED BY <1>0, <2>1, <2>2, <2>3, QuietTurn
<1>2. CASE EnrollAssign(r)
  <2>1. /\ g.pc = "enroll_assign" /\ g.kind = "enroll" /\ g.out = "none" /\ InFlight(r) /\ Up
        /\ mem' = g.snap /\ UNCHANGED <<disk, signer, cli, minted>>
    BY <1>0, <1>2 DEF EnrollAssign, At, InFlight, Shaped, EnrollPlaces
  <2> DEFINE h == [g EXCEPT !.pc = "enroll_lookup", !.snap = None]
  <2>2. req' = [req EXCEPT ![r] = h]
    BY <1>2 DEF EnrollAssign
  <2>3. Same(g, h) /\ h.pc = "enroll_lookup" /\ h.snap = None /\ h.out = "none"
    BY <1>0, <2>1 DEF Handler, Same
  <2> HIDE DEF h
  <2>4. g.snap # None /\ g.snap \in Images /\ g.snap \in Image
    BY <1>0, <2>1 DEF Shaped, Images, Handler
  <2>5. Turn(r, h)
    BY <2>1, <2>2, <2>3, <2>4 DEF Turn, Same, Shaped, EnrollPlaces, Signed, Up
  <2>6. PairingAlone => Held' = Filed
    BY <2>1, <2>4 DEF JInv, Settled, Exclusive, Held, Filed
  <2> QED BY <1>0, <2>1, <2>3, <2>5, <2>6, MemoryTurn DEF Spent, Same
<1>3. CASE EnrollLookup(r)
  <2>1. /\ g.pc = "enroll_lookup" /\ g.kind = "enroll" /\ g.out = "none" /\ InFlight(r) /\ Up
        /\ UNCHANGED <<mem, disk, signer, cli, minted>>
    BY <1>0, <1>3 DEF EnrollLookup, At, InFlight, Shaped, EnrollPlaces
  <2>2. PICK h : /\ req' = [req EXCEPT ![r] = h] /\ Same(g, h)
                 /\ \/ h.pc = "enroll_device" /\ h.snap = g.snap /\ h.out = "none"
                    \/ h.pc = "done" /\ h.snap = None /\ h.out = "denied"
    BY <1>0, <1>3, <2>1, LocalsAfter DEF EnrollLookup
  <2>3. Turn(r, h)
    BY <2>1, <2>2 DEF Turn, Same, Shaped, EnrollPlaces, Signed, Up, Images
  <2> QED BY <1>0, <2>1, <2>2, <2>3, QuietTurn
<1>4. CASE EnrollDevice(r)
  <2>1. /\ g.pc = "enroll_device" /\ g.kind = "enroll" /\ g.out = "none" /\ InFlight(r) /\ Up
        /\ mem \in Image /\ UNCHANGED <<disk, signer, cli>>
    BY <1>0, <1>4 DEF EnrollDevice, At, InFlight, Shaped, EnrollPlaces, Up, TypeOK
  <2>2. PICK d \in Fresh(Device) :
          /\ mem' = AddDevice(mem, d) /\ minted' = minted \cup {d}
          /\ req' = [req EXCEPT ![r] = [@ EXCEPT !.pc = "enroll_mark", !.dev = d]]
    BY <1>4 DEF EnrollDevice
  <2> DEFINE h == [g EXCEPT !.pc = "enroll_mark", !.dev = d]
  <2>3. req' = [req EXCEPT ![r] = h]
    BY <2>2
  <2>4. h.pc = "enroll_mark" /\ h.kind = "enroll" /\ h.snap = g.snap /\ h.out = "none"
    BY <1>0, <2>1 DEF Handler
  <2> HIDE DEF h
  <2>5. d \in Device /\ mem'.refresh = mem.refresh /\ mem'.secret = mem.secret
    BY <2>1, <2>2, FreshIsNew DEF AddDevice, Image
  <2>6. mem' # None
    BY <2>1, <2>2, <2>5, ImageMethodsTyped, NoneIsNoValue
  <2>7. Turn(r, h)
    BY <2>1, <2>2, <2>3, <2>4, <2>5, <2>6 DEF Turn, Shaped, EnrollPlaces, Signed, Up
  <2>8. Held' = Held
    BY <2>1, <2>5, <2>6 DEF Held, Up
  <2> QED BY <1>0, <2>1, <2>4, <2>7, <2>8, MemoryTurn DEF Spent
<1>5. CASE EnrollMark(r)
  <2>1. /\ g.pc = "enroll_mark" /\ g.kind = "enroll" /\ g.out = "none" /\ InFlight(r) /\ Up
        /\ mem \in Image /\ UNCHANGED <<disk, signer, cli, minted>>
        /\ mem' = MarkEnrollmentUsed(mem, g.tok)
    BY <1>0, <1>5 DEF EnrollMark, At, InFlight, Shaped, EnrollPlaces, Up, TypeOK
  <2>2. PICK h : /\ req' = [req EXCEPT ![r] = h] /\ Same(g, h)
                 /\ h.pc = "enroll_add" /\ h.snap = g.snap /\ h.out = "none"
    BY <1>0, <1>5, <2>1, LocalsAfter DEF EnrollMark
  <2>3. mem'.refresh = mem.refresh /\ mem'.secret = mem.secret
    BY <2>1 DEF MarkEnrollmentUsed, Image
  <2>4. mem' # None
    BY <2>1, ImageMethodsTyped, NoneIsNoValue
  <2>5. Turn(r, h)
    BY <2>1, <2>2, <2>3, <2>4 DEF Turn, Same, Shaped, EnrollPlaces, Signed, Up
  <2>6. Held' = Held
    BY <2>1, <2>3, <2>4 DEF Held, Up
  <2> QED BY <1>0, <2>1, <2>2, <2>5, <2>6, MemoryTurn DEF Spent, Same
<1>6. CASE EnrollAdd(r)
  <2>1. /\ g.pc = "enroll_add" /\ g.kind = "enroll" /\ g.out = "none" /\ InFlight(r) /\ Up
        /\ mem \in Image /\ UNCHANGED <<disk, signer, cli>>
    BY <1>0, <1>6 DEF EnrollAdd, At, InFlight, Shaped, EnrollPlaces, Up, TypeOK
  <2>2. PICK t \in Fresh(Token) :
          /\ mem' = AddRefresh(mem, t, g.dev) /\ minted' = minted \cup {t}
          /\ req' = [req EXCEPT ![r] = [@ EXCEPT !.pc = "persist", !.new = t, !.sig = signer]]
    BY <1>6 DEF EnrollAdd
  <2> DEFINE h == [g EXCEPT !.pc = "persist", !.new = t, !.sig = signer]
  <2>3. req' = [req EXCEPT ![r] = h]
    BY <2>2
  <2>4. /\ h.pc = "persist" /\ h.kind = "enroll" /\ h.snap = g.snap /\ h.out = "none"
        /\ h.new = t /\ h.sig = signer /\ h.dev = g.dev
    BY <1>0, <2>1 DEF Handler
  <2> HIDE DEF h
  <2>5. /\ mem'.refresh = mem.refresh \cup {NewRecord(t, g.dev)}
        /\ mem'.secret = mem.secret
    BY <2>1, <2>2 DEF AddRefresh, Image
  <2>6. t \in Token /\ t \notin minted /\ g.dev \in Device
    BY <2>1, <2>2, FreshIsNew DEF IInv, NewDevices, Pairing
  <2>7. mem' # None
    BY <2>1, <2>2, <2>6, ImageMethodsTyped, NoneIsNoValue
  <2>8. Turn(r, h)
    BY <2>1, <2>2, <2>3, <2>4, <2>5, <2>7 DEF Turn, Shaped, EnrollPlaces, Signed, Up
  <2>9. Held = mem.refresh /\ Held' = AddRefresh(mem, t, g.dev).refresh
    BY <2>1, <2>2, <2>7 DEF Held, Up
  <2>10. Extends(Held, Held')
    BY <2>1, <2>9, MethodsExtend
  <2>11. ASSUME PairingAlone PROVE Distinct(Held') /\ \A x \in Held' : x.hash \in minted'
    <3>1. Distinct(mem.refresh) /\ \A x \in mem.refresh : x.hash \in minted
      BY <2>9, <2>11 DEF JInv, Settled, Ahead
    <3>2. LET new == AddRefresh(mem, t, g.dev).refresh
          IN Distinct(new) /\ \A x \in new : x.hash \in minted \cup {t}
      <4> HIDE DEF g
      <4> QED BY <2>1, <2>6, <3>1, MethodsKeepDistinct
    <3> QED BY <2>2, <2>9, <3>2
  <2>12. Recorded(Held', h)
    <3>1. NewRecord(t, g.dev) \in Held' /\ NewRecord(t, g.dev).hash = t /\ NewRecord(t, g.dev).dev = g.dev
      BY <2>2, <2>5, <2>9 DEF NewRecord
    <3> QED BY <2>4, <3>1 DEF Recorded
  <2> QED BY <1>0, <2>1, <2>4, <2>8, <2>10, <2>11, <2>12, MemoryTurn DEF Spent
<1> QED BY <1>1, <1>2, <1>3, <1>4, <1>5, <1>6 DEF EnrollStep

LEMMA RefreshKeeps ==
  ASSUME IInv, JInv, NEW r \in Request, RefreshStep(r), ~ArriveRefresh(r)
  PROVE  JInv'
<1> DEFINE g == req[r]
<1>0. TypeOK /\ g \in Handler /\ Shaped(g)
  BY DEF IInv, TypeOK, JInv, Shape
<1>1. CASE Rotate(r)
  <2>1. /\ g.pc = "rotate" /\ g.kind = "refresh" /\ g.out = "none" /\ InFlight(r) /\ Up
        /\ mem \in Image /\ UNCHANGED <<disk, signer, cli>>
    BY <1>0, <1>1 DEF Rotate, At, InFlight, Shaped, EnrollPlaces, Up, TypeOK
  <2>2. PICK old \in mem.refresh, t \in Fresh(Token) :
          /\ Rotatable(mem, g.tok, old)
          /\ mem' = RotateRefreshAtomic(mem, old, t) /\ minted' = minted \cup {t}
          /\ req' = [req EXCEPT ![r] = [@ EXCEPT !.pc = "persist", !.dev = old.dev,
                                                 !.new = t, !.sig = signer]]
    BY <1>1 DEF Rotate
  <2> DEFINE h == [g EXCEPT !.pc = "persist", !.dev = old.dev, !.new = t, !.sig = signer]
             used == [old EXCEPT !.used = TRUE]
             next == NewRecord(t, old.dev)
  <2>3. req' = [req EXCEPT ![r] = h]
    BY <2>2
  <2>4. /\ h.pc = "persist" /\ h.kind = "refresh" /\ h.snap = g.snap /\ h.out = "none"
        /\ h.new = t /\ h.sig = signer /\ h.dev = old.dev /\ h.tok = g.tok
    BY <1>0, <2>1 DEF Handler
  <2> HIDE DEF h
  <2>5. /\ mem'.refresh = (mem.refresh \ {old}) \cup {used, next}
        /\ mem'.secret = mem.secret
    BY <2>1, <2>2 DEF RotateRefreshAtomic, Image
  <2>6. t \in Token /\ t \notin minted /\ old.hash = g.tok /\ ~old.used
    BY <2>2, FreshIsNew DEF Rotatable, Live
  <2>7. mem' # None
    BY <2>1, <2>2, <2>6, ImageMethodsTyped, NoneIsNoValue
  <2>8. Turn(r, h)
    BY <2>1, <2>2, <2>3, <2>4, <2>5, <2>7 DEF Turn, Shaped, EnrollPlaces, Signed, Up
  <2>9. Held = mem.refresh /\ Held' = RotateRefreshAtomic(mem, old, t).refresh
    BY <2>1, <2>2, <2>7 DEF Held, Up
  <2>10. Extends(Held, Held')
    BY <2>1, <2>2, <2>6, <2>9, MethodsExtend
  <2>11. ASSUME PairingAlone PROVE Distinct(Held') /\ \A x \in Held' : x.hash \in minted'
    <3>1. Distinct(mem.refresh) /\ \A x \in mem.refresh : x.hash \in minted
      BY <2>9, <2>11 DEF JInv, Settled, Ahead
    <3>2. LET new == RotateRefreshAtomic(mem, old, t).refresh
          IN Distinct(new) /\ \A x \in new : x.hash \in minted \cup {t}
      <4> HIDE DEF g
      <4> QED BY <2>1, <2>2, <2>6, <3>1, MethodsKeepDistinct
    <3> QED BY <2>2, <2>9, <3>2
  <2>12. Recorded(Held', h)
    <3>1. /\ used.hash = g.tok /\ used.used /\ next.hash = t /\ next.dev = old.dev
      BY <2>1, <2>6 DEF Image, Refresh, NewRecord
    <3>2. used \in Held' /\ next \in Held'
      BY <2>2, <2>5, <2>9
    <3> HIDE DEF used, next
    <3> QED BY <2>4, <3>1, <3>2 DEF Recorded
  <2>13. ASSUME PairingAlone, NEW q \in Request, Spent(req[q]) PROVE req[q].tok # h.tok
    <3>1. \E x \in Held : x.hash = req[q].tok /\ x.used
      <4>1. Recorded(Held, req[q])
        <5>1. CASE req[q].pc = "persist"
          BY <2>13, <5>1 DEF JInv, Settled, Requests
        <5>2. CASE req[q].out = "ok"
          <6>1. Recorded(Filed, req[q]) /\ Extends(Filed, Held)
            BY <2>1, <2>13, <5>2 DEF JInv, Settled, Requests, Ahead, Answered
          <6> QED BY <6>1, ExtendsFacts
        <5> QED BY <2>13, <5>1, <5>2 DEF Spent
      <4> QED BY <2>13, <4>1 DEF Spent, Recorded
    <3>2. Distinct(Held)
      BY <2>13 DEF JInv, Settled, Ahead
    <3> QED BY <2>2, <2>4, <2>6, <2>9, <3>1, <3>2 DEF Distinct
  <2> QED BY <1>0, <2>1, <2>4, <2>8, <2>10, <2>11, <2>12, <2>13, MemoryTurn
<1>2. CASE RotateRefused(r)
  <2>1. /\ g.pc = "rotate" /\ g.out = "none" /\ InFlight(r) /\ Up
        /\ UNCHANGED <<mem, disk, signer, cli, minted>>
    BY <1>0, <1>2 DEF RotateRefused, At, InFlight, Shaped, EnrollPlaces
  <2> DEFINE h == [g EXCEPT !.pc = "reuse_lookup", !.kind = "reuse"]
  <2>2. req' = [req EXCEPT ![r] = h]
    BY <1>2 DEF RotateRefused
  <2>3. h.pc = "reuse_lookup" /\ h.kind = "reuse" /\ h.snap = g.snap /\ h.out = "none"
    BY <1>0, <2>1 DEF Handler
  <2> HIDE DEF h
  <2>4. Turn(r, h)
    BY <2>1, <2>2, <2>3 DEF Turn, Shaped, EnrollPlaces, Signed, Up, Images
  <2> QED BY <1>0, <2>1, <2>3, <2>4, QuietTurn
<1>3. CASE ReuseLookup(r)
  <2>1. /\ g.pc = "reuse_lookup" /\ g.kind = "reuse" /\ g.out = "none" /\ InFlight(r) /\ Up
        /\ UNCHANGED <<mem, disk, signer, cli, minted>>
    BY <1>0, <1>3 DEF ReuseLookup, At, InFlight, Shaped, EnrollPlaces
  <2>2. PICK h : /\ req' = [req EXCEPT ![r] = h] /\ h.kind = "reuse" /\ h.snap = g.snap
                 /\ h.out = "none" /\ h.pc \in {"reuse_revoke", "persist"}
    <3> DEFINE f(x) == [g EXCEPT !.pc = "reuse_revoke", !.dev = x.dev]
    <3>1. \A x : f(x).pc = "reuse_revoke" /\ f(x).kind = "reuse" /\ f(x).snap = g.snap
                 /\ f(x).out = "none"
      BY <1>0, <2>1 DEF Handler
    <3>2. (\E x \in mem.refresh : req' = [req EXCEPT ![r] = f(x)]) \/ Goto(r, "persist")
      BY <1>3 DEF ReuseLookup
    <3> HIDE DEF f
    <3> QED BY <1>0, <2>1, <3>1, <3>2, LocalsAfter DEF Same
  <2>3. Turn(r, h)
    BY <2>1, <2>2 DEF Turn, Shaped, EnrollPlaces, Signed, Up, Images
  <2> QED BY <1>0, <2>1, <2>2, <2>3, QuietTurn
<1>4. CASE ReuseRevoke(r)
  <2>1. /\ g.kind = "reuse" /\ g.out = "none" /\ InFlight(r) /\ Up
        /\ mem' = RevokeDevice(mem, g.dev) /\ Goto(r, "persist")
        /\ UNCHANGED <<disk, signer, cli, minted>>
    BY <1>0, <1>4 DEF ReuseRevoke, At, InFlight, Shaped
  <2> QED BY <2>1, RevokeTurn
<1> QED BY <1>1, <1>2, <1>3, <1>4 DEF RefreshStep

LEMMA RevokeKeeps ==
  ASSUME IInv, JInv, NEW r \in Request, RevokeStep(r), ~ArriveRevoke(r)
  PROVE  JInv'
<1> DEFINE g == req[r]
<1>0. TypeOK /\ g \in Handler /\ Shaped(g)
  BY DEF IInv, TypeOK, JInv, Shape
<1>1. CASE Authorize(r)
  <2>1. /\ g.pc = "authorize" /\ g.kind = "revoke" /\ g.out = "none" /\ InFlight(r) /\ Up
        /\ UNCHANGED <<mem, disk, signer, cli, minted>>
    BY <1>0, <1>1 DEF Authorize, At, InFlight, Shaped
  <2>2. PICK h : /\ req' = [req EXCEPT ![r] = h] /\ Same(g, h)
                 /\ \/ h.pc = "revoke" /\ h.snap = g.snap /\ h.out = "none"
                    \/ h.pc = "done" /\ h.snap = None /\ h.out = "denied"
    BY <1>0, <1>1, <2>1, LocalsAfter DEF Authorize
  <2>3. Turn(r, h)
    BY <2>1, <2>2 DEF Turn, Same, Shaped, EnrollPlaces, Signed, Up, Images
  <2> QED BY <1>0, <2>1, <2>2, <2>3, QuietTurn
<1>2. CASE Revoke(r)
  <2>1. /\ g.kind = "revoke" /\ g.out = "none" /\ InFlight(r) /\ Up
        /\ mem' = RevokeDevice(mem, g.dev) /\ Goto(r, "persist")
        /\ UNCHANGED <<disk, signer, cli, minted>>
    BY <1>0, <1>2 DEF Revoke, At, InFlight, Shaped
  <2> QED BY <2>1, RevokeTurn
<1> QED BY <1>1, <1>2 DEF RevokeStep

LEMMA PersistKeeps ==
  ASSUME IInv, JInv, NEW r \in Request, Persist(r) \/ PersistFails(r)
  PROVE  JInv'
<1> DEFINE g == req[r]
<1>0. TypeOK /\ g \in Handler /\ Shaped(g)
  BY DEF IInv, TypeOK, JInv, Shape
<1>1. /\ g.pc = "persist" /\ g.out = "none" /\ InFlight(r) /\ Up
      /\ UNCHANGED <<mem, signer, cli, minted>>
  BY <1>0 DEF Persist, PersistFails, At, InFlight, Shaped
<1>2. CASE Persist(r)
  <2>1. disk' = mem /\ Reply(r, IF g.kind = "reuse" THEN "denied" ELSE "ok")
    BY <1>2 DEF Persist
  <2>2. PICK h : /\ req' = [req EXCEPT ![r] = h] /\ Same(g, h) /\ h.pc = "done"
                 /\ h.snap = None /\ h.out = IF g.kind = "reuse" THEN "denied" ELSE "ok"
    BY <1>0, <2>1, LocalsAfter
  <2>3. Turn(r, h)
    BY <1>1, <2>1, <2>2 DEF Turn, Same, Shaped, EnrollPlaces, Signed, Up, Images
  <2>4. Shape' /\ (~FirstBoot => OneSecret')
    BY <1>0, <2>3, TurnKeepsShape, TurnKeepsSecret DEF JInv
  <2>5. ASSUME PairingAlone PROVE Settled'
    <3>1. Held' = Held /\ Filed' = Held
      BY <1>1, <2>1 DEF Held, Filed, Up
    <3>2. Recorded(Held, g)
      BY <1>1, <2>5 DEF JInv, Settled, Requests
    <3>3. Recorded(Filed', h)
      BY <2>2, <3>1, <3>2 DEF Recorded, Same
    <3>4. Spent(h) => Spent(g) /\ h.tok = g.tok
      BY <1>1, <2>2 DEF Spent, Same
    <3> HIDE DEF g
    <3> QED BY <1>0, <1>1, <2>2, <2>3, <2>5, <3>1, <3>3, <3>4, TurnSettles DEF JInv, Turn, g
  <2> QED BY <2>4, <2>5 DEF JInv
<1>3. CASE PersistFails(r)
  <2>1. disk' = disk /\ Reply(r, IF g.kind = "reuse" THEN "denied" ELSE "error")
    BY <1>3 DEF PersistFails
  <2>2. PICK h : /\ req' = [req EXCEPT ![r] = h] /\ Same(g, h) /\ h.pc = "done"
                 /\ h.snap = None /\ h.out \in {"denied", "error"}
    BY <1>0, <2>1, LocalsAfter
  <2>3. Turn(r, h)
    BY <1>1, <2>1, <2>2 DEF Turn, Same, Shaped, EnrollPlaces, Signed, Up, Images
  <2> QED BY <1>0, <1>1, <2>1, <2>2, <2>3, QuietTurn
<1> QED BY <1>2, <1>3

\* A request that has just arrived has done nothing yet; if it is a pairing it
\* is alone, and no pairing is in flight if it is not.
LEMMA ArrivalKeeps ==
  ASSUME TypeOK, JInv, NEW r \in Request, NEW h, Arrive(r, h),
         Shaped(h), h.pc \in {"enroll_read", "rotate", "authorize"}, h.snap = None,
         PairingAlone => /\ Alone(h.kind = "enroll")
                         /\ h.kind = "revoke" => \E x \in Filed : x.dev = h.dev
  PROVE  JInv'
<1>1. /\ req'[r] = h /\ h.out = "none" /\ Up
      /\ \A q \in Request : q # r => req'[q] = req[q]
      /\ UNCHANGED <<mem, disk, signer, cli, minted>>
      /\ ~Spent(h) /\ ~Signed(h) /\ ~InFlight(r)
  BY DEF TypeOK, Arrive, Shaped, Spent, Signed, InFlight
<1>2. Shape'
  BY <1>1 DEF JInv, Shape, Up
<1>3. ASSUME OneSecret PROVE OneSecret'
  <2>1. Images' \subseteq Images
    BY <1>1 DEF Images
  <2> QED BY <1>1, <1>3, <2>1 DEF OneSecret, Up
<1>4. ASSUME PairingAlone PROVE Settled'
  <2>1. Filed' = Filed /\ Held' = Held
    BY <1>1 DEF Filed, Held
  <2>2. /\ \A c \in Cli : cli[c].pc # "loaded"
        /\ \A q \in Request : InFlight(q) => h.kind # "enroll" /\ req[q].kind # "enroll"
    BY <1>4 DEF Alone
  <2>3. Exclusive'
    BY <1>1, <1>4, <2>2 DEF JInv, Settled, Exclusive, InFlight
  <2>4. Ahead'
    BY <1>1, <1>4, <2>1 DEF JInv, Settled, Ahead, Up, Distinct
  <2>5. Requests'
    BY <1>1, <1>4, <2>1 DEF JInv, Settled, Requests, Answered
  <2> QED BY <2>3, <2>4, <2>5 DEF Settled
<1> QED BY <1>2, <1>3, <1>4 DEF JInv

LEMMA ArrivalsKeep ==
  ASSUME IInv, JInv, NEW r \in Request,
         ArriveEnroll(r) \/ ArriveRefresh(r) \/ ArriveRevoke(r)
  PROVE  JInv'
<1>0. TypeOK
  BY DEF IInv
<1>1. CASE ArriveEnroll(r)
  <2> DEFINE f(e) == [IdleHandler EXCEPT !.pc = "enroll_read", !.kind = "enroll", !.tok = e]
  <2>1. PICK e \in EToken : Arrive(r, f(e))
    BY <1>1 DEF ArriveEnroll
  <2>2. /\ f(e).pc = "enroll_read" /\ f(e).kind = "enroll" /\ f(e).snap = None
        /\ f(e).out = "none"
    BY DEF IdleHandler
  <2>3. Alone(TRUE)
    BY <1>1 DEF ArriveEnroll
  <2> HIDE DEF f
  <2>4. Shaped(f(e)) /\ Alone(f(e).kind = "enroll")
    BY <2>2, <2>3 DEF Shaped, EnrollPlaces, Alone
  <2> QED BY <1>0, <2>1, <2>2, <2>4, ArrivalKeeps
<1>2. CASE ArriveRefresh(r)
  <2> DEFINE f(t) == [IdleHandler EXCEPT !.pc = "rotate", !.kind = "refresh", !.tok = t]
  <2>1. PICK t \in Token : Arrive(r, f(t))
    BY <1>2 DEF ArriveRefresh
  <2>2. /\ f(t).pc = "rotate" /\ f(t).kind = "refresh" /\ f(t).snap = None
        /\ f(t).out = "none"
    BY DEF IdleHandler
  <2>3. Alone(FALSE)
    BY <1>2 DEF ArriveRefresh
  <2> HIDE DEF f
  <2>4. Shaped(f(t)) /\ Alone(f(t).kind = "enroll")
    BY <2>2, <2>3 DEF Shaped, EnrollPlaces, Alone
  <2> QED BY <1>0, <2>1, <2>2, <2>4, ArrivalKeeps
<1>3. CASE ArriveRevoke(r)
  <2> DEFINE f(a) == [IdleHandler EXCEPT !.pc = "authorize", !.kind = "revoke",
                                         !.dev = req[a].dev, !.sig = req[a].sig]
  <2>1. PICK a \in Request : Issued(a) /\ Arrive(r, f(a))
    BY <1>3 DEF ArriveRevoke
  <2>2. /\ f(a).pc = "authorize" /\ f(a).kind = "revoke" /\ f(a).snap = None
        /\ f(a).out = "none" /\ f(a).dev = req[a].dev
    BY DEF IdleHandler
  <2>3. Alone(FALSE)
    BY <1>3 DEF ArriveRevoke
  <2>4. PairingAlone => \E x \in Filed : x.dev = req[a].dev
    BY <2>1 DEF Issued, JInv, Settled, Requests, Recorded
  <2> HIDE DEF f
  <2>5. Shaped(f(a)) /\ Alone(f(a).kind = "enroll")
    BY <2>2, <2>3 DEF Shaped, EnrollPlaces, Alone
  <2> QED BY <1>0, <2>1, <2>2, <2>4, <2>5, ArrivalKeeps
<1> QED BY <1>1, <1>2, <1>3

LEMMA BootKeeps == ASSUME IInv, JInv, Boot PROVE JInv'
<1>0. TypeOK /\ \A r \in Request : ~InFlight(r)
  BY DEF IInv, Boot, JInv, Shape
<1>1. PICK img \in NewStore : mem' = img /\ signer' = img.secret
  BY DEF Boot
<1>2. UNCHANGED <<disk, req, cli>> /\ minted \subseteq minted' /\ mem = None
  BY DEF Boot, Up
<1>3. img \in Image
  BY <1>0, NewStoreTyped
<1>4. Shape'
  BY <1>0, <1>2 DEF JInv, Shape, InFlight
<1>5. ASSUME OneSecret PROVE OneSecret'
  <2>1. img = disk
    BY <1>1, <1>5 DEF NewStore, OneSecret
  <2>2. Images' \subseteq Images \cup {disk}
    BY <1>1, <1>2, <2>1 DEF Images
  <2>3. \A r \in Request : Signed(req'[r]) => req'[r].sig = disk.secret
    BY <1>2, <1>5 DEF OneSecret
  <2> QED BY <1>1, <1>2, <1>5, <2>1, <2>2, <2>3 DEF OneSecret
<1>6. ASSUME PairingAlone PROVE Settled'
  <2>1. img.refresh = Filed
    BY <1>1 DEF NewStore, EmptyImage, Filed
  <2>2. Filed' = Filed /\ Held' = Filed
    BY <1>1, <1>2, <1>3, <2>1, NoneIsNoValue DEF Filed, Held
  <2>3. Exclusive'
    BY <1>2, <1>6, <2>2 DEF JInv, Settled, Exclusive, InFlight
  <2>4. Ahead'
    BY <1>2, <1>6, <2>2, ExtendsFacts DEF JInv, Settled, Ahead, Distinct
  <2>5. \A r \in Request : req[r].pc # "persist"
    BY <1>0 DEF InFlight
  <2>6. Requests'
    BY <1>2, <1>6, <2>2, <2>5 DEF JInv, Settled, Requests, Answered
  <2> QED BY <2>3, <2>4, <2>6 DEF Settled
<1> QED BY <1>4, <1>5, <1>6 DEF JInv

\* A crash ends the requests in flight without an answer.
LEMMA CrashKeeps == ASSUME IInv, JInv, Crash PROVE JInv'
<1>0. TypeOK /\ \A r \in Request : req[r] \in Handler
  BY DEF IInv, TypeOK
<1>1. mem' = None /\ UNCHANGED <<disk, cli, minted>>
  BY DEF Crash
<1>2. \A h \in Handler :
        LET lost == [h EXCEPT !.pc = "done", !.snap = None, !.out = "lost"]
        IN /\ lost.pc = "done" /\ lost.snap = None /\ lost.out = "lost"
           /\ lost.kind = h.kind /\ lost.dev = h.dev
  BY DEF Handler
<1>3. \A r \in Request :
        \/ req'[r] = req[r] /\ ~InFlight(r)
        \/ /\ req'[r].pc = "done" /\ req'[r].snap = None /\ req'[r].out = "lost"
           /\ req'[r].kind = req[r].kind /\ req'[r].dev = req[r].dev
  <2>1. ASSUME NEW r \in Request, InFlight(r)
        PROVE  req'[r] = [req[r] EXCEPT !.pc = "done", !.snap = None, !.out = "lost"]
    BY <2>1 DEF Crash
  <2>2. ASSUME NEW r \in Request, ~InFlight(r) PROVE req'[r] = req[r]
    BY <2>2 DEF Crash
  <2>3. ASSUME NEW r \in Request, InFlight(r)
        PROVE  /\ req'[r].pc = "done" /\ req'[r].snap = None /\ req'[r].out = "lost"
               /\ req'[r].kind = req[r].kind /\ req'[r].dev = req[r].dev
    <3>1. req[r] \in Handler
      BY <1>0
    <3> QED BY <1>2, <2>1, <2>3, <3>1
  <2> QED BY <2>2, <2>3
<1>4. \A r \in Request : InFlight(r)' = FALSE
  BY <1>3 DEF InFlight
<1>5. Shape'
  BY <1>1, <1>3, <1>4 DEF JInv, Shape, Shaped, EnrollPlaces, InFlight
<1>6. ASSUME OneSecret PROVE OneSecret'
  <2>1. Images' \subseteq Images
    BY <1>1, <1>3 DEF Images
  <2>2. \A r \in Request : Signed(req'[r]) => req'[r].sig = disk.secret
    BY <1>3, <1>6 DEF OneSecret, Signed
  <2> QED BY <1>1, <1>6, <2>1, <2>2 DEF OneSecret, Up
<1>7. ASSUME PairingAlone PROVE Settled'
  <2>1. Filed' = Filed /\ Held' = {}
    BY <1>1 DEF Filed, Held
  <2>2. \A r \in Request : req'[r].pc \notin {"enroll_assign", "persist"}
    BY <1>4 DEF InFlight
  <2>3. Exclusive'
    BY <1>1, <1>4, <1>7, <2>1, <2>2 DEF JInv, Settled, Exclusive
  <2>4. Ahead'
    BY <1>1, <1>7, <2>1 DEF JInv, Settled, Ahead, Distinct, Up
  <2>5. \A r \in Request : Spent(req'[r]) => req'[r] = req[r]
    BY <1>3 DEF Spent
  <2>6. \A r \in Request : req'[r].out = "ok" => req'[r] = req[r]
    BY <1>3
  <2>7. Requests'
    BY <1>3, <1>7, <2>1, <2>2, <2>5, <2>6 DEF JInv, Settled, Requests, Answered
  <2> QED BY <2>3, <2>4, <2>7 DEF Settled
<1> QED BY <1>5, <1>6, <1>7 DEF JInv

\* An enroll command works on a copy of the file, which pairing alone keeps
\* from changing until the command writes it back.
LEMMA CliKeeps == ASSUME IInv, JInv, NEW c \in Cli, CliStep(c) PROVE JInv'
<1>0. TypeOK /\ cli[c] \in Command
  BY DEF IInv, TypeOK
<1>1. CASE CliLoad(c)
  <2> DEFINE load(img, e) == [pc |-> "loaded", tok |-> e, img |-> AddEnrollment(img, e)]
  <2>1. PICK img \in NewStore, e \in EToken :
          cli' = [cli EXCEPT ![c] = load(img, e)]
    BY <1>1 DEF CliLoad, Fresh, Unused
  <2>2. UNCHANGED <<mem, disk, signer, req>> /\ minted \subseteq minted' /\ Alone(TRUE)
    BY <1>1 DEF CliLoad
  <2>3. img \in Image
    BY <1>0, NewStoreTyped
  <2>4. /\ AddEnrollment(img, e) \in Image
        /\ AddEnrollment(img, e).refresh = img.refresh
        /\ AddEnrollment(img, e).secret = img.secret
    <3>1. AddEnrollment(img, e) \in Image
      BY <2>3, ImageMethodsTyped
    <3> QED BY <2>3, <3>1 DEF AddEnrollment, Image
  <2>5. /\ cli'[c] = load(img, e) /\ load(img, e).pc = "loaded"
        /\ load(img, e).img = AddEnrollment(img, e)
        /\ \A b \in Cli : b # c => cli'[b] = cli[b]
    BY <1>0, <2>1 DEF TypeOK
  <2> HIDE DEF load
  <2>6. Shape'
    BY <2>2, <2>4, <2>5, NoneIsNoValue DEF JInv, Shape, Up, InFlight
  <2>7. ASSUME OneSecret PROVE OneSecret'
    <3>1. img = disk
      BY <2>7 DEF NewStore, OneSecret
    <3>2. Images' \subseteq Images \cup {AddEnrollment(img, e)}
      BY <2>2, <2>5 DEF Images
    <3>3. \A i \in Images' : i.secret = disk.secret
      BY <2>4, <2>7, <3>1, <3>2 DEF OneSecret
    <3> QED BY <2>2, <2>7, <3>3 DEF OneSecret, Up
  <2>8. ASSUME PairingAlone PROVE Settled'
    <3>1. Filed' = Filed /\ Held' = Held /\ img.refresh = Filed
      BY <2>2 DEF Filed, Held, NewStore, EmptyImage
    <3>2. /\ \A b \in Cli : cli[b].pc # "loaded"
          /\ \A r \in Request : ~InFlight(r)
      BY <2>2, <2>8 DEF Alone
    <3>3. Exclusive'
      BY <2>2, <2>4, <2>5, <3>1, <3>2 DEF Exclusive, InFlight
    <3>4. Ahead'
      BY <2>2, <2>8, <3>1 DEF JInv, Settled, Ahead, Up, Distinct
    <3>5. Requests'
      BY <2>2, <2>8, <3>1 DEF JInv, Settled, Requests, Answered
    <3> QED BY <3>3, <3>4, <3>5 DEF Settled
  <2> QED BY <2>6, <2>7, <2>8 DEF JInv
<1>2. CASE CliPersist(c) \/ CliPersistFails(c)
  <2>1. /\ cli[c].pc = "loaded" /\ disk' \in {disk, cli[c].img}
        /\ UNCHANGED <<mem, signer, req, minted>>
    BY <1>2 DEF CliPersist, CliPersistFails
  <2>2. /\ cli'[c].pc # "loaded" /\ cli'[c].img = None
        /\ \A b \in Cli : b # c => cli'[b] = cli[b]
    <3> DEFINE g == cli[c]
    <3>1. cli' = [cli EXCEPT ![c] = [g EXCEPT !.pc = "done", !.img = None]]
            \/ cli' = [cli EXCEPT ![c] = [g EXCEPT !.pc = "failed", !.img = None]]
      BY <1>2 DEF CliPersist, CliPersistFails
    <3>2. \A pc : LET h == [g EXCEPT !.pc = pc, !.img = None] IN h.pc = pc /\ h.img = None
      BY <1>0 DEF Command
    <3> HIDE DEF g
    <3>3. PICK h : cli' = [cli EXCEPT ![c] = h] /\ h.pc \in {"done", "failed"} /\ h.img = None
      BY <3>1, <3>2
    <3>4. cli'[c] = h /\ \A b \in Cli : b # c => cli'[b] = cli[b]
      BY <1>0, <3>3 DEF TypeOK
    <3> QED BY <3>3, <3>4
  <2>3. cli[c].img # None /\ cli[c].img \in Images
    BY <2>1 DEF JInv, Shape, Images
  <2>4. Shape'
    BY <2>1, <2>2 DEF JInv, Shape, Up, InFlight
  <2>5. ASSUME OneSecret PROVE OneSecret'
    <3>1. Images' \subseteq Images
      BY <2>1, <2>2, <2>3 DEF Images
    <3>2. disk' # None /\ disk'.secret = disk.secret
      BY <2>1, <2>3, <2>5 DEF OneSecret
    <3> QED BY <2>1, <2>5, <3>1, <3>2 DEF OneSecret, Up
  <2>6. ASSUME PairingAlone PROVE Settled'
    <3>1. Filed' = Filed /\ Held' = Held
      BY <2>1, <2>3, <2>6 DEF Filed, Held, JInv, Settled, Exclusive
    <3>2. /\ \A b \in Cli : cli'[b].pc # "loaded"
          /\ \A r \in Request : ~InFlight(r)
      BY <2>1, <2>2, <2>6 DEF JInv, Settled, Exclusive
    <3>3. Exclusive'
      BY <2>1, <3>2 DEF Exclusive, InFlight
    <3>4. Ahead'
      BY <2>1, <2>6, <3>1 DEF JInv, Settled, Ahead, Up, Distinct
    <3>5. Requests'
      BY <2>1, <2>6, <3>1 DEF JInv, Settled, Requests, Answered
    <3> QED BY <3>3, <3>4, <3>5 DEF Settled
  <2> QED BY <2>4, <2>5, <2>6 DEF JInv
<1> QED BY <1>1, <1>2 DEF CliStep

\* A step that touches neither the images nor the requests.
LEMMA IdleKeeps ==
  ASSUME JInv, UNCHANGED <<mem, disk, signer, req, cli, minted>> PROVE JInv'
<1>1. Images' = Images /\ Filed' = Filed /\ Held' = Held
  BY DEF Images, Filed, Held
<1>2. Shape'
  BY DEF JInv, Shape, Up, InFlight
<1>3. OneSecret => OneSecret'
  BY <1>1 DEF OneSecret, Up
<1>4. Settled => Settled'
  BY <1>1 DEF Settled, Exclusive, Ahead, Requests, Distinct, InFlight, Answered, Up
<1> QED BY <1>2, <1>3, <1>4 DEF JInv

LEMMA JInit == Init => JInv
<1> SUFFICES ASSUME Init PROVE JInv
  OBVIOUS
<1>1. /\ IdleHandler.pc = "idle" /\ IdleHandler.kind = "none" /\ IdleHandler.snap = None
      /\ IdleHandler.out = "none" /\ IdleCommand.pc = "idle" /\ IdleCommand.img = None
  BY DEF IdleHandler, IdleCommand
<1>2. /\ mem = None /\ Held = {}
      /\ \A c \in Cli : cli[c].pc = "idle" /\ cli[c].img = None
  BY <1>1 DEF Init, Held
<1>3. CASE FirstBoot
  <2>1. disk = None /\ Filed = {} /\ \A r \in Request : req[r] = IdleHandler
    BY <1>3 DEF Init, Filed
  <2>2. Shape
    BY <1>1, <1>2, <2>1 DEF Shape, Shaped, EnrollPlaces, InFlight
  <2>3. Exclusive /\ Ahead /\ Requests
    BY <1>1, <1>2, <2>1
    DEF Exclusive, Ahead, Requests, InFlight, Up, Distinct, Answered, Spent
  <2> QED BY <1>3, <2>2, <2>3 DEF JInv, Settled
<1>4. CASE ~FirstBoot
  <2> DEFINE paired(d, t, e, s) ==
               [IdleHandler EXCEPT !.pc = "done", !.kind = "enroll", !.tok = e,
                  !.dev = d, !.new = t, !.sig = s, !.out = "ok"]
  <2>1. PICK d \in Unused(Device, {}), t \in Unused(Token, {}),
             e \in Unused(EToken, {}), s \in Unused(Secret, {}), p \in Request :
          /\ disk = [refresh |-> {NewRecord(t, d)},
                     enroll  |-> {[hash |-> e, used |-> TRUE]},
                     devices |-> {d}, secret |-> s]
          /\ req = [r \in Request |->
                      IF r = p THEN paired(d, t, e, s) ELSE IdleHandler]
          /\ minted = {d, t, e, s}
    BY <1>4 DEF Init
  <2> DEFINE h == paired(d, t, e, s)
  <2>2. /\ h.pc = "done" /\ h.kind = "enroll" /\ h.snap = None /\ h.out = "ok"
        /\ h.new = t /\ h.dev = d /\ h.sig = s
    BY DEF IdleHandler
  <2> HIDE DEF paired
  <2>3. req[p] = h /\ \A r \in Request : r # p => req[r] = IdleHandler
    BY <2>1
  <2>4. disk \in Image /\ disk.refresh = {NewRecord(t, d)} /\ disk.secret = s
    <3>1. TypeOK /\ disk.refresh = {NewRecord(t, d)} /\ disk.secret = s
      BY <2>1, TypeInit
    <3>2. disk.devices # {}
      BY <2>1
    <3>3. disk # None
      <4>1. /\ NewRecord(t, d) \in Refresh /\ [hash |-> e, used |-> TRUE] \in Enroll
            /\ d \in Device /\ s \in Secret
        BY DEF Unused, NewRecord, Refresh, Enroll
      <4>2. disk \in Image
        BY <2>1, <4>1 DEF Image
      <4> QED BY <4>2, NoneIsNoValue
    <3> QED BY <3>1, <3>3 DEF TypeOK
  <2>5. Filed = {NewRecord(t, d)} /\ NewRecord(t, d).hash = t /\ NewRecord(t, d).dev = d
    BY <2>4, NoneIsNoValue DEF Filed, NewRecord
  <2> HIDE DEF h
  <2>6. Shape
    BY <1>1, <1>2, <2>2, <2>3 DEF Shape, Shaped, EnrollPlaces, InFlight
  <2>7. OneSecret
    <3>1. Images \subseteq {disk}
      BY <1>1, <1>2, <2>2, <2>3 DEF Images
    <3>2. \A r \in Request : Signed(req[r]) => req[r].sig = disk.secret
      BY <1>1, <2>2, <2>3, <2>4 DEF Signed
    <3> QED BY <1>2, <2>4, <3>1, <3>2, NoneIsNoValue DEF OneSecret, Up
  <2>8. Exclusive
    BY <1>1, <1>2, <2>2, <2>3 DEF Exclusive, InFlight
  <2>9. Ahead
    BY <1>2, <2>1, <2>5 DEF Ahead, Up, Distinct
  <2>10. Requests
    BY <1>1, <2>2, <2>3, <2>5 DEF Requests, Recorded, Answered, Spent
  <2> QED BY <2>6, <2>7, <2>8, <2>9, <2>10 DEF JInv, Settled
<1> QED BY <1>3, <1>4

LEMMA JStep == IInv /\ JInv /\ [Next]_vars => JInv'
<1> SUFFICES ASSUME IInv, JInv, [Next]_vars PROVE JInv'
  OBVIOUS
<1>1. CASE Boot
  BY <1>1, BootKeeps
<1>2. CASE Crash
  BY <1>2, CrashKeeps
<1>3. CASE Listening \/ UNCHANGED vars
  BY <1>3, IdleKeeps DEF Listening, vars
<1>4. ASSUME NEW h \in Token \cup EToken, Expire(h) PROVE JInv'
  BY <1>4, IdleKeeps DEF Expire
<1>5. ASSUME NEW r \in Request, HandlerStep(r) PROVE JInv'
  <2>1. CASE ArriveEnroll(r) \/ ArriveRefresh(r) \/ ArriveRevoke(r)
    BY <2>1, ArrivalsKeep
  <2>2. CASE EnrollStep(r) /\ ~ArriveEnroll(r)
    BY <2>2, EnrollKeeps
  <2>3. CASE RefreshStep(r) /\ ~ArriveRefresh(r)
    BY <2>3, RefreshKeeps
  <2>4. CASE RevokeStep(r) /\ ~ArriveRevoke(r)
    BY <2>4, RevokeKeeps
  <2>5. CASE Persist(r) \/ PersistFails(r)
    BY <2>5, PersistKeeps
  <2> QED BY <1>5, <2>1, <2>2, <2>3, <2>4, <2>5 DEF HandlerStep
<1>6. ASSUME NEW c \in Cli, CliStep(c) PROVE JInv'
  BY <1>6, CliKeeps
<1> QED BY <1>1, <1>2, <1>3, <1>4, <1>5, <1>6 DEF Next

LEMMA JInvariance == Spec => [](IInv /\ JInv)
<1>1. Init => IInv /\ JInv
  BY InvInit, JInit
<1>2. (IInv /\ JInv) /\ [Next]_vars => (IInv /\ JInv)'
  BY InvStep, JStep
<1> QED BY <1>1, <1>2, PTL DEF Spec

\* What the file says of a device's records is what the ledger wants said.
LEMMA FiledIsConsistent == ASSUME IInv, Ahead PROVE Ledger!Consistent(Filed)
<1>1. Filed \subseteq Ledger!Entry
  BY NoneIsNoValue DEF IInv, TypeOK, Filed, Image, Refresh, Ledger!Entry
<1>2. disk # None => Sound(disk)
  BY DEF IInv, Images
<1>3. \A x, y \in Filed :
        /\ x.dev = y.dev /\ Ledger!Live(x) /\ Ledger!Live(y) => x = y
        /\ x.dev = y.dev => x.revoked = y.revoked
  BY <1>2 DEF Filed, Sound, Live, Ledger!Live
<1> QED BY <1>1, <1>3 DEF Ahead, Distinct, Ledger!Consistent

\* Only Persist and the enroll command write the file: the one what the memory
\* holds, the other the file's own records.
LEMMA FiledAdvances ==
  ASSUME IInv, JInv, PairingAlone, [Next]_vars PROVE Extends(Filed, Filed')
<1>1. CASE disk' = disk
  BY <1>1, ExtendsFacts DEF Filed
<1>2. CASE Up /\ disk' = mem
  <2>1. Filed' = Held
    BY <1>2 DEF Filed, Held, Up
  <2> QED BY <1>2, <2>1 DEF JInv, Settled, Ahead
<1>3. ASSUME NEW c \in Cli, CliPersist(c) PROVE Extends(Filed, Filed')
  <2>1. cli[c].img # None /\ cli[c].img.refresh = Filed /\ disk' = cli[c].img
    BY <1>3 DEF CliPersist, JInv, Shape, Settled, Exclusive
  <2>2. Filed' = Filed
    BY <2>1 DEF Filed
  <2> QED BY <2>2, ExtendsFacts
<1>4. \/ disk' = disk
      \/ Up /\ disk' = mem
      \/ \E c \in Cli : CliPersist(c)
  <2>1. ASSUME NEW r \in Request, EnrollStep(r) PROVE disk' = disk
    BY <2>1 DEF EnrollStep, ArriveEnroll, Arrive, EnrollRead, EnrollAssign, EnrollLookup,
                EnrollDevice, EnrollMark, EnrollAdd
  <2>2. ASSUME NEW r \in Request, RefreshStep(r) PROVE disk' = disk
    BY <2>2 DEF RefreshStep, ArriveRefresh, Arrive, Rotate, RotateRefused, ReuseLookup,
                ReuseRevoke
  <2>3. ASSUME NEW r \in Request, RevokeStep(r) PROVE disk' = disk
    BY <2>3 DEF RevokeStep, ArriveRevoke, Arrive, Authorize, Revoke
  <2>4. ASSUME NEW r \in Request, Persist(r) \/ PersistFails(r)
        PROVE  disk' = disk \/ (Up /\ disk' = mem)
    BY <2>4 DEF Persist, PersistFails, At
  <2>5. ASSUME NEW c \in Cli, CliLoad(c) \/ CliPersistFails(c) PROVE disk' = disk
    BY <2>5 DEF CliLoad, CliPersistFails
  <2>6. ASSUME Boot \/ Crash \/ Listening \/ UNCHANGED vars PROVE disk' = disk
    BY <2>6 DEF Boot, Crash, Listening, vars
  <2>7. ASSUME NEW h \in Token \cup EToken, Expire(h) PROVE disk' = disk
    BY <2>7 DEF Expire
  <2> QED BY <2>1, <2>2, <2>3, <2>4, <2>5, <2>6, <2>7 DEF Next, HandlerStep, CliStep
<1> QED BY <1>1, <1>2, <1>3, <1>4

------------------------------------------------------------------------------
(* What the agent promises the apps.                                        *)

(***************************************************************************)
(* Access tokens survive restarts (server.go:63-67) once a device has       *)
(* paired: NewStore takes the secret from the file, and no interleaving of  *)
(* Reload, Persist, the enroll command and crashes brings in another.        *)
(***************************************************************************)
THEOREM SecretIsKept == ASSUME ~FirstBoot PROVE Spec => []TokensSurviveRestart
<1>1. JInv => TokensSurviveRestart
  BY DEF JInv, OneSecret, Signed, TokensSurviveRestart, Issued, Answered
<1> QED BY <1>1, JInvariance, PTL

(***************************************************************************)
(* Every mutation persists before its answer (store.go:118): the token of   *)
(* an answer is in the file from then on, when nothing overlaps a pairing.   *)
(***************************************************************************)
THEOREM AnswersAreDurable == ASSUME PairingAlone PROVE Spec => []AnsweredIsDurable
<1>1. JInv => AnsweredIsDurable
  <2> SUFFICES ASSUME JInv, NEW r \in Request, Issued(r)
               PROVE  disk # None /\ \E x \in disk.refresh : x.hash = req[r].new
    BY DEF AnsweredIsDurable
  <2>1. PICK x \in Filed : x.hash = req[r].new
    BY DEF JInv, Settled, Requests, Recorded, Issued
  <2> QED BY <2>1 DEF Filed
<1> QED BY <1>1, JInvariance, PTL

(***************************************************************************)
(* RotateRefreshAtomic lets a refresh token be spent once (store.go:212-239):*)
(* no second request with it is answered with tokens, before a crash or      *)
(* after one.                                                                *)
(***************************************************************************)
THEOREM TokensAreSpentOnce == ASSUME PairingAlone PROVE Spec => []SingleUse
<1>1. JInv => SingleUse
  BY DEF JInv, Settled, Requests, Spent, SingleUse, Answered
<1> QED BY <1>1, JInvariance, PTL

(***************************************************************************)
(* A device whose handleRevoke was answered 204 (handlers.go:180-193) stays *)
(* revoked, in the file and in every memory, across rotations and restarts.  *)
(***************************************************************************)
THEOREM RevocationsAreKept == ASSUME PairingAlone PROVE Spec => []RevocationIsFinal
<1>1. IInv /\ JInv => RevocationIsFinal
  <2> SUFFICES ASSUME IInv, JInv, NEW r \in Request, Answered(r), req[r].kind = "revoke"
               PROVE  /\ disk # None /\ IsDeviceRevoked(disk, req[r].dev)
                      /\ Up => IsDeviceRevoked(mem, req[r].dev)
    BY DEF RevocationIsFinal
  <2>1. PICK x \in Filed : x.dev = req[r].dev /\ x.revoked
    BY DEF JInv, Settled, Requests, Recorded
  <2>2. disk # None /\ Sound(disk) /\ (Up => Sound(mem))
    BY <2>1 DEF Filed, IInv, Images, Up
  <2>3. IsDeviceRevoked(disk, req[r].dev)
    BY <2>1, <2>2 DEF Filed, Sound, IsDeviceRevoked
  <2>4. ASSUME Up PROVE IsDeviceRevoked(mem, req[r].dev)
    <3>1. PICK y \in Held : Ledger!Later(x, y)
      BY <2>1, <2>4 DEF JInv, Settled, Ahead, Extends
    <3> QED BY <2>1, <2>2, <2>4, <3>1
            DEF Held, Up, Sound, IsDeviceRevoked, Ledger!Later
  <2> QED BY <2>2, <2>3, <2>4
<1> QED BY <1>1, JInvariance, PTL

(***************************************************************************)
(* The file implements the session ledger (store.go:116-118): step by step  *)
(* it forgets, un-uses and un-revokes nothing, when nothing overlaps a       *)
(* pairing.                                                                  *)
(***************************************************************************)
THEOREM FileIsLedger == ASSUME PairingAlone PROVE Spec => LedgerOnlyAdvances
<1>1. IInv /\ JInv => Ledger!Consistent(Filed)
  BY FiledIsConsistent DEF JInv, Settled
<1>2. Init => Ledger!Init
  BY <1>1, InvInit, JInit DEF Ledger!Init, Filed
<1>3. (IInv /\ JInv)' => Ledger!Consistent(Filed)'
  BY <1>1, PTL
<1>4. (IInv /\ JInv) /\ (IInv /\ JInv)' /\ [Next]_vars => Ledger!Advance
  <2> SUFFICES ASSUME IInv, JInv, (IInv /\ JInv)', [Next]_vars PROVE Ledger!Advance
    OBVIOUS
  <2>1. Extends(Filed, Filed')
    BY FiledAdvances
  <2> QED BY <1>3, <2>1 DEF Ledger!Advance, Extends, Filed
<1> QED BY <1>2, <1>4, JInvariance, PTL DEF Spec, LedgerOnlyAdvances, Ledger!Spec
=============================================================================
