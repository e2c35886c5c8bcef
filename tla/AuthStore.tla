------------------------------ MODULE AuthStore ------------------------------
(***************************************************************************)
(* The agent's auth store and the four programs that share its file: the   *)
(* enroll, refresh and revoke handlers, each a goroutine of the server, and *)
(* `qwe1-agent --enroll`, a second process.  The server keeps an image of   *)
(* the state in memory (Store.fs), the file holds another; every method of  *)
(* Store takes the mutex, so a method is one step, and a handler is the     *)
(* sequence of its method calls.  Reload is two steps: it reads the file    *)
(* before it takes the mutex (store.go:119-144).                            *)
(*                                                                          *)
(* An image holds sets of records where the code holds slices: the hashes   *)
(* are of random tokens, so no two records share one.  Persist replaces the *)
(* file in one step here; StoreFile.tla opens that step.                    *)
(***************************************************************************)
EXTENDS Naturals, FiniteSets

CONSTANTS
  Device,        \* ids made by generateID
  Token,         \* refresh tokens (their hashes)
  EToken,        \* enrollment tokens (their hashes)
  Secret,        \* signer secrets
  Request,       \* HTTP requests, each served once
  Cli,           \* runs of `qwe1-agent --enroll`
  None,          \* no file, no process, no value
  FirstBoot,     \* TRUE: no file yet; FALSE: one device has paired before
  PairingAlone,  \* TRUE: pairing overlaps no other request (environment)
  IOMayFail,     \* TRUE: a read or a write of the file may fail
  MayExpire,     \* the tokens whose lifetime may end during the run
  MaxCrashes     \* bound on crashes of the server

Refresh == [hash: Token, dev: Device, used: BOOLEAN, revoked: BOOLEAN]
Enroll  == [hash: EToken, used: BOOLEAN]
Image   == [refresh: SUBSET Refresh, enroll: SUBSET Enroll,
            devices: SUBSET Device, secret: Secret]

ASSUME NoneIsNoValue ==
  /\ None \notin Image
  /\ None \notin Device \cup Token \cup EToken \cup Secret
ASSUME Switches ==
  /\ FirstBoot \in BOOLEAN /\ PairingAlone \in BOOLEAN /\ IOMayFail \in BOOLEAN
  /\ MaxCrashes \in Nat

VARIABLES
  mem,      \* the server's Store.fs, None while the server is down
  disk,     \* the contents of <server>.auth.json, None while absent
  signer,   \* the secret of Server.signer
  req,      \* the handlers' local state
  cli,      \* the enroll commands' local state
  minted,   \* every random value generated so far
  expired,  \* the tokens whose ExpiresAt has passed
  crashes   \* crashes so far, bounded by MaxCrashes

vars == <<mem, disk, signer, req, cli, minted, expired, crashes>>

\* crypto/rand never repeats itself: a new value is one not made before, and
\* which of those it is makes no difference.
Unused(S, taken) == IF S \subseteq taken THEN {} ELSE {CHOOSE x \in S : x \notin taken}
Fresh(S) == Unused(S, minted)

------------------------------------------------------------------------------
(* Records, images and the methods of Store as functions of an image.       *)

Live(r) == ~r.used /\ ~r.revoked

NewRecord(h, d) == [hash |-> h, dev |-> d, used |-> FALSE, revoked |-> FALSE]

EmptyImage(s) == [refresh |-> {}, enroll |-> {}, devices |-> {}, secret |-> s]

\* Mutant: a secret generated at every start.
NewStore_AlwaysGenerates ==
  IF disk # None THEN {[disk EXCEPT !.secret = s] : s \in Fresh(Secret)}
  ELSE {EmptyImage(s) : s \in Fresh(Secret)}

\* NewStore: the file's image, or an empty one with a secret just generated.
\* The secret is not written to the file here.
NewStore == IF disk # None THEN {disk}
            ELSE {EmptyImage(s) : s \in Fresh(Secret)}

\* Mutant: the Used test forgotten.
Rotatable_UsedToo(img, old, r) ==
  r \in img.refresh /\ r.hash = old /\ ~r.revoked /\ old \notin expired

\* RotateRefreshAtomic finds the record, rejects a used, revoked or expired
\* one, marks it used and appends the successor for the same device.
Rotatable(img, old, r) ==
  /\ r \in img.refresh
  /\ r.hash = old
  /\ Live(r)
  /\ old \notin expired

\* Mutants: the old record not marked; the old record dropped from the list.
RotateRefreshAtomic_Unmarked(img, r, new) ==
  [img EXCEPT !.refresh = @ \cup {NewRecord(new, r.dev)}]

RotateRefreshAtomic_Drops(img, r, new) ==
  [img EXCEPT !.refresh = (@ \ {r}) \cup {NewRecord(new, r.dev)}]

RotateRefreshAtomic(img, r, new) ==
  [img EXCEPT !.refresh = (@ \ {r}) \cup {[r EXCEPT !.used = TRUE],
                                           NewRecord(new, r.dev)}]

\* Mutant: only the live record is revoked.
RevokedRecord_LiveOnly(r, d) ==
  IF r.dev = d /\ Live(r) THEN [r EXCEPT !.used = TRUE, !.revoked = TRUE] ELSE r

\* RevokeDevice marks every record of the device and frees its slot.
RevokedRecord(r, d) ==
  IF r.dev = d THEN [r EXCEPT !.used = TRUE, !.revoked = TRUE] ELSE r

\* Mutants: the tokens forgotten; the device's slot not freed.
RevokeDevice_RegistryOnly(img, d) == [img EXCEPT !.devices = @ \ {d}]

RevokeDevice(img, d) ==
  [img EXCEPT !.refresh = {RevokedRecord(r, d) : r \in @},
              !.devices = @ \ {d}]

\* IsDeviceRevoked: the device has records and all of them are revoked.
IsDeviceRevoked(img, d) ==
  /\ \E r \in img.refresh : r.dev = d
  /\ \A r \in img.refresh : r.dev = d => r.revoked

AddEnrollment(img, e) ==
  [img EXCEPT !.enroll = @ \cup {[hash |-> e, used |-> FALSE]}]

MarkEnrollmentUsed(img, e) ==
  [img EXCEPT !.enroll =
     {IF x.hash = e THEN [x EXCEPT !.used = TRUE] ELSE x : x \in @}]

AddDevice(img, d) == [img EXCEPT !.devices = @ \cup {d}]

AddRefresh(img, h, d) ==
  [img EXCEPT !.refresh = @ \cup {NewRecord(h, d)}]

------------------------------------------------------------------------------
(* The handlers' local state.                                               *)

PC == {"idle", "enroll_read", "enroll_assign", "enroll_lookup",
       "enroll_device", "enroll_mark", "enroll_add", "rotate",
       "reuse_lookup", "reuse_revoke", "authorize", "revoke",
       "persist", "done"}

Handler ==
  [pc: PC,
   kind: {"none", "enroll", "refresh", "reuse", "revoke"},
   tok: Token \cup EToken \cup {None},   \* the token the request carries
   dev: Device \cup {None},              \* the device the handler acts for
   new: Token \cup {None},               \* the refresh token it returns
   sig: Secret \cup {None},              \* the secret its access token is signed with
   snap: Image \cup {None},              \* the file as Reload read it
   out: {"none", "ok", "denied", "error", "lost"}]

Command == [pc: {"idle", "loaded", "done", "failed"},
            tok: EToken \cup {None}, img: Image \cup {None}]

IdleHandler == [pc |-> "idle", kind |-> "none", tok |-> None, dev |-> None,
                new |-> None, sig |-> None, snap |-> None, out |-> "none"]

IdleCommand == [pc |-> "idle", tok |-> None, img |-> None]

Up == mem # None
InFlight(r) == req[r].pc \notin {"idle", "done"}
Answered(r) == req[r].out = "ok"
Issued(r)   == Answered(r) /\ req[r].kind \in {"enroll", "refresh"}

\* The tokens the outside world has seen: those of an answer, those printed.
Delivered(t) == \E r \in Request : Issued(r) /\ req[r].new = t
Printed(e)   == /\ e \in minted
                /\ \A c \in Cli : cli[c].tok = e => cli[c].pc = "done"

\* The environment of PairingAlone: an operator pairs while nothing else runs.
Alone(pairing) ==
  PairingAlone =>
    /\ \A c \in Cli : cli[c].pc # "loaded"
    /\ \A r \in Request :
         InFlight(r) => ~pairing /\ req[r].kind # "enroll"

------------------------------------------------------------------------------
(* The first state: the agent is down.  Either nothing was ever stored, or  *)
(* one enroll request has been served in an earlier life of the agent.      *)

Init ==
  /\ mem = None
  /\ signer = None
  /\ cli = [c \in Cli |-> IdleCommand]
  /\ expired = {}
  /\ crashes = 0
  /\ \/ /\ FirstBoot
        /\ disk = None
        /\ req = [r \in Request |-> IdleHandler]
        /\ minted = {}
     \/ /\ ~FirstBoot
        /\ \E d \in Unused(Device, {}), t \in Unused(Token, {}),
              e \in Unused(EToken, {}), s \in Unused(Secret, {}), q \in Request :
             /\ disk = [refresh |-> {NewRecord(t, d)},
                        enroll  |-> {[hash |-> e, used |-> TRUE]},
                        devices |-> {d}, secret |-> s]
             /\ req = [r \in Request |->
                         IF r = q
                         THEN [IdleHandler EXCEPT !.pc = "done", !.kind = "enroll",
                                 !.tok = e, !.dev = d, !.new = t, !.sig = s,
                                 !.out = "ok"]
                         ELSE IdleHandler]
             /\ minted = {d, t, e, s}

------------------------------------------------------------------------------
(* The server process.                                                      *)

Boot ==
  /\ ~Up
  /\ \E img \in NewStore :
       /\ mem' = img
       /\ signer' = img.secret
       /\ minted' = minted \cup {img.secret}
  /\ UNCHANGED <<disk, req, cli, expired, crashes>>

\* The memory is gone and with it every request in flight.
Crash ==
  /\ Up
  /\ crashes < MaxCrashes
  /\ crashes' = crashes + 1
  /\ mem' = None
  /\ signer' = None
  /\ req' = [r \in Request |->
               IF InFlight(r)
               THEN [req[r] EXCEPT !.pc = "done", !.snap = None, !.out = "lost"]
               ELSE req[r]]
  /\ UNCHANGED <<disk, cli, minted, expired>>

Expire(h) ==
  /\ h \in (MayExpire \cap minted) \ expired
  /\ expired' = expired \cup {h}
  /\ UNCHANGED <<mem, disk, signer, req, cli, minted, crashes>>

------------------------------------------------------------------------------
(* A request reaches its handler.                                           *)

Arrive(r, h) ==
  /\ Up
  /\ req[r].pc = "idle"
  /\ req' = [req EXCEPT ![r] = h]
  /\ UNCHANGED <<mem, disk, signer, cli, minted, expired, crashes>>

ArriveEnroll(r) ==
  /\ Alone(TRUE)
  /\ \E e \in EToken :
       /\ Printed(e)
       /\ Arrive(r, [IdleHandler EXCEPT !.pc = "enroll_read", !.kind = "enroll",
                                        !.tok = e])

ArriveRefresh(r) ==
  /\ Alone(FALSE)
  /\ \E t \in Token :
       /\ Delivered(t)
       /\ Arrive(r, [IdleHandler EXCEPT !.pc = "rotate", !.kind = "refresh",
                                        !.tok = t])

\* The bearer token is the access token of an earlier answer.
ArriveRevoke(r) ==
  /\ Alone(FALSE)
  /\ \E a \in Request :
       /\ Issued(a)
       /\ Arrive(r, [IdleHandler EXCEPT !.pc = "authorize", !.kind = "revoke",
                                        !.dev = req[a].dev, !.sig = req[a].sig])

------------------------------------------------------------------------------
(* The steps of the handlers.                                               *)

At(r, pc) == Up /\ req[r].pc = pc

\* The handler's locals move on; everything it does not name stays.
Goto(r, pc) == req' = [req EXCEPT ![r] = [@ EXCEPT !.pc = pc]]

Reply(r, out) ==
  req' = [req EXCEPT ![r] = [@ EXCEPT !.pc = "done", !.snap = None, !.out = out]]

\* Reload, first half: os.ReadFile without the mutex.  A missing file leaves
\* the memory as it is; an error is only logged (handlers.go:61-63).
EnrollRead(r) ==
  /\ At(r, "enroll_read")
  /\ \/ /\ disk # None
        /\ req' = [req EXCEPT ![r] = [@ EXCEPT !.pc = "enroll_assign", !.snap = disk]]
     \/ /\ disk = None \/ IOMayFail
        /\ Goto(r, "enroll_lookup")
  /\ UNCHANGED <<mem, disk, signer, cli, minted, expired, crashes>>

\* Reload, second half: s.fs = fs under the mutex.
EnrollAssign(r) ==
  /\ At(r, "enroll_assign")
  /\ mem' = req[r].snap
  /\ req' = [req EXCEPT ![r] = [@ EXCEPT !.pc = "enroll_lookup", !.snap = None]]
  /\ UNCHANGED <<disk, signer, cli, minted, expired, crashes>>

\* Mutant: AddRefresh before the device has its id.
EnrollLookup_SkipsDevice(r) ==
  /\ At(r, "enroll_lookup")
  /\ Goto(r, "enroll_add")
  /\ UNCHANGED <<mem, disk, signer, cli, minted, expired, crashes>>

\* EnrollByHash and the expiry test; Used is not looked at.
EnrollLookup(r) ==
  /\ At(r, "enroll_lookup")
  /\ IF /\ \E x \in mem.enroll : x.hash = req[r].tok
        /\ req[r].tok \notin expired
     THEN Goto(r, "enroll_device")
     ELSE Reply(r, "denied")
  /\ UNCHANGED <<mem, disk, signer, cli, minted, expired, crashes>>

EnrollDevice(r) ==
  /\ At(r, "enroll_device")
  /\ \E d \in Fresh(Device) :
       /\ mem' = AddDevice(mem, d)
       /\ minted' = minted \cup {d}
       /\ req' = [req EXCEPT ![r] = [@ EXCEPT !.pc = "enroll_mark", !.dev = d]]
  /\ UNCHANGED <<disk, signer, cli, expired, crashes>>

EnrollMark(r) ==
  /\ At(r, "enroll_mark")
  /\ mem' = MarkEnrollmentUsed(mem, req[r].tok)
  /\ Goto(r, "enroll_add")
  /\ UNCHANGED <<disk, signer, cli, minted, expired, crashes>>

\* GenerateAccessToken, GenerateRefreshToken and AddRefresh.
EnrollAdd(r) ==
  /\ At(r, "enroll_add")
  /\ \E t \in Fresh(Token) :
       /\ mem' = AddRefresh(mem, t, req[r].dev)
       /\ minted' = minted \cup {t}
       /\ req' = [req EXCEPT ![r] = [@ EXCEPT !.pc = "persist", !.new = t,
                                                   !.sig = signer]]
  /\ UNCHANGED <<disk, signer, cli, expired, crashes>>

\* RotateRefreshAtomic, then the access token.
Rotate(r) ==
  /\ At(r, "rotate")
  /\ \E old \in mem.refresh, t \in Fresh(Token) :
       /\ Rotatable(mem, req[r].tok, old)
       /\ mem' = RotateRefreshAtomic(mem, old, t)
       /\ minted' = minted \cup {t}
       /\ req' = [req EXCEPT ![r] = [@ EXCEPT !.pc = "persist", !.dev = old.dev,
                                              !.new = t, !.sig = signer]]
  /\ UNCHANGED <<disk, signer, cli, expired, crashes>>

RotateRefused(r) ==
  /\ At(r, "rotate")
  /\ ~\E old \in mem.refresh : Rotatable(mem, req[r].tok, old)
  /\ req' = [req EXCEPT ![r] = [@ EXCEPT !.pc = "reuse_lookup", !.kind = "reuse"]]
  /\ UNCHANGED <<mem, disk, signer, cli, minted, expired, crashes>>

\* RefreshByHash: an unknown hash revokes nothing.
ReuseLookup(r) ==
  /\ At(r, "reuse_lookup")
  /\ \/ \E x \in mem.refresh :
          /\ x.hash = req[r].tok
          /\ req' = [req EXCEPT ![r] = [@ EXCEPT !.pc = "reuse_revoke", !.dev = x.dev]]
     \/ /\ ~\E x \in mem.refresh : x.hash = req[r].tok
        /\ Goto(r, "persist")
  /\ UNCHANGED <<mem, disk, signer, cli, minted, expired, crashes>>

ReuseRevoke(r) ==
  /\ At(r, "reuse_revoke")
  /\ mem' = RevokeDevice(mem, req[r].dev)
  /\ Goto(r, "persist")
  /\ UNCHANGED <<disk, signer, cli, minted, expired, crashes>>

\* authMiddleware: signature, then IsDeviceRevoked.  The access token may
\* have expired or the rate limiter refuse it, which denies any request.
Authorize(r) ==
  /\ At(r, "authorize")
  /\ \/ /\ req[r].sig = signer
        /\ ~IsDeviceRevoked(mem, req[r].dev)
        /\ Goto(r, "revoke")
     \/ Reply(r, "denied")
  /\ UNCHANGED <<mem, disk, signer, cli, minted, expired, crashes>>

Revoke(r) ==
  /\ At(r, "revoke")
  /\ mem' = RevokeDevice(mem, req[r].dev)
  /\ Goto(r, "persist")
  /\ UNCHANGED <<disk, signer, cli, minted, expired, crashes>>

\* Persist, and the answer that follows it.
Persist(r) ==
  /\ At(r, "persist")
  /\ disk' = mem
  /\ Reply(r, IF req[r].kind = "reuse" THEN "denied" ELSE "ok")
  /\ UNCHANGED <<mem, signer, cli, minted, expired, crashes>>

\* Mutant: the error of Persist ignored everywhere.
PersistFails_Ignored(r) ==
  /\ IOMayFail
  /\ At(r, "persist")
  /\ Reply(r, IF req[r].kind = "reuse" THEN "denied" ELSE "ok")
  /\ UNCHANGED <<mem, disk, signer, cli, minted, expired, crashes>>

\* A Persist that fails: 500, except after a reuse, whose answer is the same.
PersistFails(r) ==
  /\ IOMayFail
  /\ At(r, "persist")
  /\ Reply(r, IF req[r].kind = "reuse" THEN "denied" ELSE "error")
  /\ UNCHANGED <<mem, disk, signer, cli, minted, expired, crashes>>

------------------------------------------------------------------------------
(* `qwe1-agent --enroll`: NewStore and AddEnrollment in its own memory, then *)
(* Persist, then the token is printed.                                      *)

CliLoad(c) ==
  /\ cli[c].pc = "idle"
  /\ Alone(TRUE)
  /\ \E img \in NewStore, e \in Fresh(EToken) :
       /\ cli' = [cli EXCEPT ![c] = [pc |-> "loaded", tok |-> e,
                                     img |-> AddEnrollment(img, e)]]
       /\ minted' = minted \cup {img.secret, e}
  /\ UNCHANGED <<mem, disk, signer, req, expired, crashes>>

CliPersist(c) ==
  /\ cli[c].pc = "loaded"
  /\ disk' = cli[c].img
  /\ cli' = [cli EXCEPT ![c] = [@ EXCEPT !.pc = "done", !.img = None]]
  /\ UNCHANGED <<mem, signer, req, minted, expired, crashes>>

CliPersistFails(c) ==
  /\ IOMayFail
  /\ cli[c].pc = "loaded"
  /\ cli' = [cli EXCEPT ![c] = [@ EXCEPT !.pc = "failed", !.img = None]]
  /\ UNCHANGED <<mem, disk, signer, req, minted, expired, crashes>>

------------------------------------------------------------------------------
EnrollStep(r) ==
  \/ ArriveEnroll(r) \/ EnrollRead(r) \/ EnrollAssign(r) \/ EnrollLookup(r)
  \/ EnrollDevice(r) \/ EnrollMark(r) \/ EnrollAdd(r)

RefreshStep(r) ==
  \/ ArriveRefresh(r) \/ Rotate(r) \/ RotateRefused(r)
  \/ ReuseLookup(r) \/ ReuseRevoke(r)

RevokeStep(r) == ArriveRevoke(r) \/ Authorize(r) \/ Revoke(r)

HandlerStep(r) ==
  \/ EnrollStep(r) \/ RefreshStep(r) \/ RevokeStep(r)
  \/ Persist(r) \/ PersistFails(r)

CliStep(c) == CliLoad(c) \/ CliPersist(c) \/ CliPersistFails(c)

\* Nothing is in flight: the agent waits in Accept, for ever if need be.
Listening ==
  /\ Up
  /\ \A r \in Request : ~InFlight(r)
  /\ \A c \in Cli : cli[c].pc # "loaded"
  /\ UNCHANGED vars

Next ==
  \/ Boot \/ Crash \/ Listening
  \/ \E h \in Token \cup EToken : Expire(h)
  \/ \E r \in Request : HandlerStep(r)
  \/ \E c \in Cli : CliStep(c)

Spec == Init /\ [][Next]_vars

------------------------------------------------------------------------------
TypeOK ==
  /\ mem \in Image \cup {None}
  /\ disk \in Image \cup {None}
  /\ signer \in Secret \cup {None}
  /\ req \in [Request -> Handler]
  /\ cli \in [Cli -> Command]
  /\ minted \subseteq Device \cup Token \cup EToken \cup Secret
  /\ expired \subseteq Token \cup EToken
  /\ crashes \in 0..MaxCrashes

\* Every image of the store there is: the server's memory, the file, what a
\* Reload in progress has read, what an enroll command is about to write.
Images == ({mem, disk} \cup {req[r].snap : r \in Request}
                       \cup {cli[c].img : c \in Cli}) \ {None}

(***************************************************************************)
(* RotateRefreshAtomic hands the device on from token to token: whatever   *)
(* images of the store the races of Reload, Persist, the enroll command and *)
(* crashes produce, none of them ever holds two live refresh tokens of one *)
(* device (store.go:212-239, 269-274).                                      *)
(***************************************************************************)
OneLivePerDevice ==
  \A img \in Images : \A x, y \in img.refresh :
    Live(x) /\ Live(y) /\ x.dev = y.dev => x = y

(***************************************************************************)
(* A device is revoked as a whole.  IsDeviceRevoked asks that ALL records  *)
(* of the device be revoked (store.go:361-375), so one record that a        *)
(* rotation or an enrollment adds beside revoked ones would let the device *)
(* back in: no image of the store ever mixes the two.                       *)
(***************************************************************************)
RevokedAsAWhole ==
  \A img \in Images : \A x, y \in img.refresh :
    x.dev = y.dev => x.revoked = y.revoked

(***************************************************************************)
(* Access tokens survive restarts (server.go:63-67): the secret a token     *)
(* was signed with is the secret of the running server's signer, whichever *)
(* process wrote the file last.                                             *)
(***************************************************************************)
TokensSurviveRestart ==
  \A r \in Request : Issued(r) /\ Up => req[r].sig = signer

(***************************************************************************)
(* A refresh token the server has handed out is in the file: whatever      *)
(* crashes or fails later, the device can come back with it or is found to *)
(* have used it ("every mutation persists before returning", store.go:118). *)
(***************************************************************************)
AnsweredIsDurable ==
  \A r \in Request : Issued(r) =>
    /\ disk # None
    /\ \E x \in disk.refresh : x.hash = req[r].new

(***************************************************************************)
(* A refresh token buys one successor: of all the refresh requests that     *)
(* carry a token, now, later or after a restart, at most one is answered    *)
(* with new tokens (store.go:212-239, handlers.go:145-157).                 *)
(***************************************************************************)
SingleUse ==
  \A q, r \in Request :
    /\ Answered(q) /\ req[q].kind = "refresh"
    /\ Answered(r) /\ req[r].kind = "refresh"
    /\ req[q].tok = req[r].tok
    => q = r

(***************************************************************************)
(* A revocation is final: once handleRevoke has answered 204 the device is *)
(* revoked in the file and in the memory of every later server, so no       *)
(* access token of it passes authMiddleware again (handlers.go:180-193).    *)
(***************************************************************************)
RevocationIsFinal ==
  \A r \in Request : Answered(r) /\ req[r].kind = "revoke" =>
    /\ disk # None /\ IsDeviceRevoked(disk, req[r].dev)
    /\ Up => IsDeviceRevoked(mem, req[r].dev)

(***************************************************************************)
(* The file implements the session ledger: whatever Persist, the enroll     *)
(* command and crashes do, the file never forgets a token, never un-uses or *)
(* un-revokes one (store.go:116-118, "the file is the authority").          *)
(***************************************************************************)
Ledger == INSTANCE SessionLedger WITH
            ledger <- IF disk = None THEN {} ELSE disk.refresh
LedgerOnlyAdvances == Ledger!Spec

(***************************************************************************)
(* The claims of comments that the code does not keep.                      *)
(***************************************************************************)
(* handlers.go:59-60: Reload picks up the tokens `--enroll` adds while the  *)
(* server runs, so a printed token that has not expired is never refused.   *)
PrintedTokenIsHonoured ==
  \A r \in Request :
    req[r].kind = "enroll" /\ req[r].out = "denied" => req[r].tok \in expired

(* handlers.go:76: the enrollment token cannot be reused.                   *)
EnrollmentTokenSingleUse ==
  \A q, r \in Request :
    /\ Answered(q) /\ req[q].kind = "enroll"
    /\ Answered(r) /\ req[r].kind = "enroll"
    /\ req[q].tok = req[r].tok
    => q = r
=============================================================================
