---------------------------- MODULE SessionLedger ----------------------------
(***************************************************************************)
(* What the auth store promises about sessions, without files, memories or *)
(* handlers: a durable ledger of refresh tokens that only moves forward.   *)
(* A token in it stays in it, belongs to one device for ever, and is used  *)
(* and revoked once; a device has at most one live token and is revoked as *)
(* a whole, for good.                                                       *)
(***************************************************************************)
CONSTANTS Device, Token

VARIABLE ledger

Entry == [hash: Token, dev: Device, used: BOOLEAN, revoked: BOOLEAN]

Live(x) == ~x.used /\ ~x.revoked

Consistent(L) ==
  /\ L \subseteq Entry
  /\ \A x, y \in L :
       /\ x.hash = y.hash => x = y
       /\ x.dev = y.dev /\ Live(x) /\ Live(y) => x = y
       /\ x.dev = y.dev => x.revoked = y.revoked

\* y is x at the same time or later.
Later(x, y) ==
  /\ y.hash = x.hash /\ y.dev = x.dev
  /\ x.used => y.used
  /\ x.revoked => y.revoked

Init == Consistent(ledger)

\* Any number of sessions may open, rotate and end in one step: one Persist
\* writes out what several handlers have done.
Advance ==
  /\ \A x \in ledger : \E y \in ledger' : Later(x, y)
  /\ Consistent(ledger)'

Spec == Init /\ [][Advance]_ledger
=============================================================================
