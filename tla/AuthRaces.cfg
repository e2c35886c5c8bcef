\* Pairing, refreshing, revoking and the enroll command race; crashes, failing I/O.
CONSTANTS
  Device = {d1, d2, d3, d4}
  Token = {t1, t2, t3, t4}
  EToken = {e1, e2}
  Secret = {s1, s2}
  Request = {r1, r2, r3, r4}
  Cli = {c1}
  None = None
  FirstBoot = FALSE
  PairingAlone = FALSE
  IOMayFail = TRUE
  MayExpire = {t1}
  MaxCrashes = 1
SPECIFICATION Spec
SYMMETRY Symmetry
INVARIANTS
  TypeOK
  OneLivePerDevice
  RevokedAsAWhole
  TokensSurviveRestart
