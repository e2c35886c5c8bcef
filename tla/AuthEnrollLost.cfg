\* A printed enrollment token is refused.
CONSTANTS
  Device = {d1, d2, d3}
  Token = {t1, t2, t3}
  EToken = {e1, e2}
  Secret = {s1}
  Request = {r1, r2, r3}
  Cli = {c1}
  None = None
  FirstBoot = FALSE
  PairingAlone = TRUE
  IOMayFail = FALSE
  MayExpire = {}
  MaxCrashes = 0
SPECIFICATION Spec
SYMMETRY Symmetry
INVARIANTS
  PrintedTokenIsHonoured
