\* From the first boot; pairing overlaps nothing else; crashes, failing I/O.
CONSTANTS
  Device = {d1, d2, d3, d4}
  Token = {t1, t2, t3, t4}
  EToken = {e1}
  Secret = {s1, s2, s3}
  Request = {r1, r2, r3, r4}
  Cli = {c1}
  None = None
  FirstBoot = TRUE
  PairingAlone = TRUE
  IOMayFail = TRUE
  MayExpire = {t1}
  MaxCrashes = 1
SPECIFICATION Spec
SYMMETRY Symmetry
INVARIANTS
  AnsweredIsDurable
  SingleUse
  RevocationIsFinal
PROPERTIES
  LedgerOnlyAdvances
