SPECIFICATION Spec
CONSTANTS
  a1 = a1  t1 = t1  d1 = d1
  Key = {a1, t1}
  Addr = {a1}
  Token = {t1}
  Request = {r1, r2}
  Route = {"public", "protected", "ws"}
  Burst <- MCBurst
  Cost <- MCCost
  Device <- MCDevice
  CleanupAges = {2}
  MaxTime = 4
  MaxServed = 4
INVARIANTS WindowBound ServedBound 
SYMMETRY Symmetry
CHECK_DEADLOCK FALSE
