\* Racing creators, kills, sweeps; a client that attaches and detaches.
CONSTANTS
  Session = {s1, s2}
  Request = {r1, r2}
  MaxSessions = 1
  OutCap = 1
  MaxStopping = 1
  Swept = TRUE
  Streamed = {s1}
  None = None
SPECIFICATION TermFairSpec
INVARIANTS
  LimitWithRaces
  NoDiscarderWhileAttached
PROPERTIES
  RemovedIsKilled
  PumpEnds
