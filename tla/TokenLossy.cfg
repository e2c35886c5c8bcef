\* Three callers refresh over a lossy network; the app dies, deletes, enrolls again.
CONSTANTS
  Caller = {c1, c2, c3}
  Device = {d1, d2}
  MaxRequests = 3
  MayLose = TRUE
  None = None
SPECIFICATION FairSpec

  
  
PROPERTIES
  EveryCallReturns
