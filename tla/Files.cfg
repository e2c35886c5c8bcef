SPECIFICATION FairSpec
CONSTANTS
  Name = {"f", "d", "e", ".h"}
  Hidden = {".h"}
  Request = {"r1", "r2"}
  Operation <- MCOperation
  Depth = 3
  Chunks = 2
  MaxInode = 8
  Start <- MCStart
INVARIANTS VisibleIsWhole ReadsOneVersion TempsAreOwned SearchFindsWhatStays
PROPERTIES Confined RequestsEnd
CHECK_DEADLOCK FALSE
