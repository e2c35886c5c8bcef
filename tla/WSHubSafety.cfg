\* Two clients with small channels: slow ones are dropped, the agent may stop.
CONSTANTS
  Client = {c1, c2}
  Channel = {m}
  SendCap = 2
  HubCap = 1
  MaxMsgs = 2
  MayStop = TRUE
SPECIFICATION Spec
SYMMETRY Symmetry
INVARIANTS
  MapMatchesChannels
  PanicOnlyAfterDrop
  DrainNeverBlocks
CHECK_DEADLOCK FALSE
