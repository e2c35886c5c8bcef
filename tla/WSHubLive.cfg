\* One client, two subscriptions: what it receives, and that it is reaped.
CONSTANTS
  Client = {c1}
  Channel = {m, n}
  SendCap = 2
  HubCap = 1
  MaxMsgs = 3
  MayStop = FALSE
SPECIFICATION FairSpec
INVARIANTS
  OnceInOrder
PROPERTIES
  ConnectionReaped
CHECK_DEADLOCK FALSE
