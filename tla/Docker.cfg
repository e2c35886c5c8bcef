SPECIFICATION FairSpec
CONSTANTS
  N = 4
  Slots = 2
  Char = {"a", "CR", "LF"}
  MaxText = 3
  MaxFrame = 2
  Attempts = 2
INVARIANTS ReturnedIsQuiet FramingIsInvisible 
PROPERTIES UpIsConnected RequestEnds
