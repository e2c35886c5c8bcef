SPECIFICATION FairSpec
CONSTANTS
  disk = disk  None = None
  Metric = {disk}
  Optional = {disk}
  For <- MCFor
  Order <- MCOrder
  Caller = {"latest"}
  Container = {web, db}
  Reporter = {w1}
  RuleSets = {{disk}, {}}
  MaxChanges = 3
  MaxBuffer = 2
INVARIANTS WrapIsExplained AlertsMatchBreaches NewestKept UpIsAcked
PROPERTIES HighIsAlerted
