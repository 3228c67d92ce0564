SPECIFICATION FairSpec
CONSTANTS
  Specs <- LiveSpecs
  Roots <- MCRoots
  Contents <- LiveContents
  Edits <- LiveEdits
  ForeignEdits <- LiveForeign
  Calls = {"close"}
  Faults = {"write", "stamp"}
  MaxFaults = 1
  MaxInbox = 1
  Instants = {}
  Threshold = 3
PROPERTIES Converges MountReturns CloseReturns
CHECK_DEADLOCK FALSE
