SPECIFICATION Spec
CONSTANTS
  Specs <- LiveSpecs
  Roots <- MCRoots
  Contents <- LiveContents
  Edits <- RevertEdits
  ForeignEdits <- LiveForeign
  Calls = {}
  Faults = {"write"}
  MaxFaults = 0
  MaxInbox = 1
  Instants = {}
  Threshold = 3
INVARIANTS InSyncAtRest
CHECK_DEADLOCK FALSE
