SPECIFICATION Spec
CONSTANTS
  Specs <- Fleeting
  Roots <- SyncRoots
  Contents <- SyncContents
  Edits <- FreshEdits
  ForeignEdits <- FreshForeign
  Faults = {"write"}
  MaxFaults = 0
  MaxInbox = 1
  Calls = {"clear", "unmount"}
  Instants = {"read", "reread"}
  Threshold = 2
INVARIANTS TypeOK InSyncAtRest
PROPERTIES NoUnseenLoss
CHECK_DEADLOCK FALSE
