SPECIFICATION Spec
CONSTANTS
  Contexts = {"A", "B"}
  Routes = {"r"}
  Requests = {"p"}
  Start <- Starts
  Drafts <- NoDrafts
  Body <- BodiesOfB
  MaxRegs = 3
  Calls = {"unshare", "load", "close", "fail"}
INVARIANTS TypeOK MarkerNamesValue OneOwner
PROPERTIES HoldKeeps
CHECK_DEADLOCK FALSE
