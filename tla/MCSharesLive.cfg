SPECIFICATION Spec
CONSTANTS
  Contexts = {"A", "B"}
  Routes = {"r"}
  Requests = {"p"}
  Start <- Starts
  Drafts <- OneDraft
  Body <- Bodies
  MaxRegs = 2
  Calls = {"close"}
INVARIANTS AgreeAtRest
PROPERTIES PutSafe PutAnswered Released
CHECK_DEADLOCK FALSE
