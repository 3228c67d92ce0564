SPECIFICATION FairSpec
CONSTANTS
  Editor = c1
  Any = c2
  Other = c3
  Callers = {c1, c2, c3}
  Requests <- MCRequests
  Celltypes = {"A", "B"}
  SourceType = "A"
  Foreign = "f"
  Loaded = "l"
  Failing = {"convert", "join"}
  Retries = 2
  None = None
INVARIANTS TypeOK CommitFits NoLostJob
PROPERTIES Linearizable EditAnswered
CHECK_DEADLOCK FALSE
