SPECIFICATION Spec
CONSTANTS
  Nodes = {"src"}
  Up <- MCUp
  Configs = {1, 2}
  Graphs <- MCGraphs
  Unset = 0
  Checksums = {0, 1, 10, 11, 20, 21, 30, 31}
  Null = 99
  Result <- MCResult
  Cap = 1
  Kinds = {"edit", "clock", "prune", "close"}
  MaxCalls = 2
INVARIANT CloseCancels
CHECK_DEADLOCK FALSE
