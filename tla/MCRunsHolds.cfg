SPECIFICATION Spec
CONSTANTS
  Nodes = {"src"}
  Up <- MCUp
  Configs = {1, 2, 3}
  Graphs <- MCGraphs
  Unset = 0
  Checksums = {0, 1, 10, 11, 20, 21, 30, 31}
  Null = 99
  Result <- MCResult
  Cap = 2
  Kinds = {"edit", "prune", "clock", "fail", "clear", "load"}
  MaxCalls = 4
INVARIANTS NoLostRun NoLeakedRun HeldBounded
PROPERTY HoldKept
CHECK_DEADLOCK FALSE
