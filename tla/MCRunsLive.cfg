SPECIFICATION FairSpec
CONSTANTS
  Nodes = {"src", "tail"}
  Up <- MCUp
  Configs = {1, 2}
  Graphs <- MCGraphs
  Unset = 0
  Checksums = {0, 1, 10, 11, 20, 21, 30, 31}
  Null = 99
  Result <- MCResult
  Cap = 1
  Kinds = {"edit", "clock", "fail", "wait", "close"}
  MaxCalls = 2
INVARIANTS TypeOK NoStaleResult NoDuplicateDemand
PROPERTIES WaitAnswered HoldEnds CloseReturns
CHECK_DEADLOCK FALSE
