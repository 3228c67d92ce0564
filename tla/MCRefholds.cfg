SPECIFICATION Spec
CONSTANTS
  data = data
  step = step
  data2 = data2
  step2 = step2
  rest = rest
  Paths <- MCPaths
  Named <- MCNamed
  Sites <- MCSites
  Result <- MCResult
  Copied <- MCCopied
  Helper = rest
  Checksums = {k1, k2}
  Cap = 1
  MaxCalls = 3
  CopyOver = FALSE
  StaleConfig = FALSE
  Failed = Failed
  None = None
SYMMETRY Symmetry
INVARIANTS TypeOK Balanced KeptThroughout
CHECK_DEADLOCK FALSE
