SPECIFICATION Spec
CONSTANTS
  Keys = {k}
  Values = {a, b}
  Blank = FALSE
  NoValue = NoValue
  Undefined = Undefined
  NoEntry = NoEntry
  MaxSets = 2
  MaxChanges = 1
  MaxFaults = 2
INVARIANTS AgreeAtRest
PROPERTIES Converges
CHECK_DEADLOCK FALSE
