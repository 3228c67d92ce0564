SPECIFICATION FairSpec
CONSTANTS
  Callers = {a, b}
  MaxEvents = 1
INVARIANTS TypeOK NoStrandedWaiter NoLeakedBarrier
PROPERTIES AnswersTell CallReturns CloseReturns
CHECK_DEADLOCK FALSE
