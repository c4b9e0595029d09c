SPECIFICATION FairSpec
CONSTANTS
  Depth = 1
  Caller = {a, b}
  Ways = {"cancel", "cancelChain"}
PROPERTY CancelReturns
CHECK_DEADLOCK FALSE
