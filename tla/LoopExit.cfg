\* One event whose handler tells its loop to exit and processes events.
SPECIFICATION Spec
CONSTANTS
  Receiver = {r1}
  Priority <- MCPriority
  Poster = {q}
  All = All
  MaxEvents = 1
  MaxLoops = 1
  MaxStack = 8
INVARIANT ExitReturns
