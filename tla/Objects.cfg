\* Two events, a thread that posts, and loops and calls inside one another; and
\* two or three connections of a signal.
SPECIFICATION AnySpec
CONSTANTS
  Receiver = {r1, r2}
  Priority <- MCPriority
  Poster = {q}
  All = All
  MaxEvents = 2
  MaxLoops = 2
  MaxStack = 8
  Thread = {"a", "b"}
  Listener = {"x", "y"}
  Sender = "s"
  thread <- MCThreadOf
  MaxConnections = 2
  MaxDepth <- MCDepth
INVARIANTS EventsAreDelivered NobodyBlocksBesideEvents NothingFreedIsUsed EmissionsAreExact
SYMMETRY MCSymmetry
CHECK_DEADLOCK FALSE
