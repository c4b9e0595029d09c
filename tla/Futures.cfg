SPECIFICATION AnyFairSpec
CONSTANTS
  Results = 3
  Waiter = {w1}
  Goals <- MCGoals
  Limit = 1
  Users <- MCUsers
  Begin <- MCBegin
  Depth = 2
  Caller = {a}
  Ways = {"cancel", "cancelChain"}
INVARIANTS ResultsAreInOrder WatcherIsTold ChainIsSound
PROPERTIES SuspendedIsQuiet IsResultStream FuturesEnd
CHECK_DEADLOCK FALSE
