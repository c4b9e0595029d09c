SPECIFICATION AnyFairSpec
CONSTANTS
  Caller = {g1, g2}
  Poster = {g1}
  Runner = {g2}
  NoRunner = NoRunner
  MaxPost = 6
  Setter = {g1, g2}
  Slot = {s1, s2}
  Value = {TRUE, FALSE}
  MaxEmit = 3
  Values = {x, y}
  Last = 3
  Key = {x}
  Subscriber = {s1, s2}
  Capacity = 1
  MaxWrites = 3
  Limit = 3
  MaxActions = 5
  Client = {g1, g2, s1}
  Target = {x, y}
  NoDevice = none
  deviceID <- MCDevice
  Platform = {x, y}
  Hooks = 2
  MaxMessages = 4
  MaxDepth = 6
  Bpm <- MCBpm
  StepsPerBar = 4
  StepsPerBeat = 2
  TickCap = 1
  MaxStart = 2
INVARIANTS BoundAgrees SubscribersAreTold UndoneOnce GrantedIsKept HooksMatchPlatforms EveryMessageOnce ClockIsSound SlotsHearEmissions
PROPERTIES StopSilences IsSerialExecutor
CHECK_DEADLOCK FALSE
