SPECIFICATION Spec
CONSTANTS
  Acquirer = {a1, a2}
  Releaser = {r1}
  Amount <- MCAmounts
  ReleaseAmount <- MCReleases
  InitialTokens = 1
  MaxTokens = 4
  HasWaiterCount = TRUE
INVARIANT SleepersAreWoken
CHECK_DEADLOCK FALSE
