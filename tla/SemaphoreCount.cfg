SPECIFICATION Spec
CONSTANTS
  Acquirer = {a1, a2, a3}
  Releaser = {r1, r2}
  Amount <- MCAmounts
  ReleaseAmount <- MCReleases
  InitialTokens = 0
  MaxTokens = 2
  HasWaiterCount = TRUE
SYMMETRY MCSymmetry
INVARIANTS WordIsExact SinglesAreWoken
CHECK_DEADLOCK FALSE
