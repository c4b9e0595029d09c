\* Two goroutines call Run, so a stopped loop can be restarted while the old
\* one is still finishing its batch.
SPECIFICATION FairSpec
CONSTANTS
  Poster = {p1, p2}
  Runner = {r1, r2}
  NoRunner = NoRunner
  MaxPost = 4
INVARIANTS NoLostWakeup ExactlyOnce LoopIsKnown
PROPERTY LoopServes
