\* Two Starts, at any moment; every channel and pipe holds one line.
SPECIFICATION FairSpec
CONSTANTS
  MaxStart = 2
  MaxLine = 2
  PipeCap = 1
  OutputCap = 1
INVARIANTS LinesInOrder StateIsTrue
PROPERTY CallsEnd
