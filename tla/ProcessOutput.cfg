\* One command that writes a line and exits, as in TestProcessBasic.
SPECIFICATION Spec
CONSTANTS
  MaxStart = 1
  MaxLine = 1
  PipeCap = 1
  OutputCap = 1
INVARIANT NoLineLost
