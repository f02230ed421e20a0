SPECIFICATION Spec
CONSTANTS
  MaxPid = 1
  MaxFd = 2
  MaxGen = 0
  MaxCount = 1
  MaxVal = 100
  ClampTicks = 2
INVARIANTS
  ExitedNotReported
