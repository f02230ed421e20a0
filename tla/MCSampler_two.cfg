SPECIFICATION Spec
CONSTANTS
  MaxPid = 2
  MaxFd = 2
  MaxGen = 0
  MaxCount = 1
  MaxVal = 100
  ClampTicks = 2
INVARIANTS
  IInv
PROPERTIES
  UsageEventuallyBooked
