SPECIFICATION Spec
CONSTANTS
  MaxPid = 1
  MaxFd = 2
  MaxGen = 2
  MaxCount = 2
  MaxVal = 100
  ClampTicks = 2
INVARIANTS
  TypeOK
  CounterLedger
  CounterOnlyWhileReported
  UsageBookedOnce
PROPERTIES
  Metered
  ScanEnds
