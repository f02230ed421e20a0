SPECIFICATION EnSpec
CONSTANTS
  Interval = 3
  KeyTimer = 1
  ShowEvery = 3
  CleanEvery = 2
  MaxTime = 8
  MaxRows = 2
  MaxEarly = 1
  MaxFails = 0
  MaxLag = 0
  MaxSignals = 0
INVARIANTS
  ChargedOnceAlways
