SPECIFICATION EnSpec
CONSTANTS
  Interval = 3
  KeyTimer = 1
  ShowEvery = 2
  CleanEvery = 2
  MaxTime = 7
  MaxRows = 2
  MaxEarly = 1
  MaxFails = 1
  MaxLag = 2
  MaxSignals = 0
INVARIANTS
  RecordsTypeOK
  ChargedOnce
  WindowIntact
  ClaimedOnce
